------------------------------ MODULE UriProofs ------------------------------
(***************************************************************************)
(* Proofs about Uri, for texts of any length that 16 bits can hold.        *)
(***************************************************************************)
EXTENDS Uri, SequenceTheorems, WellFoundedInduction, TLAPS

\* A text whose length a std::uint16_t holds.
Fits(s) == s \in Seq(Byte) /\ Len(s) < LengthCount

Lengths == 0 .. LengthCount - 1
UriObject ==
    [data : Seq(Byte), schemeLen : Lengths, authorityLen : Lengths, pathLen : Lengths, queryLen : Lengths,
     fragmentLen : Lengths, hasAuthority : BOOLEAN, hasQuery : BOOLEAN, hasFragment : BOOLEAN]

\* The lengths cover the string, and a part that is not there has none.
UriInv(u) ==
    /\ u \in UriObject
    /\ Len(u.data) = fragmentIdx(u) + u.fragmentLen
    /\ ~u.hasAuthority => u.authorityLen = 0
    /\ ~u.hasQuery => u.queryLen = 0
    /\ ~u.hasFragment => u.fragmentLen = 0

-----------------------------------------------------------------------------
(* Replacing a part of a string.                                           *)

\* n bytes of a, behind the i-th, are those of b behind the j-th.
Agree(a, i, b, j, n) == \A k \in 1 .. n : a[i + k] = b[j + k]

\* There are n bytes in a behind the i-th.
HasPart(a, i, n) == a \in Seq(Byte) /\ i \in Nat /\ n \in Nat /\ i + n <= Len(a)

\* A part of a string is a string of the length of the part.
LEMMA PartOfText ==
    ASSUME NEW a, NEW i, NEW n, HasPart(a, i, n)
    PROVE  /\ substr(a, i, n) \in Seq(Byte)
           /\ Len(substr(a, i, n)) = n
           /\ Agree(substr(a, i, n), 0, a, i, n)
<1>0. a \in Seq(Byte) /\ i \in Nat /\ n \in Nat /\ i + n <= Len(a) /\ Len(a) \in Nat
  BY LenProperties DEF HasPart
<1>1. \A k \in i + 1 .. i + n : a[k] \in Byte
  BY <1>0, ElementOfSeq
<1>2. i + 1 \in Int /\ i + n \in Int
  BY <1>0
<1>3. PICK x : x = SubSeq(a, i + 1, i + n)
  OBVIOUS
<1>4. x \in Seq(Byte) /\ Len(x) = n /\ \A k \in 1 .. n : x[k] = a[i + k]
  <2>1. /\ x \in Seq(Byte)
        /\ Len(x) = IF i + 1 <= i + n THEN (i + n) - (i + 1) + 1 ELSE 0
        /\ \A k \in 1 .. (i + n) - (i + 1) + 1 : x[k] = a[(i + 1) + k - 1]
    BY <1>1, <1>2, <1>3, SubSeqProperties
  <2>2. Len(x) = n /\ (i + n) - (i + 1) + 1 = n
    BY <1>0, <2>1
  <2>3. ASSUME NEW k \in 1 .. n PROVE x[k] = a[i + k]
    <3>1. (i + 1) + k - 1 = i + k
      BY <1>0
    <3> QED
      BY <2>1, <2>2, <3>1
  <2> QED
    BY <2>1, <2>2, <2>3
<1>5. Agree(x, 0, a, i, n)
  BY <1>0, <1>4 DEF Agree
<1> QED
  BY <1>3, <1>4, <1>5 DEF substr

\* Two parts with the same bytes are the same string.
LEMMA SameParts ==
    ASSUME NEW a, NEW b, NEW i, NEW j, NEW n, HasPart(a, i, n), HasPart(b, j, n), Agree(a, i, b, j, n)
    PROVE  substr(a, i, n) = substr(b, j, n)
<1>0. n \in Nat /\ i \in Nat /\ j \in Nat
  BY DEF HasPart
<1>1. PICK x : x = substr(a, i, n)
  OBVIOUS
<1>2. PICK y : y = substr(b, j, n)
  OBVIOUS
<1>3. x \in Seq(Byte) /\ Len(x) = n /\ Agree(x, 0, a, i, n)
  BY <1>1, PartOfText
<1>4. y \in Seq(Byte) /\ Len(y) = n /\ Agree(y, 0, b, j, n)
  BY <1>2, PartOfText
<1>5. \A k \in 1 .. n : x[k] = y[k]
  <2> SUFFICES ASSUME NEW k \in 1 .. n PROVE x[k] = y[k]
    OBVIOUS
  <2>1. 0 + k = k
    BY <1>0
  <2>2. x[0 + k] = a[i + k] /\ y[0 + k] = b[j + k] /\ a[i + k] = b[j + k]
    BY <1>3, <1>4 DEF Agree
  <2> QED
    BY <2>1, <2>2
<1>6. x = y
  BY <1>3, <1>4, <1>5, SeqEqual
<1> QED
  BY <1>1, <1>2, <1>6

\* Two strings one behind the other.
LEMMA TwoTexts ==
    ASSUME NEW a, NEW b, a \in Seq(Byte) /\ b \in Seq(Byte)
    PROVE  /\ a \o b \in Seq(Byte)
           /\ Len(a \o b) = Len(a) + Len(b)
           /\ Agree(a \o b, 0, a, 0, Len(a))
           /\ Agree(a \o b, Len(a), b, 0, Len(b))
<1>0. Len(a) \in Nat /\ Len(b) \in Nat
  BY LenProperties
<1>1. PICK r : r = a \o b
  OBVIOUS
<1>2. r \in Seq(Byte) /\ Len(r) = Len(a) + Len(b)
      /\ \A k \in 1 .. Len(a) + Len(b) : r[k] = IF k <= Len(a) THEN a[k] ELSE b[k - Len(a)]
  BY <1>1, ConcatProperties
<1>3. Agree(r, 0, a, 0, Len(a))
  BY <1>0, <1>2 DEF Agree
<1>4. Agree(r, Len(a), b, 0, Len(b))
  <2> SUFFICES ASSUME NEW k \in 1 .. Len(b) PROVE r[Len(a) + k] = b[0 + k]
    BY DEF Agree
  <2>1. Len(a) + k \in 1 .. Len(a) + Len(b) /\ ~(Len(a) + k <= Len(a)) /\ (Len(a) + k) - Len(a) = 0 + k
    BY <1>0
  <2> QED
    BY <1>2, <2>1
<1> QED
  BY <1>1, <1>2, <1>3, <1>4

\* m_data.replace: what comes before the part is as it was, the new text is there, and what
\* comes behind it has moved.
LEMMA Replacing ==
    ASSUME NEW data, NEW idx, NEW len, NEW s, HasPart(data, idx, len), s \in Seq(Byte)
    PROVE  LET r == Replaced(data, idx, len, s)
           IN  /\ r \in Seq(Byte)
               /\ Len(r) = Len(data) - len + Len(s)
               /\ Agree(r, 0, data, 0, idx)
               /\ Agree(r, idx, s, 0, Len(s))
               /\ Agree(r, idx + Len(s), data, idx + len, Len(data) - (idx + len))
<1>0. data \in Seq(Byte) /\ idx \in Nat /\ len \in Nat /\ idx + len <= Len(data)
      /\ Len(data) \in Nat /\ Len(s) \in Nat
  BY LenProperties DEF HasPart
<1>1. PICK n : n = Len(data) - (idx + len) /\ n \in Nat
  <2>1. Len(data) - (idx + len) \in Nat
    BY <1>0
  <2> QED
    BY <2>1
<1>2. PICK a : a = substr(data, 0, idx)
  OBVIOUS
<1>3. PICK b : b = substr(data, idx + len, n)
  OBVIOUS
<1>4. PICK c : c = a \o s
  OBVIOUS
<1>5. PICK r : r = c \o b
  OBVIOUS
<1>6. Replaced(data, idx, len, s) = r
  <2>1. 0 + 1 = 1 /\ 0 + idx = idx /\ (idx + len) + n = Len(data)
    BY <1>0, <1>1
  <2> QED
    BY <2>1, <1>2, <1>3, <1>4, <1>5 DEF Replaced, substr
<1>7. a \in Seq(Byte) /\ Len(a) = idx /\ Agree(a, 0, data, 0, idx)
  <2>1. HasPart(data, 0, idx)
    BY <1>0 DEF HasPart
  <2> QED
    BY <1>2, <2>1, PartOfText
<1>8. b \in Seq(Byte) /\ Len(b) = n /\ Agree(b, 0, data, idx + len, n)
  <2>1. HasPart(data, idx + len, n)
    BY <1>0, <1>1 DEF HasPart
  <2> QED
    BY <1>3, <2>1, PartOfText
<1>9. c \in Seq(Byte) /\ Len(c) = idx + Len(s) /\ Agree(c, 0, a, 0, idx) /\ Agree(c, idx, s, 0, Len(s))
  BY <1>4, <1>7, TwoTexts
<1>10. r \in Seq(Byte) /\ Len(r) = idx + Len(s) + n
       /\ Agree(r, 0, c, 0, idx + Len(s)) /\ Agree(r, idx + Len(s), b, 0, n)
  BY <1>5, <1>8, <1>9, TwoTexts
<1>11. Len(r) = Len(data) - len + Len(s)
  BY <1>0, <1>1, <1>10
<1>12. Agree(r, 0, data, 0, idx)
  BY <1>0, <1>7, <1>9, <1>10 DEF Agree
<1>13. Agree(r, idx, s, 0, Len(s))
  <2> SUFFICES ASSUME NEW k \in 1 .. Len(s) PROVE r[idx + k] = s[0 + k]
    BY DEF Agree
  <2>1. idx + k \in 1 .. idx + Len(s)
    BY <1>0
  <2>2. r[0 + (idx + k)] = c[0 + (idx + k)]
    BY <1>10, <2>1 DEF Agree
  <2>3. c[idx + k] = s[0 + k]
    BY <1>9 DEF Agree
  <2> QED
    BY <1>0, <2>2, <2>3
<1>14. Agree(r, idx + Len(s), data, idx + len, n)
  <2> SUFFICES ASSUME NEW k \in 1 .. n PROVE r[idx + Len(s) + k] = data[idx + len + k]
    BY DEF Agree
  <2>1. r[idx + Len(s) + k] = b[0 + k] /\ b[0 + k] = data[idx + len + k]
    BY <1>8, <1>10 DEF Agree
  <2> QED
    BY <2>1
<1> QED
  BY <1>1, <1>6, <1>10, <1>11, <1>12, <1>13, <1>14

\* A part before the one that is replaced keeps its bytes and its place.
LEMMA PartBefore ==
    ASSUME NEW data, NEW idx, NEW len, NEW s, HasPart(data, idx, len), s \in Seq(Byte),
           NEW i, NEW n, HasPart(data, i, n), i + n <= idx
    PROVE  substr(Replaced(data, idx, len, s), i, n) = substr(data, i, n)
<1>0. idx \in Nat /\ len \in Nat /\ i \in Nat /\ n \in Nat /\ Len(data) \in Nat /\ Len(s) \in Nat
      /\ idx + len <= Len(data)
  BY LenProperties DEF HasPart
<1>1. PICK r : r = Replaced(data, idx, len, s)
  OBVIOUS
<1>2. r \in Seq(Byte) /\ Len(r) = Len(data) - len + Len(s) /\ Agree(r, 0, data, 0, idx)
  BY <1>1, Replacing
<1>3. HasPart(r, i, n)
  BY <1>0, <1>2 DEF HasPart
<1>4. Agree(r, i, data, i, n)
  <2> SUFFICES ASSUME NEW k \in 1 .. n PROVE r[i + k] = data[i + k]
    BY DEF Agree
  <2>1. i + k \in 1 .. idx /\ 0 + (i + k) = i + k
    BY <1>0
  <2> QED
    BY <1>2, <2>1 DEF Agree
<1> QED
  BY <1>1, <1>3, <1>4, SameParts

\* The part itself becomes the new text.
LEMMA PartReplaced ==
    ASSUME NEW data, NEW idx, NEW len, NEW s, HasPart(data, idx, len), s \in Seq(Byte)
    PROVE  substr(Replaced(data, idx, len, s), idx, Len(s)) = s
<1>0. idx \in Nat /\ len \in Nat /\ Len(data) \in Nat /\ Len(s) \in Nat /\ idx + len <= Len(data)
  BY LenProperties DEF HasPart
<1>1. PICK r : r = Replaced(data, idx, len, s)
  OBVIOUS
<1>2. r \in Seq(Byte) /\ Len(r) = Len(data) - len + Len(s) /\ Agree(r, idx, s, 0, Len(s))
  BY <1>1, Replacing
<1>3. HasPart(r, idx, Len(s)) /\ HasPart(s, 0, Len(s))
  BY <1>0, <1>2 DEF HasPart
<1>4. substr(r, idx, Len(s)) = substr(s, 0, Len(s))
  BY <1>2, <1>3, SameParts
<1>5. substr(s, 0, Len(s)) = s
  BY <1>0, SubSeqFull, 0 + 1 = 1, 0 + Len(s) = Len(s) DEF substr
<1> QED
  BY <1>1, <1>4, <1>5

\* A part behind it keeps its bytes and moves.
LEMMA PartBehind ==
    ASSUME NEW data, NEW idx, NEW len, NEW s, HasPart(data, idx, len), s \in Seq(Byte),
           NEW i, NEW n, HasPart(data, i, n), idx + len <= i, NEW j, j = i - len + Len(s)
    PROVE  substr(Replaced(data, idx, len, s), j, n) = substr(data, i, n)
<1>0. idx \in Nat /\ len \in Nat /\ i \in Nat /\ n \in Nat /\ Len(data) \in Nat /\ Len(s) \in Nat
      /\ i + n <= Len(data)
  BY LenProperties DEF HasPart
<1>1. PICK r : r = Replaced(data, idx, len, s)
  OBVIOUS
<1>2. r \in Seq(Byte) /\ Len(r) = Len(data) - len + Len(s)
      /\ Agree(r, idx + Len(s), data, idx + len, Len(data) - (idx + len))
  BY <1>1, Replacing
<1>3. HasPart(r, j, n)
  BY <1>0, <1>2 DEF HasPart
<1>4. Agree(r, j, data, i, n)
  <2> SUFFICES ASSUME NEW k \in 1 .. n PROVE r[j + k] = data[i + k]
    BY DEF Agree
  <2>1. PICK d \in Nat : d = i - (idx + len)
    BY <1>0
  <2>2. d + k \in 1 .. Len(data) - (idx + len)
        /\ idx + Len(s) + (d + k) = j + k /\ idx + len + (d + k) = i + k
    BY <1>0, <2>1
  <2>3. r[idx + Len(s) + (d + k)] = data[idx + len + (d + k)]
    BY <1>2, <2>2 DEF Agree
  <2> QED
    BY <2>2, <2>3
<1> QED
  BY <1>1, <1>3, <1>4, SameParts

-----------------------------------------------------------------------------
(* Texts that fit are normalised as a whole.                               *)

\* A change of case leaves a text as long as it was.
LEMMA LowerCaseText ==
    ASSUME NEW s, s \in Seq(Byte)
    PROVE  Parts!LowerCase(s) \in Seq(Byte) /\ Len(Parts!LowerCase(s)) = Len(s)
<1>1. DOMAIN s = 1 .. Len(s) /\ Len(s) \in Nat /\ \A i \in 1 .. Len(s) : s[i] \in Byte
  BY LenProperties, ElementOfSeq
<1>2. \A c \in Byte : Parts!ToLower(c) \in Byte
  BY DEF Byte, Parts!ToLower, Parts!IsUpper
<1> QED
  BY <1>1, <1>2 DEF Parts!LowerCase

\* So does the normalisation of the escapes.
LEMMA UpperEscapesText ==
    ASSUME NEW s, s \in Seq(Byte)
    PROVE  Parts!UpperEscapes(s) \in Seq(Byte) /\ Len(Parts!UpperEscapes(s)) = Len(s)
<1>1. DOMAIN s = 1 .. Len(s) /\ Len(s) \in Nat /\ \A i \in 1 .. Len(s) : s[i] \in Byte
  BY LenProperties, ElementOfSeq
<1>2. \A c \in Byte : Parts!ToUpper(c) \in Byte
  BY DEF Byte, Parts!ToUpper, Parts!IsLower
<1> QED
  BY <1>1, <1>2 DEF Parts!UpperEscapes

\* A length of 16 bits is the length of the text, so that all of it is normalised.
LEMMA WholeText ==
    ASSUME NEW s, Fits(s)
    PROVE  /\ NewLen(s) = Len(s)
           /\ LowerCase(s) = Parts!LowerCase(s)
           /\ normalizeEncodedCase(s) = Parts!UpperEscapes(s)
<1>0. s \in Seq(Byte) /\ Len(s) \in Nat /\ Len(s) < LengthCount /\ LengthCount \in Nat \ {0}
  BY UriAssumption, LenProperties DEF Fits
<1>1. NewLen(s) = Len(s)
  BY <1>0 DEF NewLen
<1>2. SubSeq(s, 1, Len(s)) = s
  BY <1>0, SubSeqFull
<1>3. From(s, Len(s) + 1) = <<>>
  BY <1>0, SubSeqEmpty DEF From
<1>4. Parts!LowerCase(s) \o <<>> = Parts!LowerCase(s)
  BY <1>0, LowerCaseText, ConcatEmptySeq
<1>5. Parts!UpperEscapes(s) \o <<>> = Parts!UpperEscapes(s)
  BY <1>0, UpperEscapesText, ConcatEmptySeq
<1> QED
  BY <1>1, <1>2, <1>3, <1>4, <1>5 DEF LowerCase, normalizeEncodedCase

-----------------------------------------------------------------------------
(* The parts of a Uri.                                                     *)

authorityText(u) == substr(u.data, authorityIdx(u), u.authorityLen)
queryText(u) == substr(u.data, queryIdx(u), u.queryLen)
fragmentText(u) == substr(u.data, fragmentIdx(u), u.fragmentLen)

\* Each part lies inside of the string.
LEMMA Layout ==
    ASSUME NEW u, UriInv(u)
    PROVE  /\ u.data \in Seq(Byte)
           /\ Len(u.data) \in Nat
           /\ u.schemeLen \in Nat /\ u.authorityLen \in Nat /\ u.pathLen \in Nat
           /\ u.queryLen \in Nat /\ u.fragmentLen \in Nat
           /\ HasPart(u.data, 0, u.schemeLen)
           /\ HasPart(u.data, authorityIdx(u), u.authorityLen)
           /\ HasPart(u.data, pathIdx(u), u.pathLen)
           /\ HasPart(u.data, queryIdx(u), u.queryLen)
           /\ HasPart(u.data, fragmentIdx(u), u.fragmentLen)
<1>1. u.data \in Seq(Byte) /\ u.schemeLen \in Nat /\ u.authorityLen \in Nat /\ u.pathLen \in Nat
      /\ u.queryLen \in Nat /\ u.fragmentLen \in Nat
  BY UriAssumption DEF UriInv, UriObject, Lengths
<1>2. Len(u.data) = u.schemeLen + u.authorityLen + u.pathLen + u.queryLen + u.fragmentLen
  BY DEF UriInv, fragmentIdx
<1>3. Len(u.data) \in Nat
  BY <1>1, LenProperties
<1>4. HasPart(u.data, 0, u.schemeLen)
  BY <1>1, <1>2, <1>3 DEF HasPart
<1>5. HasPart(u.data, authorityIdx(u), u.authorityLen)
  BY <1>1, <1>2, <1>3 DEF HasPart, authorityIdx
<1>6. HasPart(u.data, pathIdx(u), u.pathLen)
  BY <1>1, <1>2, <1>3 DEF HasPart, pathIdx
<1>7. HasPart(u.data, queryIdx(u), u.queryLen)
  BY <1>1, <1>2, <1>3, SMTT(30) DEF HasPart, queryIdx
<1>8. HasPart(u.data, fragmentIdx(u), u.fragmentLen)
  BY <1>1, <1>2, <1>3, SMTT(30) DEF HasPart, fragmentIdx
<1> QED
  BY <1>1, <1>3, <1>4, <1>5, <1>6, <1>7, <1>8

\* A string is its parts, one behind the other.
LEMMA AdjacentParts ==
    ASSUME NEW a, NEW m, NEW n, HasPart(a, 0, m), HasPart(a, m, n)
    PROVE  substr(a, 0, m) \o substr(a, m, n) = substr(a, 0, m + n) /\ HasPart(a, 0, m + n)
<1>0. a \in Seq(Byte) /\ m \in Nat /\ n \in Nat /\ m + n <= Len(a) /\ Len(a) \in Nat
  BY LenProperties DEF HasPart
<1>1. 1 \in 1 .. Len(a) + 1 /\ m \in 1 - 1 .. Len(a) /\ m + n \in m .. Len(a)
  BY <1>0
<1>2. SubSeq(a, 1, m) \o SubSeq(a, m + 1, m + n) = SubSeq(a, 1, m + n)
  BY <1>0, <1>1, ConcatAdjacentSubSeq
<1>3. 0 + 1 = 1 /\ 0 + m = m /\ 0 + (m + n) = m + n /\ m + n \in Nat
  BY <1>0
<1> QED
  BY <1>0, <1>2, <1>3 DEF substr, HasPart

\* The string of a Uri is its parts, one behind the other (uri.h).
THEOREM InvariantIsConsistent ==
    ASSUME NEW u, UriInv(u)
    PROVE  Consistent(u)
<1>1. /\ HasPart(u.data, 0, u.schemeLen)
      /\ HasPart(u.data, authorityIdx(u), u.authorityLen)
      /\ HasPart(u.data, pathIdx(u), u.pathLen)
      /\ HasPart(u.data, queryIdx(u), u.queryLen)
      /\ HasPart(u.data, fragmentIdx(u), u.fragmentLen)
  BY Layout
<1>2. /\ authorityIdx(u) = u.schemeLen
      /\ authorityIdx(u) + u.authorityLen = pathIdx(u)
      /\ pathIdx(u) + u.pathLen = queryIdx(u)
      /\ queryIdx(u) + u.queryLen = fragmentIdx(u)
      /\ fragmentIdx(u) + u.fragmentLen = Len(u.data)
  BY DEF authorityIdx, pathIdx, queryIdx, fragmentIdx, UriInv
<1>3. scheme(u) \o authorityText(u) = substr(u.data, 0, pathIdx(u)) /\ HasPart(u.data, 0, pathIdx(u))
  BY <1>1, <1>2, AdjacentParts DEF scheme, authorityText
<1>4. substr(u.data, 0, pathIdx(u)) \o path(u) = substr(u.data, 0, queryIdx(u)) /\ HasPart(u.data, 0, queryIdx(u))
  BY <1>1, <1>2, <1>3, AdjacentParts DEF path
<1>5. substr(u.data, 0, queryIdx(u)) \o queryText(u) = substr(u.data, 0, fragmentIdx(u))
      /\ HasPart(u.data, 0, fragmentIdx(u))
  BY <1>1, <1>2, <1>4, AdjacentParts DEF queryText
<1>6. substr(u.data, 0, fragmentIdx(u)) \o fragmentText(u) = substr(u.data, 0, Len(u.data))
  BY <1>1, <1>2, <1>5, AdjacentParts DEF fragmentText
<1>7. substr(u.data, 0, Len(u.data)) = u.data
  BY Layout, SubSeqFull, 0 + 1 = 1, 0 + Len(u.data) = Len(u.data) DEF substr
<1>8. u.data = scheme(u) \o authorityText(u) \o path(u) \o queryText(u) \o fragmentText(u)
  BY <1>3, <1>4, <1>5, <1>6, <1>7
<1> QED
  BY <1>8 DEF Consistent, UriInv, authorityText, queryText, fragmentText

-----------------------------------------------------------------------------
(* Each insert keeps the invariant, sets its part and leaves the others.   *)

PartsRecord(s, a, p, q, f, hasA, hasQ, hasF) ==
    [scheme |-> s, authority |-> a, path |-> p, query |-> q, fragment |-> f,
     hasAuthority |-> hasA, hasQuery |-> hasQ, hasFragment |-> hasF]

schemeSet(r, t) == [r EXCEPT !.scheme = t]

\* A record of parts with another scheme.
LEMMA ChangedScheme ==
    ASSUME NEW s, NEW a, NEW p, NEW q, NEW f, NEW hasA, NEW hasQ, NEW hasF, NEW t
    PROVE  schemeSet(PartsRecord(s, a, p, q, f, hasA, hasQ, hasF), t) = PartsRecord(t, a, p, q, f, hasA, hasQ, hasF)
  BY DEF PartsRecord, schemeSet

authoritySet(r, t, b) == [r EXCEPT !.authority = t, !.hasAuthority = b]

\* A record of parts with another authority.
LEMMA ChangedAuthority ==
    ASSUME NEW s, NEW a, NEW p, NEW q, NEW f, NEW hasA, NEW hasQ, NEW hasF, NEW t, NEW b
    PROVE  authoritySet(PartsRecord(s, a, p, q, f, hasA, hasQ, hasF), t, b) = PartsRecord(s, t, p, q, f, b, hasQ, hasF)
<1>1. [PartsRecord(s, a, p, q, f, hasA, hasQ, hasF) EXCEPT !.authority = t, !.hasAuthority = b]
        = [[PartsRecord(s, a, p, q, f, hasA, hasQ, hasF) EXCEPT !.authority = t] EXCEPT !.hasAuthority = b]
  OBVIOUS
<1>2. [PartsRecord(s, a, p, q, f, hasA, hasQ, hasF) EXCEPT !.authority = t] = PartsRecord(s, t, p, q, f, hasA, hasQ, hasF)
  BY DEF PartsRecord
<1>3. [PartsRecord(s, t, p, q, f, hasA, hasQ, hasF) EXCEPT !.hasAuthority = b] = PartsRecord(s, t, p, q, f, b, hasQ, hasF)
  BY DEF PartsRecord
<1> QED
  BY <1>1, <1>2, <1>3, Zenon DEF authoritySet

pathSet(r, t) == [r EXCEPT !.path = t]

\* A record of parts with another path.
LEMMA ChangedPath ==
    ASSUME NEW s, NEW a, NEW p, NEW q, NEW f, NEW hasA, NEW hasQ, NEW hasF, NEW t
    PROVE  pathSet(PartsRecord(s, a, p, q, f, hasA, hasQ, hasF), t) = PartsRecord(s, a, t, q, f, hasA, hasQ, hasF)
  BY DEF PartsRecord, pathSet

querySet(r, t, b) == [r EXCEPT !.query = t, !.hasQuery = b]

\* A record of parts with another query.
LEMMA ChangedQuery ==
    ASSUME NEW s, NEW a, NEW p, NEW q, NEW f, NEW hasA, NEW hasQ, NEW hasF, NEW t, NEW b
    PROVE  querySet(PartsRecord(s, a, p, q, f, hasA, hasQ, hasF), t, b) = PartsRecord(s, a, p, t, f, hasA, b, hasF)
<1>1. [PartsRecord(s, a, p, q, f, hasA, hasQ, hasF) EXCEPT !.query = t, !.hasQuery = b]
        = [[PartsRecord(s, a, p, q, f, hasA, hasQ, hasF) EXCEPT !.query = t] EXCEPT !.hasQuery = b]
  OBVIOUS
<1>2. [PartsRecord(s, a, p, q, f, hasA, hasQ, hasF) EXCEPT !.query = t] = PartsRecord(s, a, p, t, f, hasA, hasQ, hasF)
  BY DEF PartsRecord
<1>3. [PartsRecord(s, a, p, t, f, hasA, hasQ, hasF) EXCEPT !.hasQuery = b] = PartsRecord(s, a, p, t, f, hasA, b, hasF)
  BY DEF PartsRecord
<1> QED
  BY <1>1, <1>2, <1>3, Zenon DEF querySet

fragmentSet(r, t, b) == [r EXCEPT !.fragment = t, !.hasFragment = b]

\* A record of parts with another fragment.
LEMMA ChangedFragment ==
    ASSUME NEW s, NEW a, NEW p, NEW q, NEW f, NEW hasA, NEW hasQ, NEW hasF, NEW t, NEW b
    PROVE  fragmentSet(PartsRecord(s, a, p, q, f, hasA, hasQ, hasF), t, b) = PartsRecord(s, a, p, q, t, hasA, hasQ, b)
<1>1. [PartsRecord(s, a, p, q, f, hasA, hasQ, hasF) EXCEPT !.fragment = t, !.hasFragment = b]
        = [[PartsRecord(s, a, p, q, f, hasA, hasQ, hasF) EXCEPT !.fragment = t] EXCEPT !.hasFragment = b]
  OBVIOUS
<1>2. [PartsRecord(s, a, p, q, f, hasA, hasQ, hasF) EXCEPT !.fragment = t] = PartsRecord(s, a, p, q, t, hasA, hasQ, hasF)
  BY DEF PartsRecord
<1>3. [PartsRecord(s, a, p, q, t, hasA, hasQ, hasF) EXCEPT !.hasFragment = b] = PartsRecord(s, a, p, q, t, hasA, hasQ, b)
  BY DEF PartsRecord
<1> QED
  BY <1>1, <1>2, <1>3, Zenon DEF fragmentSet

\* insertScheme sets the scheme and leaves the other parts as they are.
LEMMA InsertScheme ==
    ASSUME NEW u, NEW s, UriInv(u), Fits(s), NEW v, v = insertScheme(u, s)
    PROVE  UriInv(v) /\ PartsOf(v) = [PartsOf(u) EXCEPT !.scheme = Parts!LowerCase(s)]
<1>1. PICK t : t = Parts!LowerCase(s)
  OBVIOUS
<1>2. t \in Seq(Byte) /\ Len(t) = NewLen(s) /\ Len(t) \in Lengths /\ Len(t) \in Nat
  <2>1. s \in Seq(Byte) /\ Len(s) \in Nat /\ Len(s) \in Lengths
    BY LenProperties, UriAssumption DEF Fits, Lengths
  <2> QED
    BY <1>1, <2>1, WholeText, LowerCaseText
<1>3. v = [u EXCEPT !.data = Replaced(u.data, 0, u.schemeLen, t), !.schemeLen = Len(t)]
  BY <1>1, <1>2, WholeText DEF insertScheme
<1>4. u \in UriObject
  BY DEF UriInv
<1>5. /\ v.data = Replaced(u.data, 0, u.schemeLen, t)
      /\ v.schemeLen = Len(t)
      /\ v.authorityLen = u.authorityLen
      /\ v.pathLen = u.pathLen
      /\ v.queryLen = u.queryLen
      /\ v.fragmentLen = u.fragmentLen
      /\ v.hasAuthority = u.hasAuthority
      /\ v.hasQuery = u.hasQuery
      /\ v.hasFragment = u.hasFragment
  BY <1>3, <1>4 DEF UriObject
<1>7. HasPart(u.data, 0, u.schemeLen)
  BY Layout
<1>8. v.data \in Seq(Byte) /\ Len(v.data) = Len(u.data) - u.schemeLen + Len(t)
  BY <1>2, <1>5, <1>7, Replacing
<1>9. UriInv(v)
  <2>1. v \in UriObject
    BY <1>2, <1>3, <1>4, <1>5, <1>8 DEF UriObject
  <2>2. Len(u.data) = u.schemeLen + u.authorityLen + u.pathLen + u.queryLen + u.fragmentLen
    BY DEF UriInv, fragmentIdx
  <2>3. Len(v.data) = v.schemeLen + v.authorityLen + v.pathLen + v.queryLen + v.fragmentLen
    <3>1. u.schemeLen \in Nat /\ u.authorityLen \in Nat /\ u.pathLen \in Nat
          /\ u.queryLen \in Nat /\ u.fragmentLen \in Nat /\ Len(t) \in Nat
      BY <1>2, Layout
    <3>2. PICK a \in Nat, b \in Nat, c \in Nat, d \in Nat, e \in Nat, n \in Nat :
             /\ a = u.schemeLen /\ b = u.authorityLen /\ c = u.pathLen /\ d = u.queryLen
             /\ e = u.fragmentLen /\ n = Len(t)
      BY <3>1, Zenon
    <3>3. Len(u.data) = a + b + c + d + e
      BY <2>2, <3>2, Zenon
    <3>4. Len(u.data) - a + n = n + b + c + d + e
      BY <3>3, SMT
    <3> QED
      BY <1>5, <1>8, <3>2, <3>4, Zenon
  <2> QED
    BY <1>5, <2>1, <2>3 DEF UriInv, fragmentIdx
<1>10. scheme(v) = t
  BY <1>2, <1>5, <1>7, PartReplaced DEF scheme
<1>11. authorityText(v) = authorityText(u)
  <2>1. authorityIdx(v) = authorityIdx(u) - u.schemeLen + Len(t) /\ 0 + u.schemeLen <= authorityIdx(u)
    BY <1>2, <1>5, Layout DEF authorityIdx, pathIdx, queryIdx, fragmentIdx
  <2> QED
    BY <1>2, <1>5, <1>7, <2>1, Layout, PartBehind DEF authorityText
<1>12. path(v) = path(u)
  <2>1. pathIdx(v) = pathIdx(u) - u.schemeLen + Len(t) /\ 0 + u.schemeLen <= pathIdx(u)
    BY <1>2, <1>5, Layout DEF authorityIdx, pathIdx, queryIdx, fragmentIdx
  <2> QED
    BY <1>2, <1>5, <1>7, <2>1, Layout, PartBehind DEF path
<1>13. queryText(v) = queryText(u)
  <2>1. queryIdx(v) = queryIdx(u) - u.schemeLen + Len(t) /\ 0 + u.schemeLen <= queryIdx(u)
    BY <1>2, <1>5, Layout DEF authorityIdx, pathIdx, queryIdx, fragmentIdx
  <2> QED
    BY <1>2, <1>5, <1>7, <2>1, Layout, PartBehind DEF queryText
<1>14. fragmentText(v) = fragmentText(u)
  <2>1. fragmentIdx(v) = fragmentIdx(u) - u.schemeLen + Len(t) /\ 0 + u.schemeLen <= fragmentIdx(u)
    BY <1>2, <1>5, Layout, SMTT(30) DEF authorityIdx, pathIdx, queryIdx, fragmentIdx
  <2> QED
    BY <1>2, <1>5, <1>7, <2>1, Layout, PartBehind DEF fragmentText
<1>15. PartsOf(v) = [PartsOf(u) EXCEPT !.scheme = t]
  <2>1. authority(v) = authority(u)
    BY <1>5, <1>11 DEF authority, authorityText
  <2>2. query(v) = query(u)
    BY <1>5, <1>13 DEF query, queryText
  <2>3. fragment(v) = fragment(u)
    BY <1>5, <1>14 DEF fragment, fragmentText
  <2>4. PartsOf(v) = PartsRecord(scheme(v), authority(v), path(v), query(v), fragment(v), v.hasAuthority, v.hasQuery, v.hasFragment)
    BY DEF PartsOf, PartsRecord
  <2>5. PartsOf(v) = PartsRecord(t, authority(u), path(u), query(u), fragment(u), u.hasAuthority, u.hasQuery, u.hasFragment)
    BY <1>5, <2>4, <1>10, <2>1, <1>12, <2>2, <2>3, Zenon
  <2>6. PartsOf(u) = PartsRecord(scheme(u), authority(u), path(u), query(u), fragment(u), u.hasAuthority, u.hasQuery, u.hasFragment)
    BY DEF PartsOf, PartsRecord
  <2>7. schemeSet(PartsRecord(scheme(u), authority(u), path(u), query(u), fragment(u), u.hasAuthority, u.hasQuery, u.hasFragment), t)
          = PartsRecord(t, authority(u), path(u), query(u), fragment(u), u.hasAuthority, u.hasQuery, u.hasFragment)
    BY ChangedScheme, SMT
  <2> QED
    BY <2>5, <2>6, <2>7, Zenon DEF schemeSet
<1> QED
  BY <1>1, <1>9, <1>15

\* insertAuthority sets the authority and leaves the other parts as they are.
LEMMA InsertAuthority ==
    ASSUME NEW u, NEW s, UriInv(u), Fits(s), NEW v, v = insertAuthority(u, s)
    PROVE  UriInv(v) /\ PartsOf(v) = [PartsOf(u) EXCEPT !.authority = Parts!UpperEscapes(s), !.hasAuthority = TRUE]
<1>1. PICK t : t = Parts!UpperEscapes(s)
  OBVIOUS
<1>2. t \in Seq(Byte) /\ Len(t) = NewLen(s) /\ Len(t) \in Lengths /\ Len(t) \in Nat
  <2>1. s \in Seq(Byte) /\ Len(s) \in Nat /\ Len(s) \in Lengths
    BY LenProperties, UriAssumption DEF Fits, Lengths
  <2> QED
    BY <1>1, <2>1, WholeText, UpperEscapesText
<1>3. v = [u EXCEPT !.data = Replaced(u.data, authorityIdx(u), u.authorityLen, t), !.authorityLen = Len(t), !.hasAuthority = TRUE]
  BY <1>1, <1>2, WholeText DEF insertAuthority
<1>4. u \in UriObject
  BY DEF UriInv
<1>5. /\ v.data = Replaced(u.data, authorityIdx(u), u.authorityLen, t)
      /\ v.schemeLen = u.schemeLen
      /\ v.authorityLen = Len(t)
      /\ v.pathLen = u.pathLen
      /\ v.queryLen = u.queryLen
      /\ v.fragmentLen = u.fragmentLen
      /\ v.hasQuery = u.hasQuery
      /\ v.hasFragment = u.hasFragment
  BY <1>3, <1>4 DEF UriObject
<1>6. v.hasAuthority = TRUE
  BY <1>3, <1>4 DEF UriObject
<1>7. HasPart(u.data, authorityIdx(u), u.authorityLen)
  BY Layout
<1>8. v.data \in Seq(Byte) /\ Len(v.data) = Len(u.data) - u.authorityLen + Len(t)
  BY <1>2, <1>5, <1>7, Replacing
<1>9. UriInv(v)
  <2>1. v \in UriObject
    BY <1>2, <1>3, <1>4, <1>5, <1>8 DEF UriObject
  <2>2. Len(u.data) = u.schemeLen + u.authorityLen + u.pathLen + u.queryLen + u.fragmentLen
    BY DEF UriInv, fragmentIdx
  <2>3. Len(v.data) = v.schemeLen + v.authorityLen + v.pathLen + v.queryLen + v.fragmentLen
    <3>1. u.schemeLen \in Nat /\ u.authorityLen \in Nat /\ u.pathLen \in Nat
          /\ u.queryLen \in Nat /\ u.fragmentLen \in Nat /\ Len(t) \in Nat
      BY <1>2, Layout
    <3>2. PICK a \in Nat, b \in Nat, c \in Nat, d \in Nat, e \in Nat, n \in Nat :
             /\ a = u.schemeLen /\ b = u.authorityLen /\ c = u.pathLen /\ d = u.queryLen
             /\ e = u.fragmentLen /\ n = Len(t)
      BY <3>1, Zenon
    <3>3. Len(u.data) = a + b + c + d + e
      BY <2>2, <3>2, Zenon
    <3>4. Len(u.data) - b + n = a + n + c + d + e
      BY <3>3, SMT
    <3> QED
      BY <1>5, <1>8, <3>2, <3>4, Zenon
  <2> QED
    BY <1>5, <1>6, <2>1, <2>3 DEF UriInv, fragmentIdx
<1>10. scheme(v) = scheme(u)
  <2>1. 0 + u.schemeLen <= authorityIdx(u)
    BY <1>5, Layout DEF authorityIdx, pathIdx, queryIdx, fragmentIdx
  <2> QED
    BY <1>2, <1>5, <1>7, <2>1, Layout, PartBefore DEF scheme
<1>11. authorityText(v) = t
  <2>1. authorityIdx(v) = authorityIdx(u)
    BY <1>5 DEF authorityIdx, pathIdx, queryIdx, fragmentIdx
  <2> QED
    BY <1>2, <1>5, <1>7, <2>1, PartReplaced DEF authorityText
<1>12. path(v) = path(u)
  <2>1. pathIdx(v) = pathIdx(u) - u.authorityLen + Len(t) /\ authorityIdx(u) + u.authorityLen <= pathIdx(u)
    BY <1>2, <1>5, Layout DEF authorityIdx, pathIdx, queryIdx, fragmentIdx
  <2> QED
    BY <1>2, <1>5, <1>7, <2>1, Layout, PartBehind DEF path
<1>13. queryText(v) = queryText(u)
  <2>1. queryIdx(v) = queryIdx(u) - u.authorityLen + Len(t) /\ authorityIdx(u) + u.authorityLen <= queryIdx(u)
    BY <1>2, <1>5, Layout DEF authorityIdx, pathIdx, queryIdx, fragmentIdx
  <2> QED
    BY <1>2, <1>5, <1>7, <2>1, Layout, PartBehind DEF queryText
<1>14. fragmentText(v) = fragmentText(u)
  <2>1. fragmentIdx(v) = fragmentIdx(u) - u.authorityLen + Len(t) /\ authorityIdx(u) + u.authorityLen <= fragmentIdx(u)
    BY <1>2, <1>5, Layout, SMTT(30) DEF authorityIdx, pathIdx, queryIdx, fragmentIdx
  <2> QED
    BY <1>2, <1>5, <1>7, <2>1, Layout, PartBehind DEF fragmentText
<1>15. PartsOf(v) = [PartsOf(u) EXCEPT !.authority = t, !.hasAuthority = TRUE]
  <2>1. authority(v) = t
    BY <1>6, <1>11 DEF authority, authorityText
  <2>2. query(v) = query(u)
    BY <1>5, <1>13 DEF query, queryText
  <2>3. fragment(v) = fragment(u)
    BY <1>5, <1>14 DEF fragment, fragmentText
  <2>4. PartsOf(v) = PartsRecord(scheme(v), authority(v), path(v), query(v), fragment(v), v.hasAuthority, v.hasQuery, v.hasFragment)
    BY DEF PartsOf, PartsRecord
  <2>5. PartsOf(v) = PartsRecord(scheme(u), t, path(u), query(u), fragment(u), v.hasAuthority, u.hasQuery, u.hasFragment)
    BY <1>5, <1>6, <2>4, <1>10, <2>1, <1>12, <2>2, <2>3, Zenon
  <2>6. PartsOf(u) = PartsRecord(scheme(u), authority(u), path(u), query(u), fragment(u), u.hasAuthority, u.hasQuery, u.hasFragment)
    BY DEF PartsOf, PartsRecord
  <2>7. authoritySet(PartsRecord(scheme(u), authority(u), path(u), query(u), fragment(u), u.hasAuthority, u.hasQuery, u.hasFragment), t, v.hasAuthority)
          = PartsRecord(scheme(u), t, path(u), query(u), fragment(u), v.hasAuthority, u.hasQuery, u.hasFragment)
    BY ChangedAuthority, SMT
  <2> QED
    BY <2>5, <2>6, <2>7, <1>6, Zenon DEF authoritySet
<1> QED
  BY <1>1, <1>9, <1>15

\* insertPath sets the path and leaves the other parts as they are.
LEMMA InsertPath ==
    ASSUME NEW u, NEW s, UriInv(u), Fits(s), NEW v, v = insertPath(u, s)
    PROVE  UriInv(v) /\ PartsOf(v) = [PartsOf(u) EXCEPT !.path = s]
<1>1. PICK t : t = s
  OBVIOUS
<1>2. t \in Seq(Byte) /\ Len(t) = NewLen(s) /\ Len(t) \in Lengths /\ Len(t) \in Nat
  <2>1. s \in Seq(Byte) /\ Len(s) \in Nat /\ Len(s) \in Lengths
    BY LenProperties, UriAssumption DEF Fits, Lengths
  <2> QED
    BY <1>1, <2>1, WholeText
<1>3. v = [u EXCEPT !.data = Replaced(u.data, pathIdx(u), u.pathLen, t), !.pathLen = Len(t)]
  BY <1>1, <1>2, WholeText DEF insertPath
<1>4. u \in UriObject
  BY DEF UriInv
<1>5. /\ v.data = Replaced(u.data, pathIdx(u), u.pathLen, t)
      /\ v.schemeLen = u.schemeLen
      /\ v.authorityLen = u.authorityLen
      /\ v.pathLen = Len(t)
      /\ v.queryLen = u.queryLen
      /\ v.fragmentLen = u.fragmentLen
      /\ v.hasAuthority = u.hasAuthority
      /\ v.hasQuery = u.hasQuery
      /\ v.hasFragment = u.hasFragment
  BY <1>3, <1>4 DEF UriObject
<1>7. HasPart(u.data, pathIdx(u), u.pathLen)
  BY Layout
<1>8. v.data \in Seq(Byte) /\ Len(v.data) = Len(u.data) - u.pathLen + Len(t)
  BY <1>2, <1>5, <1>7, Replacing
<1>9. UriInv(v)
  <2>1. v \in UriObject
    BY <1>2, <1>3, <1>4, <1>5, <1>8 DEF UriObject
  <2>2. Len(u.data) = u.schemeLen + u.authorityLen + u.pathLen + u.queryLen + u.fragmentLen
    BY DEF UriInv, fragmentIdx
  <2>3. Len(v.data) = v.schemeLen + v.authorityLen + v.pathLen + v.queryLen + v.fragmentLen
    <3>1. u.schemeLen \in Nat /\ u.authorityLen \in Nat /\ u.pathLen \in Nat
          /\ u.queryLen \in Nat /\ u.fragmentLen \in Nat /\ Len(t) \in Nat
      BY <1>2, Layout
    <3>2. PICK a \in Nat, b \in Nat, c \in Nat, d \in Nat, e \in Nat, n \in Nat :
             /\ a = u.schemeLen /\ b = u.authorityLen /\ c = u.pathLen /\ d = u.queryLen
             /\ e = u.fragmentLen /\ n = Len(t)
      BY <3>1, Zenon
    <3>3. Len(u.data) = a + b + c + d + e
      BY <2>2, <3>2, Zenon
    <3>4. Len(u.data) - c + n = a + b + n + d + e
      BY <3>3, SMT
    <3> QED
      BY <1>5, <1>8, <3>2, <3>4, Zenon
  <2> QED
    BY <1>5, <2>1, <2>3 DEF UriInv, fragmentIdx
<1>10. scheme(v) = scheme(u)
  <2>1. 0 + u.schemeLen <= pathIdx(u)
    BY <1>5, Layout DEF authorityIdx, pathIdx, queryIdx, fragmentIdx
  <2> QED
    BY <1>2, <1>5, <1>7, <2>1, Layout, PartBefore DEF scheme
<1>11. authorityText(v) = authorityText(u)
  <2>1. authorityIdx(v) = authorityIdx(u) /\ authorityIdx(u) + u.authorityLen <= pathIdx(u)
    BY <1>5, Layout DEF authorityIdx, pathIdx, queryIdx, fragmentIdx
  <2> QED
    BY <1>2, <1>5, <1>7, <2>1, Layout, PartBefore DEF authorityText
<1>12. path(v) = t
  <2>1. pathIdx(v) = pathIdx(u)
    BY <1>5 DEF authorityIdx, pathIdx, queryIdx, fragmentIdx
  <2> QED
    BY <1>2, <1>5, <1>7, <2>1, PartReplaced DEF path
<1>13. queryText(v) = queryText(u)
  <2>1. queryIdx(v) = queryIdx(u) - u.pathLen + Len(t) /\ pathIdx(u) + u.pathLen <= queryIdx(u)
    BY <1>2, <1>5, Layout DEF authorityIdx, pathIdx, queryIdx, fragmentIdx
  <2> QED
    BY <1>2, <1>5, <1>7, <2>1, Layout, PartBehind DEF queryText
<1>14. fragmentText(v) = fragmentText(u)
  <2>1. fragmentIdx(v) = fragmentIdx(u) - u.pathLen + Len(t) /\ pathIdx(u) + u.pathLen <= fragmentIdx(u)
    BY <1>2, <1>5, Layout DEF authorityIdx, pathIdx, queryIdx, fragmentIdx
  <2> QED
    BY <1>2, <1>5, <1>7, <2>1, Layout, PartBehind DEF fragmentText
<1>15. PartsOf(v) = [PartsOf(u) EXCEPT !.path = t]
  <2>1. authority(v) = authority(u)
    BY <1>5, <1>11 DEF authority, authorityText
  <2>2. query(v) = query(u)
    BY <1>5, <1>13 DEF query, queryText
  <2>3. fragment(v) = fragment(u)
    BY <1>5, <1>14 DEF fragment, fragmentText
  <2>4. PartsOf(v) = PartsRecord(scheme(v), authority(v), path(v), query(v), fragment(v), v.hasAuthority, v.hasQuery, v.hasFragment)
    BY DEF PartsOf, PartsRecord
  <2>5. PartsOf(v) = PartsRecord(scheme(u), authority(u), t, query(u), fragment(u), u.hasAuthority, u.hasQuery, u.hasFragment)
    BY <1>5, <2>4, <1>10, <2>1, <1>12, <2>2, <2>3, Zenon
  <2>6. PartsOf(u) = PartsRecord(scheme(u), authority(u), path(u), query(u), fragment(u), u.hasAuthority, u.hasQuery, u.hasFragment)
    BY DEF PartsOf, PartsRecord
  <2>7. pathSet(PartsRecord(scheme(u), authority(u), path(u), query(u), fragment(u), u.hasAuthority, u.hasQuery, u.hasFragment), t)
          = PartsRecord(scheme(u), authority(u), t, query(u), fragment(u), u.hasAuthority, u.hasQuery, u.hasFragment)
    BY ChangedPath, SMT
  <2> QED
    BY <2>5, <2>6, <2>7, Zenon DEF pathSet
<1> QED
  BY <1>1, <1>9, <1>15

\* insertQuery sets the query and leaves the other parts as they are.
LEMMA InsertQuery ==
    ASSUME NEW u, NEW s, UriInv(u), Fits(s), NEW v, v = insertQuery(u, s)
    PROVE  UriInv(v) /\ PartsOf(v) = [PartsOf(u) EXCEPT !.query = Parts!UpperEscapes(s), !.hasQuery = TRUE]
<1>1. PICK t : t = Parts!UpperEscapes(s)
  OBVIOUS
<1>2. t \in Seq(Byte) /\ Len(t) = NewLen(s) /\ Len(t) \in Lengths /\ Len(t) \in Nat
  <2>1. s \in Seq(Byte) /\ Len(s) \in Nat /\ Len(s) \in Lengths
    BY LenProperties, UriAssumption DEF Fits, Lengths
  <2> QED
    BY <1>1, <2>1, WholeText, UpperEscapesText
<1>3. v = [u EXCEPT !.data = Replaced(u.data, queryIdx(u), u.queryLen, t), !.queryLen = Len(t), !.hasQuery = TRUE]
  BY <1>1, <1>2, WholeText DEF insertQuery
<1>4. u \in UriObject
  BY DEF UriInv
<1>5. /\ v.data = Replaced(u.data, queryIdx(u), u.queryLen, t)
      /\ v.schemeLen = u.schemeLen
      /\ v.authorityLen = u.authorityLen
      /\ v.pathLen = u.pathLen
      /\ v.queryLen = Len(t)
      /\ v.fragmentLen = u.fragmentLen
      /\ v.hasAuthority = u.hasAuthority
      /\ v.hasFragment = u.hasFragment
  BY <1>3, <1>4 DEF UriObject
<1>6. v.hasQuery = TRUE
  BY <1>3, <1>4 DEF UriObject
<1>7. HasPart(u.data, queryIdx(u), u.queryLen)
  BY Layout
<1>8. v.data \in Seq(Byte) /\ Len(v.data) = Len(u.data) - u.queryLen + Len(t)
  BY <1>2, <1>5, <1>7, Replacing
<1>9. UriInv(v)
  <2>1. v \in UriObject
    BY <1>2, <1>3, <1>4, <1>5, <1>8 DEF UriObject
  <2>2. Len(u.data) = u.schemeLen + u.authorityLen + u.pathLen + u.queryLen + u.fragmentLen
    BY DEF UriInv, fragmentIdx
  <2>3. Len(v.data) = v.schemeLen + v.authorityLen + v.pathLen + v.queryLen + v.fragmentLen
    <3>1. u.schemeLen \in Nat /\ u.authorityLen \in Nat /\ u.pathLen \in Nat
          /\ u.queryLen \in Nat /\ u.fragmentLen \in Nat /\ Len(t) \in Nat
      BY <1>2, Layout
    <3>2. PICK a \in Nat, b \in Nat, c \in Nat, d \in Nat, e \in Nat, n \in Nat :
             /\ a = u.schemeLen /\ b = u.authorityLen /\ c = u.pathLen /\ d = u.queryLen
             /\ e = u.fragmentLen /\ n = Len(t)
      BY <3>1, Zenon
    <3>3. Len(u.data) = a + b + c + d + e
      BY <2>2, <3>2, Zenon
    <3>4. Len(u.data) - d + n = a + b + c + n + e
      BY <3>3, SMT
    <3> QED
      BY <1>5, <1>8, <3>2, <3>4, Zenon
  <2> QED
    BY <1>5, <1>6, <2>1, <2>3 DEF UriInv, fragmentIdx
<1>10. scheme(v) = scheme(u)
  <2>1. 0 + u.schemeLen <= queryIdx(u)
    BY <1>5, Layout DEF authorityIdx, pathIdx, queryIdx, fragmentIdx
  <2> QED
    BY <1>2, <1>5, <1>7, <2>1, Layout, PartBefore DEF scheme
<1>11. authorityText(v) = authorityText(u)
  <2>1. authorityIdx(v) = authorityIdx(u) /\ authorityIdx(u) + u.authorityLen <= queryIdx(u)
    BY <1>5, Layout DEF authorityIdx, pathIdx, queryIdx, fragmentIdx
  <2> QED
    BY <1>2, <1>5, <1>7, <2>1, Layout, PartBefore DEF authorityText
<1>12. path(v) = path(u)
  <2>1. pathIdx(v) = pathIdx(u) /\ pathIdx(u) + u.pathLen <= queryIdx(u)
    BY <1>5, Layout DEF authorityIdx, pathIdx, queryIdx, fragmentIdx
  <2> QED
    BY <1>2, <1>5, <1>7, <2>1, Layout, PartBefore DEF path
<1>13. queryText(v) = t
  <2>1. queryIdx(v) = queryIdx(u)
    BY <1>5 DEF authorityIdx, pathIdx, queryIdx, fragmentIdx
  <2> QED
    BY <1>2, <1>5, <1>7, <2>1, PartReplaced DEF queryText
<1>14. fragmentText(v) = fragmentText(u)
  <2>1. fragmentIdx(v) = fragmentIdx(u) - u.queryLen + Len(t) /\ queryIdx(u) + u.queryLen <= fragmentIdx(u)
    BY <1>2, <1>5, Layout DEF authorityIdx, pathIdx, queryIdx, fragmentIdx
  <2> QED
    BY <1>2, <1>5, <1>7, <2>1, Layout, PartBehind DEF fragmentText
<1>15. PartsOf(v) = [PartsOf(u) EXCEPT !.query = t, !.hasQuery = TRUE]
  <2>1. authority(v) = authority(u)
    BY <1>5, <1>11 DEF authority, authorityText
  <2>2. query(v) = t
    BY <1>6, <1>13 DEF query, queryText
  <2>3. fragment(v) = fragment(u)
    BY <1>5, <1>14 DEF fragment, fragmentText
  <2>4. PartsOf(v) = PartsRecord(scheme(v), authority(v), path(v), query(v), fragment(v), v.hasAuthority, v.hasQuery, v.hasFragment)
    BY DEF PartsOf, PartsRecord
  <2>5. PartsOf(v) = PartsRecord(scheme(u), authority(u), path(u), t, fragment(u), u.hasAuthority, v.hasQuery, u.hasFragment)
    BY <1>5, <1>6, <2>4, <1>10, <2>1, <1>12, <2>2, <2>3, Zenon
  <2>6. PartsOf(u) = PartsRecord(scheme(u), authority(u), path(u), query(u), fragment(u), u.hasAuthority, u.hasQuery, u.hasFragment)
    BY DEF PartsOf, PartsRecord
  <2>7. querySet(PartsRecord(scheme(u), authority(u), path(u), query(u), fragment(u), u.hasAuthority, u.hasQuery, u.hasFragment), t, v.hasQuery)
          = PartsRecord(scheme(u), authority(u), path(u), t, fragment(u), u.hasAuthority, v.hasQuery, u.hasFragment)
    BY ChangedQuery, SMT
  <2> QED
    BY <2>5, <2>6, <2>7, <1>6, Zenon DEF querySet
<1> QED
  BY <1>1, <1>9, <1>15

\* insertFragment sets the fragment and leaves the other parts as they are.
LEMMA InsertFragment ==
    ASSUME NEW u, NEW s, UriInv(u), Fits(s), NEW v, v = insertFragment(u, s)
    PROVE  UriInv(v) /\ PartsOf(v) = [PartsOf(u) EXCEPT !.fragment = Parts!UpperEscapes(s), !.hasFragment = TRUE]
<1>1. PICK t : t = Parts!UpperEscapes(s)
  OBVIOUS
<1>2. t \in Seq(Byte) /\ Len(t) = NewLen(s) /\ Len(t) \in Lengths /\ Len(t) \in Nat
  <2>1. s \in Seq(Byte) /\ Len(s) \in Nat /\ Len(s) \in Lengths
    BY LenProperties, UriAssumption DEF Fits, Lengths
  <2> QED
    BY <1>1, <2>1, WholeText, UpperEscapesText
<1>3. v = [u EXCEPT !.data = Replaced(u.data, fragmentIdx(u), u.fragmentLen, t), !.fragmentLen = Len(t), !.hasFragment = TRUE]
  BY <1>1, <1>2, WholeText DEF insertFragment
<1>4. u \in UriObject
  BY DEF UriInv
<1>5. /\ v.data = Replaced(u.data, fragmentIdx(u), u.fragmentLen, t)
      /\ v.schemeLen = u.schemeLen
      /\ v.authorityLen = u.authorityLen
      /\ v.pathLen = u.pathLen
      /\ v.queryLen = u.queryLen
      /\ v.fragmentLen = Len(t)
      /\ v.hasAuthority = u.hasAuthority
      /\ v.hasQuery = u.hasQuery
  BY <1>3, <1>4 DEF UriObject
<1>6. v.hasFragment = TRUE
  BY <1>3, <1>4 DEF UriObject
<1>7. HasPart(u.data, fragmentIdx(u), u.fragmentLen)
  BY Layout
<1>8. v.data \in Seq(Byte) /\ Len(v.data) = Len(u.data) - u.fragmentLen + Len(t)
  BY <1>2, <1>5, <1>7, Replacing
<1>9. UriInv(v)
  <2>1. v \in UriObject
    BY <1>2, <1>3, <1>4, <1>5, <1>8 DEF UriObject
  <2>2. Len(u.data) = u.schemeLen + u.authorityLen + u.pathLen + u.queryLen + u.fragmentLen
    BY DEF UriInv, fragmentIdx
  <2>3. Len(v.data) = v.schemeLen + v.authorityLen + v.pathLen + v.queryLen + v.fragmentLen
    <3>1. u.schemeLen \in Nat /\ u.authorityLen \in Nat /\ u.pathLen \in Nat
          /\ u.queryLen \in Nat /\ u.fragmentLen \in Nat /\ Len(t) \in Nat
      BY <1>2, Layout
    <3>2. PICK a \in Nat, b \in Nat, c \in Nat, d \in Nat, e \in Nat, n \in Nat :
             /\ a = u.schemeLen /\ b = u.authorityLen /\ c = u.pathLen /\ d = u.queryLen
             /\ e = u.fragmentLen /\ n = Len(t)
      BY <3>1, Zenon
    <3>3. Len(u.data) = a + b + c + d + e
      BY <2>2, <3>2, Zenon
    <3>4. Len(u.data) - e + n = a + b + c + d + n
      BY <3>3, SMT
    <3> QED
      BY <1>5, <1>8, <3>2, <3>4, Zenon
  <2> QED
    BY <1>5, <1>6, <2>1, <2>3 DEF UriInv, fragmentIdx
<1>10. scheme(v) = scheme(u)
  <2>1. 0 + u.schemeLen <= fragmentIdx(u)
    BY <1>5, Layout, SMTT(30) DEF authorityIdx, pathIdx, queryIdx, fragmentIdx
  <2> QED
    BY <1>2, <1>5, <1>7, <2>1, Layout, PartBefore DEF scheme
<1>11. authorityText(v) = authorityText(u)
  <2>1. authorityIdx(v) = authorityIdx(u) /\ authorityIdx(u) + u.authorityLen <= fragmentIdx(u)
    BY <1>5, Layout DEF authorityIdx, pathIdx, queryIdx, fragmentIdx
  <2> QED
    BY <1>2, <1>5, <1>7, <2>1, Layout, PartBefore DEF authorityText
<1>12. path(v) = path(u)
  <2>1. pathIdx(v) = pathIdx(u) /\ pathIdx(u) + u.pathLen <= fragmentIdx(u)
    BY <1>5, Layout DEF authorityIdx, pathIdx, queryIdx, fragmentIdx
  <2> QED
    BY <1>2, <1>5, <1>7, <2>1, Layout, PartBefore DEF path
<1>13. queryText(v) = queryText(u)
  <2>1. queryIdx(v) = queryIdx(u) /\ queryIdx(u) + u.queryLen <= fragmentIdx(u)
    BY <1>5, Layout DEF authorityIdx, pathIdx, queryIdx, fragmentIdx
  <2> QED
    BY <1>2, <1>5, <1>7, <2>1, Layout, PartBefore DEF queryText
<1>14. fragmentText(v) = t
  <2>1. fragmentIdx(v) = fragmentIdx(u)
    BY <1>5 DEF authorityIdx, pathIdx, queryIdx, fragmentIdx
  <2> QED
    BY <1>2, <1>5, <1>7, <2>1, PartReplaced DEF fragmentText
<1>15. PartsOf(v) = [PartsOf(u) EXCEPT !.fragment = t, !.hasFragment = TRUE]
  <2>1. authority(v) = authority(u)
    BY <1>5, <1>11 DEF authority, authorityText
  <2>2. query(v) = query(u)
    BY <1>5, <1>13 DEF query, queryText
  <2>3. fragment(v) = t
    BY <1>6, <1>14 DEF fragment, fragmentText
  <2>4. PartsOf(v) = PartsRecord(scheme(v), authority(v), path(v), query(v), fragment(v), v.hasAuthority, v.hasQuery, v.hasFragment)
    BY DEF PartsOf, PartsRecord
  <2>5. PartsOf(v) = PartsRecord(scheme(u), authority(u), path(u), query(u), t, u.hasAuthority, u.hasQuery, v.hasFragment)
    BY <1>5, <1>6, <2>4, <1>10, <2>1, <1>12, <2>2, <2>3, Zenon
  <2>6. PartsOf(u) = PartsRecord(scheme(u), authority(u), path(u), query(u), fragment(u), u.hasAuthority, u.hasQuery, u.hasFragment)
    BY DEF PartsOf, PartsRecord
  <2>7. fragmentSet(PartsRecord(scheme(u), authority(u), path(u), query(u), fragment(u), u.hasAuthority, u.hasQuery, u.hasFragment), t, v.hasFragment)
          = PartsRecord(scheme(u), authority(u), path(u), query(u), t, u.hasAuthority, u.hasQuery, v.hasFragment)
    BY ChangedFragment, SMT
  <2> QED
    BY <2>5, <2>6, <2>7, <1>6, Zenon DEF fragmentSet
<1> QED
  BY <1>1, <1>9, <1>15

-----------------------------------------------------------------------------
(* A part is removed: it becomes empty, and then its flag is taken away.   *)

\* The empty text, which the removals insert.
LEMMA EmptyText ==
    /\ Fits(<<>>)
    /\ NewLen(<<>>) = 0
    /\ Parts!UpperEscapes(<<>>) = <<>>
<1>1. <<>> \in Seq(Byte) /\ Len(<<>>) = 0
  OBVIOUS
<1>2. Fits(<<>>)
  BY <1>1, UriAssumption DEF Fits
<1>3. NewLen(<<>>) = 0
  BY <1>1, <1>2, WholeText
<1>4. Parts!UpperEscapes(<<>>) \in Seq(Byte) /\ Len(Parts!UpperEscapes(<<>>)) = 0
  BY <1>1, UpperEscapesText
<1> QED
  BY <1>2, <1>3, <1>4, EmptySeq

\* The parts of a Uri with another authority.
LEMMA SetAuthority ==
    ASSUME NEW u, NEW e, NEW b
    PROVE  authoritySet(PartsOf(u), e, b)
             = PartsRecord(scheme(u), e, path(u), query(u), fragment(u), b, u.hasQuery, u.hasFragment)
<1>1. PartsOf(u) = PartsRecord(scheme(u), authority(u), path(u), query(u), fragment(u), u.hasAuthority, u.hasQuery, u.hasFragment)
  BY DEF PartsOf, PartsRecord
<1>2. authoritySet(PartsRecord(scheme(u), authority(u), path(u), query(u), fragment(u), u.hasAuthority, u.hasQuery, u.hasFragment), e, b)
        = PartsRecord(scheme(u), e, path(u), query(u), fragment(u), b, u.hasQuery, u.hasFragment)
  BY ChangedAuthority, SMT
<1> QED
  BY <1>1, <1>2, Zenon

\* The authority that was set last counts.
LEMMA SetAuthorityTwice ==
    ASSUME NEW u, NEW e, NEW b, NEW c
    PROVE  authoritySet(authoritySet(PartsOf(u), e, c), e, b) = authoritySet(PartsOf(u), e, b)
<1>1. authoritySet(PartsRecord(scheme(u), e, path(u), query(u), fragment(u), c, u.hasQuery, u.hasFragment), e, b)
        = PartsRecord(scheme(u), e, path(u), query(u), fragment(u), b, u.hasQuery, u.hasFragment)
  BY ChangedAuthority, SMT
<1> QED
  BY <1>1, SetAuthority, Zenon

\* An empty authority is inserted.
LEMMA EmptyAuthority ==
    ASSUME NEW u, UriInv(u), NEW w, w = insertAuthority(u, <<>>)
    PROVE  /\ UriInv(w)
           /\ PartsOf(w) = authoritySet(PartsOf(u), <<>>, TRUE)
           /\ w.authorityLen = 0 /\ w.hasAuthority = TRUE
<1>1. PICK s : s = <<>>
  OBVIOUS
<1>2. Fits(s) /\ NewLen(s) = 0 /\ Parts!UpperEscapes(s) = <<>> /\ w = insertAuthority(u, s)
  BY <1>1, EmptyText, Zenon
<1>3. UriInv(w) /\ PartsOf(w) = [PartsOf(u) EXCEPT !.authority = Parts!UpperEscapes(s), !.hasAuthority = TRUE]
  BY <1>2, InsertAuthority, Zenon
<1>4. u \in UriObject
  BY DEF UriInv
<1>5. w.authorityLen = 0 /\ w.hasAuthority = TRUE
  BY <1>2, <1>4 DEF insertAuthority, UriObject
<1> QED
  BY <1>2, <1>3, <1>5, Zenon DEF authoritySet

\* removeAuthority leaves no authority and no character of it in the string.
LEMMA RemoveAuthority ==
    ASSUME NEW u, UriInv(u), NEW v, v = [insertAuthority(u, <<>>) EXCEPT !.hasAuthority = FALSE]
    PROVE  UriInv(v) /\ PartsOf(v) = [PartsOf(u) EXCEPT !.authority = <<>>, !.hasAuthority = FALSE]
<1>1. PICK w : w = insertAuthority(u, <<>>)
  OBVIOUS
<1>2. PICK e : e = <<>>
  OBVIOUS
<1>3. UriInv(w) /\ PartsOf(w) = authoritySet(PartsOf(u), e, TRUE) /\ w.authorityLen = 0 /\ w.hasAuthority = TRUE
  BY <1>1, <1>2, EmptyAuthority, Zenon
<1>4. w \in UriObject
  BY <1>3 DEF UriInv
<1>6. v = [w EXCEPT !.hasAuthority = FALSE]
  BY <1>1, Zenon
<1>7. /\ v.data = w.data
      /\ v.schemeLen = w.schemeLen
      /\ v.authorityLen = w.authorityLen
      /\ v.pathLen = w.pathLen
      /\ v.queryLen = w.queryLen
      /\ v.fragmentLen = w.fragmentLen
      /\ v.hasQuery = w.hasQuery
      /\ v.hasFragment = w.hasFragment
  BY <1>4, <1>6 DEF UriObject
<1>8. v.hasAuthority = FALSE /\ v \in UriObject
  BY <1>4, <1>6 DEF UriObject
<1>9. UriInv(v)
  BY <1>3, <1>7, <1>8 DEF UriInv, authorityIdx, pathIdx, queryIdx, fragmentIdx
<1>10. authority(v) = e
  BY <1>2, <1>8 DEF authority
<1>11. PartsOf(v) = authoritySet(PartsOf(w), e, v.hasAuthority)
  <2>1. PartsOf(v) = PartsRecord(scheme(v), authority(v), path(v), query(v), fragment(v), v.hasAuthority, v.hasQuery, v.hasFragment)
    BY DEF PartsOf, PartsRecord
  <2>2. scheme(v) = scheme(w) /\ path(v) = path(w) /\ query(v) = query(w) /\ fragment(v) = fragment(w)
    BY <1>7 DEF scheme, authority, path, query, fragment, authorityIdx, pathIdx, queryIdx, fragmentIdx
  <2>3. PartsOf(v) = PartsRecord(scheme(w), e, path(w), query(w), fragment(w), v.hasAuthority, w.hasQuery, w.hasFragment)
    BY <1>7, <1>10, <2>1, <2>2, Zenon
  <2> QED
    BY <2>3, SetAuthority, Zenon
<1>12. PartsOf(v) = authoritySet(PartsOf(u), e, v.hasAuthority)
  <2>1. authoritySet(authoritySet(PartsOf(u), e, TRUE), e, v.hasAuthority) = authoritySet(PartsOf(u), e, v.hasAuthority)
    BY SetAuthorityTwice, Zenon
  <2>2. PartsOf(v) = authoritySet(authoritySet(PartsOf(u), e, TRUE), e, v.hasAuthority)
    BY <1>3, <1>11, Zenon
  <2> QED
    BY <2>1, <2>2, Zenon
<1> QED
  BY <1>2, <1>8, <1>9, <1>12, Zenon DEF authoritySet

\* The parts of a Uri with another query.
LEMMA SetQuery ==
    ASSUME NEW u, NEW e, NEW b
    PROVE  querySet(PartsOf(u), e, b)
             = PartsRecord(scheme(u), authority(u), path(u), e, fragment(u), u.hasAuthority, b, u.hasFragment)
<1>1. PartsOf(u) = PartsRecord(scheme(u), authority(u), path(u), query(u), fragment(u), u.hasAuthority, u.hasQuery, u.hasFragment)
  BY DEF PartsOf, PartsRecord
<1>2. querySet(PartsRecord(scheme(u), authority(u), path(u), query(u), fragment(u), u.hasAuthority, u.hasQuery, u.hasFragment), e, b)
        = PartsRecord(scheme(u), authority(u), path(u), e, fragment(u), u.hasAuthority, b, u.hasFragment)
  BY ChangedQuery, SMT
<1> QED
  BY <1>1, <1>2, Zenon

\* The query that was set last counts.
LEMMA SetQueryTwice ==
    ASSUME NEW u, NEW e, NEW b, NEW c
    PROVE  querySet(querySet(PartsOf(u), e, c), e, b) = querySet(PartsOf(u), e, b)
<1>1. querySet(PartsRecord(scheme(u), authority(u), path(u), e, fragment(u), u.hasAuthority, c, u.hasFragment), e, b)
        = PartsRecord(scheme(u), authority(u), path(u), e, fragment(u), u.hasAuthority, b, u.hasFragment)
  BY ChangedQuery, SMT
<1> QED
  BY <1>1, SetQuery, Zenon

\* An empty query is inserted.
LEMMA EmptyQuery ==
    ASSUME NEW u, UriInv(u), NEW w, w = insertQuery(u, <<>>)
    PROVE  /\ UriInv(w)
           /\ PartsOf(w) = querySet(PartsOf(u), <<>>, TRUE)
           /\ w.queryLen = 0 /\ w.hasQuery = TRUE
<1>1. PICK s : s = <<>>
  OBVIOUS
<1>2. Fits(s) /\ NewLen(s) = 0 /\ Parts!UpperEscapes(s) = <<>> /\ w = insertQuery(u, s)
  BY <1>1, EmptyText, Zenon
<1>3. UriInv(w) /\ PartsOf(w) = [PartsOf(u) EXCEPT !.query = Parts!UpperEscapes(s), !.hasQuery = TRUE]
  BY <1>2, InsertQuery, Zenon
<1>4. u \in UriObject
  BY DEF UriInv
<1>5. w.queryLen = 0 /\ w.hasQuery = TRUE
  BY <1>2, <1>4 DEF insertQuery, UriObject
<1> QED
  BY <1>2, <1>3, <1>5, Zenon DEF querySet

\* removeQuery leaves no query and no character of it in the string.
LEMMA RemoveQuery ==
    ASSUME NEW u, UriInv(u), NEW v, v = [insertQuery(u, <<>>) EXCEPT !.hasQuery = FALSE]
    PROVE  UriInv(v) /\ PartsOf(v) = [PartsOf(u) EXCEPT !.query = <<>>, !.hasQuery = FALSE]
<1>1. PICK w : w = insertQuery(u, <<>>)
  OBVIOUS
<1>2. PICK e : e = <<>>
  OBVIOUS
<1>3. UriInv(w) /\ PartsOf(w) = querySet(PartsOf(u), e, TRUE) /\ w.queryLen = 0 /\ w.hasQuery = TRUE
  BY <1>1, <1>2, EmptyQuery, Zenon
<1>4. w \in UriObject
  BY <1>3 DEF UriInv
<1>6. v = [w EXCEPT !.hasQuery = FALSE]
  BY <1>1, Zenon
<1>7. /\ v.data = w.data
      /\ v.schemeLen = w.schemeLen
      /\ v.authorityLen = w.authorityLen
      /\ v.pathLen = w.pathLen
      /\ v.queryLen = w.queryLen
      /\ v.fragmentLen = w.fragmentLen
      /\ v.hasAuthority = w.hasAuthority
      /\ v.hasFragment = w.hasFragment
  BY <1>4, <1>6 DEF UriObject
<1>8. v.hasQuery = FALSE /\ v \in UriObject
  BY <1>4, <1>6 DEF UriObject
<1>9. UriInv(v)
  BY <1>3, <1>7, <1>8 DEF UriInv, authorityIdx, pathIdx, queryIdx, fragmentIdx
<1>10. query(v) = e
  BY <1>2, <1>8 DEF query
<1>11. PartsOf(v) = querySet(PartsOf(w), e, v.hasQuery)
  <2>1. PartsOf(v) = PartsRecord(scheme(v), authority(v), path(v), query(v), fragment(v), v.hasAuthority, v.hasQuery, v.hasFragment)
    BY DEF PartsOf, PartsRecord
  <2>2. scheme(v) = scheme(w) /\ authority(v) = authority(w) /\ path(v) = path(w) /\ fragment(v) = fragment(w)
    BY <1>7 DEF scheme, authority, path, query, fragment, authorityIdx, pathIdx, queryIdx, fragmentIdx
  <2>3. PartsOf(v) = PartsRecord(scheme(w), authority(w), path(w), e, fragment(w), w.hasAuthority, v.hasQuery, w.hasFragment)
    BY <1>7, <1>10, <2>1, <2>2, Zenon
  <2> QED
    BY <2>3, SetQuery, Zenon
<1>12. PartsOf(v) = querySet(PartsOf(u), e, v.hasQuery)
  <2>1. querySet(querySet(PartsOf(u), e, TRUE), e, v.hasQuery) = querySet(PartsOf(u), e, v.hasQuery)
    BY SetQueryTwice, Zenon
  <2>2. PartsOf(v) = querySet(querySet(PartsOf(u), e, TRUE), e, v.hasQuery)
    BY <1>3, <1>11, Zenon
  <2> QED
    BY <2>1, <2>2, Zenon
<1> QED
  BY <1>2, <1>8, <1>9, <1>12, Zenon DEF querySet

\* The parts of a Uri with another fragment.
LEMMA SetFragment ==
    ASSUME NEW u, NEW e, NEW b
    PROVE  fragmentSet(PartsOf(u), e, b)
             = PartsRecord(scheme(u), authority(u), path(u), query(u), e, u.hasAuthority, u.hasQuery, b)
<1>1. PartsOf(u) = PartsRecord(scheme(u), authority(u), path(u), query(u), fragment(u), u.hasAuthority, u.hasQuery, u.hasFragment)
  BY DEF PartsOf, PartsRecord
<1>2. fragmentSet(PartsRecord(scheme(u), authority(u), path(u), query(u), fragment(u), u.hasAuthority, u.hasQuery, u.hasFragment), e, b)
        = PartsRecord(scheme(u), authority(u), path(u), query(u), e, u.hasAuthority, u.hasQuery, b)
  BY ChangedFragment, SMT
<1> QED
  BY <1>1, <1>2, Zenon

\* The fragment that was set last counts.
LEMMA SetFragmentTwice ==
    ASSUME NEW u, NEW e, NEW b, NEW c
    PROVE  fragmentSet(fragmentSet(PartsOf(u), e, c), e, b) = fragmentSet(PartsOf(u), e, b)
<1>1. fragmentSet(PartsRecord(scheme(u), authority(u), path(u), query(u), e, u.hasAuthority, u.hasQuery, c), e, b)
        = PartsRecord(scheme(u), authority(u), path(u), query(u), e, u.hasAuthority, u.hasQuery, b)
  BY ChangedFragment, SMT
<1> QED
  BY <1>1, SetFragment, Zenon

\* An empty fragment is inserted.
LEMMA EmptyFragment ==
    ASSUME NEW u, UriInv(u), NEW w, w = insertFragment(u, <<>>)
    PROVE  /\ UriInv(w)
           /\ PartsOf(w) = fragmentSet(PartsOf(u), <<>>, TRUE)
           /\ w.fragmentLen = 0 /\ w.hasFragment = TRUE
<1>1. PICK s : s = <<>>
  OBVIOUS
<1>2. Fits(s) /\ NewLen(s) = 0 /\ Parts!UpperEscapes(s) = <<>> /\ w = insertFragment(u, s)
  BY <1>1, EmptyText, Zenon
<1>3. UriInv(w) /\ PartsOf(w) = [PartsOf(u) EXCEPT !.fragment = Parts!UpperEscapes(s), !.hasFragment = TRUE]
  BY <1>2, InsertFragment, Zenon
<1>4. u \in UriObject
  BY DEF UriInv
<1>5. w.fragmentLen = 0 /\ w.hasFragment = TRUE
  BY <1>2, <1>4 DEF insertFragment, UriObject
<1> QED
  BY <1>2, <1>3, <1>5, Zenon DEF fragmentSet

\* removeFragment leaves no fragment and no character of it in the string.
LEMMA RemoveFragment ==
    ASSUME NEW u, UriInv(u), NEW v, v = [insertFragment(u, <<>>) EXCEPT !.hasFragment = FALSE]
    PROVE  UriInv(v) /\ PartsOf(v) = [PartsOf(u) EXCEPT !.fragment = <<>>, !.hasFragment = FALSE]
<1>1. PICK w : w = insertFragment(u, <<>>)
  OBVIOUS
<1>2. PICK e : e = <<>>
  OBVIOUS
<1>3. UriInv(w) /\ PartsOf(w) = fragmentSet(PartsOf(u), e, TRUE) /\ w.fragmentLen = 0 /\ w.hasFragment = TRUE
  BY <1>1, <1>2, EmptyFragment, Zenon
<1>4. w \in UriObject
  BY <1>3 DEF UriInv
<1>6. v = [w EXCEPT !.hasFragment = FALSE]
  BY <1>1, Zenon
<1>7. /\ v.data = w.data
      /\ v.schemeLen = w.schemeLen
      /\ v.authorityLen = w.authorityLen
      /\ v.pathLen = w.pathLen
      /\ v.queryLen = w.queryLen
      /\ v.fragmentLen = w.fragmentLen
      /\ v.hasAuthority = w.hasAuthority
      /\ v.hasQuery = w.hasQuery
  BY <1>4, <1>6 DEF UriObject
<1>8. v.hasFragment = FALSE /\ v \in UriObject
  BY <1>4, <1>6 DEF UriObject
<1>9. UriInv(v)
  BY <1>3, <1>7, <1>8 DEF UriInv, authorityIdx, pathIdx, queryIdx, fragmentIdx
<1>10. fragment(v) = e
  BY <1>2, <1>8 DEF fragment
<1>11. PartsOf(v) = fragmentSet(PartsOf(w), e, v.hasFragment)
  <2>1. PartsOf(v) = PartsRecord(scheme(v), authority(v), path(v), query(v), fragment(v), v.hasAuthority, v.hasQuery, v.hasFragment)
    BY DEF PartsOf, PartsRecord
  <2>2. scheme(v) = scheme(w) /\ authority(v) = authority(w) /\ path(v) = path(w) /\ query(v) = query(w)
    BY <1>7 DEF scheme, authority, path, query, fragment, authorityIdx, pathIdx, queryIdx, fragmentIdx
  <2>3. PartsOf(v) = PartsRecord(scheme(w), authority(w), path(w), query(w), e, w.hasAuthority, w.hasQuery, v.hasFragment)
    BY <1>7, <1>10, <2>1, <2>2, Zenon
  <2> QED
    BY <2>3, SetFragment, Zenon
<1>12. PartsOf(v) = fragmentSet(PartsOf(u), e, v.hasFragment)
  <2>1. fragmentSet(fragmentSet(PartsOf(u), e, TRUE), e, v.hasFragment) = fragmentSet(PartsOf(u), e, v.hasFragment)
    BY SetFragmentTwice, Zenon
  <2>2. PartsOf(v) = fragmentSet(fragmentSet(PartsOf(u), e, TRUE), e, v.hasFragment)
    BY <1>3, <1>11, Zenon
  <2> QED
    BY <2>1, <2>2, Zenon
<1> QED
  BY <1>2, <1>8, <1>9, <1>12, Zenon DEF fragmentSet

-----------------------------------------------------------------------------
(* The steps.                                                              *)

\* A Uri that is made without a text has no part.
LEMMA InitialUri == UriInv(NoUri) /\ PartsOf(NoUri) = Abstract!NoParts
<1>1. UriInv(NoUri)
  BY UriAssumption DEF UriInv, UriObject, Lengths, NoUri, fragmentIdx
<1>2. SubSeq(<<>>, 0 + 1, 0 + 0) = <<>>
  OBVIOUS
<1>3. PICK u : u = NoUri
  OBVIOUS
<1>4. /\ scheme(u) = <<>> /\ authority(u) = <<>> /\ path(u) = <<>> /\ query(u) = <<>> /\ fragment(u) = <<>>
      /\ ~u.hasAuthority /\ ~u.hasQuery /\ ~u.hasFragment
  BY <1>2, <1>3 DEF NoUri, scheme, authority, path, query, fragment, substr, pathIdx
<1>5. u.hasAuthority = FALSE /\ u.hasQuery = FALSE /\ u.hasFragment = FALSE
  BY <1>3, Zenon DEF NoUri
<1>6. PartsOf(u) = Abstract!NoParts
  BY <1>4, <1>5, Zenon DEF PartsOf, Abstract!NoParts
<1> QED
  BY <1>1, <1>3, <1>6

\* The texts of the two specifications are the same functions of a text.
LEMMA SameTexts ==
    ASSUME NEW s
    PROVE  /\ Abstract!LowerCase(s) = Parts!LowerCase(s)
           /\ Abstract!UpperEscapes(s) = Parts!UpperEscapes(s)
           /\ Abstract!IsSchemeText(s) <=> Parts!IsSchemeText(s)
           /\ Abstract!IsText(s, "authority") <=> Parts!IsText(s, "authority")
           /\ Abstract!IsText(s, "query") <=> Parts!IsText(s, "query")
<1>1. Abstract!LowerCase(s) = Parts!LowerCase(s)
  BY DEF Abstract!LowerCase, Parts!LowerCase, Abstract!ToLower, Parts!ToLower, Abstract!IsUpper, Parts!IsUpper
<1>2. Abstract!Escapes(s) = Parts!Escapes(s)
  BY Zenon DEF Abstract!Escapes, Parts!Escapes, Abstract!Percent, Parts!Percent
<1>3. ASSUME NEW c PROVE Abstract!ToUpper(c) = Parts!ToUpper(c)
  BY DEF Abstract!ToUpper, Parts!ToUpper, Abstract!IsLower, Parts!IsLower
<1>4. Abstract!UpperEscapes(s) = Parts!UpperEscapes(s)
  BY <1>2, <1>3 DEF Abstract!UpperEscapes, Parts!UpperEscapes
<1>5. ASSUME NEW c PROVE Abstract!IsSchemeChar(c) <=> Parts!IsSchemeChar(c)
  BY DEF Abstract!IsSchemeChar, Parts!IsSchemeChar, Abstract!IsAlnum, Parts!IsAlnum, Abstract!IsAlpha,
         Parts!IsAlpha, Abstract!IsDigit, Parts!IsDigit, Abstract!IsUpper, Parts!IsUpper, Abstract!IsLower,
         Parts!IsLower, Abstract!Minus, Parts!Minus, Abstract!Dot, Parts!Dot, Abstract!Plus, Parts!Plus
<1>6. ASSUME NEW part PROVE Abstract!Delimiters(part) = Parts!Delimiters(part)
  BY Zenon DEF Abstract!Delimiters, Parts!Delimiters, Abstract!Slash, Parts!Slash, Abstract!Question,
         Parts!Question, Abstract!Hash, Parts!Hash
<1> QED
  BY <1>1, <1>4, <1>5, <1>6 DEF Abstract!IsSchemeText, Parts!IsSchemeText, Abstract!IsText, Parts!IsText

\* Each operation is the operation of the parts that has its name.
LEMMA StepOfParts ==
    ASSUME UriInv(uri), Next
    PROVE  UriInv(uri') /\ Abstract!Next
<1>1. ASSUME NEW s \in Texts, setScheme(s)
      PROVE  UriInv(uri') /\ Abstract!SetScheme(s)
  <2>1. Fits(s) /\ uri' = insertScheme(uri, s)
    BY <1>1, UriAssumption DEF setScheme, Fits
  <2>2. UriInv(uri') /\ PartsOf(uri') = [PartsOf(uri) EXCEPT !.scheme = Parts!LowerCase(s)]
    BY <2>1, InsertScheme, Zenon
  <2> QED
    BY <1>1, <2>2, SameTexts, Zenon DEF setScheme, Abstract!SetScheme
<1>2. ASSUME NEW s \in Texts, setAuthority(s)
      PROVE  UriInv(uri') /\ Abstract!SetAuthority(s)
  <2>1. Fits(s) /\ uri' = insertAuthority(uri, s)
    BY <1>2, UriAssumption DEF setAuthority, Fits
  <2>2. UriInv(uri') /\ PartsOf(uri') = [PartsOf(uri) EXCEPT !.authority = Parts!UpperEscapes(s), !.hasAuthority = TRUE]
    BY <2>1, InsertAuthority, Zenon
  <2> QED
    BY <1>2, <2>2, SameTexts, Zenon DEF setAuthority, Abstract!SetAuthority
<1>3. ASSUME NEW s \in Texts, setPath(s)
      PROVE  UriInv(uri') /\ Abstract!SetPath(s)
  <2>1. Fits(s) /\ uri' = insertPath(uri, s)
    BY <1>3, UriAssumption DEF setPath, Fits
  <2>2. UriInv(uri') /\ PartsOf(uri') = [PartsOf(uri) EXCEPT !.path = s]
    BY <2>1, InsertPath, Zenon
  <2> QED
    BY <1>3, <2>2, SameTexts, Zenon DEF setPath, Abstract!SetPath
<1>4. ASSUME NEW s \in Texts, setQuery(s)
      PROVE  UriInv(uri') /\ Abstract!SetQuery(s)
  <2>1. Fits(s) /\ uri' = insertQuery(uri, s)
    BY <1>4, UriAssumption DEF setQuery, Fits
  <2>2. UriInv(uri') /\ PartsOf(uri') = [PartsOf(uri) EXCEPT !.query = Parts!UpperEscapes(s), !.hasQuery = TRUE]
    BY <2>1, InsertQuery, Zenon
  <2> QED
    BY <1>4, <2>2, SameTexts, Zenon DEF setQuery, Abstract!SetQuery
<1>5. ASSUME NEW s \in Texts, setFragment(s)
      PROVE  UriInv(uri') /\ Abstract!SetFragment(s)
  <2>1. Fits(s) /\ uri' = insertFragment(uri, s)
    BY <1>5, UriAssumption DEF setFragment, Fits
  <2>2. UriInv(uri') /\ PartsOf(uri') = [PartsOf(uri) EXCEPT !.fragment = Parts!UpperEscapes(s), !.hasFragment = TRUE]
    BY <2>1, InsertFragment, Zenon
  <2> QED
    BY <1>5, <2>2, SameTexts, Zenon DEF setFragment, Abstract!SetFragment
<1>6. ASSUME removeAuthority
      PROVE  UriInv(uri') /\ Abstract!RemoveAuthority
  <2>1. UriInv(uri') /\ PartsOf(uri') = [PartsOf(uri) EXCEPT !.authority = <<>>, !.hasAuthority = FALSE]
    BY <1>6, RemoveAuthority, Zenon DEF removeAuthority
  <2> QED
    BY <2>1, Zenon DEF Abstract!RemoveAuthority
<1>7. ASSUME removeQuery
      PROVE  UriInv(uri') /\ Abstract!RemoveQuery
  <2>1. UriInv(uri') /\ PartsOf(uri') = [PartsOf(uri) EXCEPT !.query = <<>>, !.hasQuery = FALSE]
    BY <1>7, RemoveQuery, Zenon DEF removeQuery
  <2> QED
    BY <2>1, Zenon DEF Abstract!RemoveQuery
<1>8. ASSUME removeFragment
      PROVE  UriInv(uri') /\ Abstract!RemoveFragment
  <2>1. UriInv(uri') /\ PartsOf(uri') = [PartsOf(uri) EXCEPT !.fragment = <<>>, !.hasFragment = FALSE]
    BY <1>8, RemoveFragment, Zenon DEF removeFragment
  <2> QED
    BY <2>1, Zenon DEF Abstract!RemoveFragment
<1> QED
  BY <1>1, <1>2, <1>3, <1>4, <1>5, <1>6, <1>7, <1>8, Zenon DEF Next, Abstract!Next

-----------------------------------------------------------------------------
(* The theorems.                                                           *)

\* After any sequence of the operations of a Uri the lengths are those of the parts, and the
\* string has nothing but the parts.
THEOREM UriSafe == Spec => [](UriInv(uri) /\ Consistent(uri))
<1>1. Init => UriInv(uri)
  BY InitialUri DEF Init
<1>2. UriInv(uri) /\ [Next]_uri => UriInv(uri)'
  <2>1. ASSUME UriInv(uri), UNCHANGED uri PROVE UriInv(uri')
    BY <2>1
  <2> QED
    BY <2>1, StepOfParts
<1>3. UriInv(uri) => Consistent(uri)
  BY InvariantIsConsistent
<1> QED
  BY <1>1, <1>2, <1>3, PTL DEF Spec

\* Each operation of a Uri changes the part that it names and no other, for texts of any length
\* that 16 bits hold: the class implements the record of five parts.
THEOREM UriIsItsParts == Spec => ImplementsUri
<1>1. Init => Abstract!Init
  BY InitialUri DEF Init, Abstract!Init
<1>2. UriInv(uri) /\ [Next]_uri => [Abstract!Next]_(PartsOf(uri))
  <2>1. ASSUME UNCHANGED uri PROVE UNCHANGED PartsOf(uri)
    BY <2>1
  <2> QED
    BY <2>1, StepOfParts
<1>3. Spec => []UriInv(uri)
  BY UriSafe, PTL
<1> QED
  BY <1>1, <1>2, <1>3, PTL DEF Spec, ImplementsUri, Abstract!Spec

-----------------------------------------------------------------------------
(* Induction over the natural numbers, for a set of them. *)

\* The order of the natural numbers is well-founded.
LEMMA NatOrder ==
  \E R : IsWellFoundedOn(R, Nat) /\ \A x, y \in Nat : <<x, y>> \in R <=> x < y
<1>1. \A x, y \in Nat : <<x, y>> \in OpToRel(<, Nat) <=> x < y
  BY DEF OpToRel
<1>. QED BY <1>1, NatLessThanWellFounded, Zenon

\* A set of natural numbers that is not empty has a smallest one.
LEMMA Smallest ==
  ASSUME NEW S \in SUBSET Nat, S # {}
  PROVE  \E n \in S : \A m \in S : n <= m
<1>1. PICK R : IsWellFoundedOn(R, Nat) /\ \A x, y \in Nat : <<x, y>> \in R <=> x < y
  BY NatOrder
<1>2. S \subseteq Nat /\ IsWellFoundedOn(R, Nat)
  BY <1>1
<1>3. PICK n \in S : \A m \in S : ~(<<m, n>> \in R)
  BY <1>2, WFMin, Zenon
<1>4. \A m \in S : m \in Nat /\ n \in Nat /\ ~(m < n)
  BY <1>1, <1>2, <1>3
<1>. QED BY <1>4, SMT

\* A set that has 0, and with each number the next one, has all of them.
LEMMA SetInduction ==
  ASSUME NEW S, 0 \in S, \A n \in Nat : n \in S => n + 1 \in S
  PROVE  Nat \subseteq S
<1>. SUFFICES ASSUME Nat \ S # {} PROVE FALSE
  OBVIOUS
<1>1. PICK x \in Nat \ S : \A y \in Nat \ S : x <= y
  BY Smallest
<1>2. x - 1 \in Nat /\ ~(x <= x - 1)
  BY SMT
<1>3. x - 1 \in S
  BY <1>1, <1>2
<1>. QED BY <1>1, <1>2, <1>3, SMT

-----------------------------------------------------------------------------
(* Texts one behind the other. *)

\* Two texts one behind the other can be told apart by their lengths.
LEMMA Cut ==
  ASSUME NEW a \in Seq(Byte), NEW b \in Seq(Byte)
  PROVE  /\ a \o b \in Seq(Byte) /\ Len(a \o b) = Len(a) + Len(b)
         /\ SubSeq(a \o b, 1, Len(a)) = a /\ From(a \o b, Len(a) + 1) = b
         /\ \A i \in 1 .. Len(a) : (a \o b)[i] = a[i]
         /\ \A i \in 1 .. Len(b) : (a \o b)[Len(a) + i] = b[i]
<1>1. PICK t : t = a \o b
  OBVIOUS
<1>2. /\ t \in Seq(Byte) /\ Len(t) = Len(a) + Len(b)
      /\ Agree(t, 0, a, 0, Len(a)) /\ Agree(t, Len(a), b, 0, Len(b))
  BY <1>1, TwoTexts
<1>3. Len(a) \in Nat /\ Len(b) \in Nat
  BY LenProperties
<1>4. substr(t, 0, Len(a)) = substr(a, 0, Len(a)) /\ substr(t, Len(a), Len(b)) = substr(b, 0, Len(b))
  <2>1. HasPart(t, 0, Len(a)) /\ HasPart(t, Len(a), Len(b)) /\ HasPart(a, 0, Len(a)) /\ HasPart(b, 0, Len(b))
    BY <1>2, <1>3 DEF HasPart
  <2>. QED BY <1>2, <2>1, SameParts
<1>5. substr(a, 0, Len(a)) = a /\ substr(b, 0, Len(b)) = b
  BY <1>3, SubSeqFull, 0 + 1 = 1, 0 + Len(a) = Len(a), 0 + Len(b) = Len(b) DEF substr
<1>6. SubSeq(t, 1, Len(a)) = a
  BY <1>3, <1>4, <1>5, 0 + 1 = 1, 0 + Len(a) = Len(a) DEF substr
<1>7. From(t, Len(a) + 1) = b
  BY <1>2, <1>4, <1>5 DEF substr, From
<1>8. (\A i \in 1 .. Len(a) : t[i] = a[i]) /\ (\A i \in 1 .. Len(b) : t[Len(a) + i] = b[i])
  BY <1>2, <1>3 DEF Agree
<1>. QED BY <1>1, <1>2, <1>6, <1>7, <1>8

\* A text behind one character.
LEMMA OneMore ==
  ASSUME NEW c \in Byte, NEW b \in Seq(Byte), NEW t, t = <<c>> \o b
  PROVE  /\ t \in Seq(Byte) /\ Len(t) = 1 + Len(b) /\ t # <<>> /\ t[1] = c /\ Head(t) = c
         /\ Tail(t) = b /\ From(t, 2) = b
         /\ \A i \in 1 .. Len(b) : t[i + 1] = b[i]
<1>0. <<c>> \in Seq(Byte) /\ Len(<<c>>) = 1 /\ <<c>>[1] = c
  OBVIOUS
<1>1. PICK a \in Seq(Byte) : a = <<c>> /\ Len(a) = 1 /\ a[1] = c
  BY <1>0
<1>2. Len(b) \in Nat
  BY LenProperties
<1>3. /\ t \in Seq(Byte) /\ Len(t) = 1 + Len(b) /\ From(t, 2) = b /\ t[1] = c
      /\ \A i \in 1 .. Len(b) : t[1 + i] = b[i]
  <2>1. t = a \o b /\ 1 \in 1 .. Len(a) /\ Len(a) + 1 = 2
    BY <1>1
  <2>2. t \in Seq(Byte) /\ Len(t) = Len(a) + Len(b) /\ From(t, Len(a) + 1) = b
    BY <2>1, Cut, SMTT(30)
  <2>3. t[1] = a[1] /\ \A i \in 1 .. Len(b) : t[Len(a) + i] = b[i]
    BY <2>1, Cut
  <2>. QED BY <1>1, <2>1, <2>2, <2>3
<1>4. t # <<>>
  BY <1>2, <1>3
<1>5. Tail(t) = b
  BY <1>3, <1>4, TailIsSubSeq DEF From
<1>. QED BY <1>2, <1>3, <1>4, <1>5

-----------------------------------------------------------------------------
(* How far parse goes. *)

\* A length that 16 bits can hold is counted as it is.
LEMMA CountIs ==
  ASSUME NEW n \in Nat, n < LengthCount PROVE n % LengthCount = n
BY UriAssumption

\* A text with no stop in it, before a text that begins with one, is all that is read, when
\* its length can be counted.
LEMMA UntilIs ==
  ASSUME NEW a \in Seq(Byte), NEW b \in Seq(Byte), NEW stops, Len(a) < LengthCount,
         \A i \in 1 .. Len(a) : a[i] \notin stops, b = <<>> \/ b[1] \in stops
  PROVE  Until(a \o b, stops) = Len(a)
<1>1. PICK t : t = a \o b
  OBVIOUS
<1>2. PICK n : n = Len(a)
  OBVIOUS
<1>3. Len(b) \in Nat /\ n \in Nat /\ Len(t) = n + Len(b) /\ n \in 0 .. Len(t)
  BY <1>1, <1>2, LenProperties, Cut
<1>4. \A i \in 1 .. n : t[i] \notin stops
  BY <1>1, <1>2, Cut
<1>5. n < Len(t) => t[n + 1] \in stops
  <2>. SUFFICES ASSUME n < Len(t) PROVE t[n + 1] \in stops
    OBVIOUS
  <2>1. 1 \in 1 .. Len(b) /\ b # <<>>
    BY <1>3
  <2>. QED BY <1>1, <1>2, <2>1, Cut
<1>6. \A k \in 0 .. Len(t) : (\A i \in 1 .. k : t[i] \notin stops) /\ (k < Len(t) => t[k + 1] \in stops) => k = n
  <2>. SUFFICES ASSUME NEW k \in 0 .. Len(t), \A i \in 1 .. k : t[i] \notin stops,
                       k < Len(t) => t[k + 1] \in stops, k # n
                PROVE  FALSE
    OBVIOUS
  <2>1. CASE k < n
    <3>1. k + 1 \in 1 .. n /\ k < Len(t)
      BY <1>3, <2>1
    <3>. QED BY <1>4, <3>1
  <2>2. CASE n < k
    <3>1. n + 1 \in 1 .. k /\ n < Len(t)
      BY <1>3, <2>2
    <3>. QED BY <1>5, <3>1
  <2>. QED BY <1>3, <2>1, <2>2
<1>7. PICK m : m = CHOOSE k \in 0 .. Len(t) :
          (\A i \in 1 .. k : t[i] \notin stops) /\ (k < Len(t) => ~(t[k + 1] \notin stops))
  OBVIOUS
<1>8. Until(t, stops) = m % LengthCount
  BY <1>7 DEF Until, Span
<1>9. m = n
  BY <1>3, <1>4, <1>5, <1>6, <1>7
<1>10. n % LengthCount = n
  BY <1>2, <1>3, CountIs
<1>. QED BY <1>1, <1>2, <1>8, <1>9, <1>10

\* The scheme of a text is what is before the first character that no scheme has.
LEMMA SchemeSpanIs ==
  ASSUME NEW a \in Seq(Byte), NEW b \in Seq(Byte), Parts!IsSchemeText(a),
         b # <<>>, ~Parts!IsSchemeChar(b[1])
  PROVE  Span(a \o b, Parts!IsSchemeChar) = Len(a)
<1>1. PICK t : t = a \o b
  OBVIOUS
<1>2. PICK n : n = Len(a)
  OBVIOUS
<1>3. Len(b) \in Nat \ {0} /\ n \in Nat /\ Len(t) = n + Len(b) /\ n \in 0 .. Len(t)
  BY <1>1, <1>2, LenProperties, Cut
<1>4. \A i \in 1 .. n : Parts!IsSchemeChar(t[i])
  BY <1>1, <1>2, Cut, LenProperties DEF Parts!IsSchemeText
<1>5. ~Parts!IsSchemeChar(t[n + 1]) /\ n < Len(t)
  BY <1>1, <1>2, <1>3, Cut
<1>6. \A k \in 0 .. Len(t) : (\A i \in 1 .. k : Parts!IsSchemeChar(t[i]))
                              /\ (k < Len(t) => ~Parts!IsSchemeChar(t[k + 1])) => k = n
  <2>. SUFFICES ASSUME NEW k \in 0 .. Len(t), \A i \in 1 .. k : Parts!IsSchemeChar(t[i]),
                       k < Len(t) => ~Parts!IsSchemeChar(t[k + 1]), k # n
                PROVE  FALSE
    OBVIOUS
  <2>1. CASE k < n
    <3>1. k + 1 \in 1 .. n /\ k < Len(t)
      BY <1>3, <2>1
    <3>. QED BY <1>4, <3>1
  <2>2. CASE n < k
    <3>1. n + 1 \in 1 .. k
      BY <1>3, <2>2
    <3>. QED BY <1>5, <3>1
  <2>. QED BY <1>3, <2>1, <2>2
<1>7. Span(t, Parts!IsSchemeChar) = CHOOSE k \in 0 .. Len(t) :
          (\A i \in 1 .. k : Parts!IsSchemeChar(t[i])) /\ (k < Len(t) => ~Parts!IsSchemeChar(t[k + 1]))
  BY DEF Span
<1>. QED BY <1>1, <1>2, <1>3, <1>4, <1>5, <1>6, <1>7

-----------------------------------------------------------------------------
(* Normalising twice is normalising once. *)

\* A character in upper or lower case stays as it is, and is no delimiter that it was not before.
LEMMA CharactersTwice ==
  ASSUME NEW c \in Byte
  PROVE  /\ Parts!ToUpper(c) \in Byte /\ Parts!ToUpper(Parts!ToUpper(c)) = Parts!ToUpper(c)
         /\ Parts!ToUpper(c) = Parts!Percent <=> c = Parts!Percent
         /\ Parts!ToUpper(c) \in {Slash, Question, Hash} => Parts!ToUpper(c) = c
         /\ Parts!ToLower(c) \in Byte /\ Parts!ToLower(Parts!ToLower(c)) = Parts!ToLower(c)
         /\ Parts!IsSchemeChar(c) => Parts!IsSchemeChar(Parts!ToLower(c))
BY SMT DEF Byte, Slash, Question, Hash, Parts!ToUpper, Parts!ToLower, Parts!IsUpper, Parts!IsLower, Parts!Percent,
   Parts!IsSchemeChar, Parts!IsAlnum, Parts!IsAlpha, Parts!IsDigit, Parts!Minus, Parts!Dot, Parts!Plus

\* A text in lower case stays as it is.
LEMMA LowerTwice ==
  ASSUME NEW s \in Seq(Byte), NEW t, t = Parts!LowerCase(s)
  PROVE  /\ t \in Seq(Byte) /\ Parts!LowerCase(t) = t
         /\ Parts!IsSchemeText(s) => Parts!IsSchemeText(t)
<1>1. t \in Seq(Byte) /\ Len(t) = Len(s) /\ Len(s) \in Nat /\ DOMAIN t = DOMAIN s /\ DOMAIN s = 1 .. Len(s)
  BY LowerCaseText, LenProperties
<1>2. \A i \in DOMAIN s : t[i] = Parts!ToLower(s[i]) /\ s[i] \in Byte
  BY <1>1 DEF Parts!LowerCase
<1>3. \A i \in DOMAIN s : Parts!ToLower(t[i]) = t[i]
  BY <1>2, CharactersTwice
<1>4. Parts!LowerCase(t) = [i \in DOMAIN t |-> t[i]]
  BY <1>1, <1>3 DEF Parts!LowerCase
<1>5. Parts!LowerCase(t) = t
  BY <1>1, <1>4
<1>6. ASSUME Parts!IsSchemeText(s) PROVE Parts!IsSchemeText(t)
  BY <1>1, <1>2, <1>6, CharactersTwice DEF Parts!IsSchemeText
<1>. QED BY <1>1, <1>5, <1>6

\* The places where escapes start, as a function.
IsStarts(f, s) ==
    f = [i \in DOMAIN s |->
            /\ s[i] = Parts!Percent
            /\ i + 2 <= Len(s)
            /\ i = 1 \/ ~f[i - 1]
            /\ i <= 2 \/ ~f[i - 2]]

\* The escapes of a text are those of the function that it defines.
LEMMA EscapesIs == \A s : Parts!Escapes(s) = {i \in DOMAIN s : (CHOOSE f : IsStarts(f, s))[i]}
BY Zenon DEF Parts!Escapes, IsStarts

\* Texts with their percent signs in the same places have their escapes there.
LEMMA SameEscapes ==
  ASSUME NEW s \in Seq(Byte), NEW t \in Seq(Byte), Len(s) = Len(t),
         \A i \in DOMAIN s : s[i] = Parts!Percent <=> t[i] = Parts!Percent
  PROVE  Parts!Escapes(s) = Parts!Escapes(t)
<1>1. DOMAIN s = DOMAIN t
  BY LenProperties
<1>2. ASSUME NEW f PROVE IsStarts(f, s) <=> IsStarts(f, t)
  BY <1>1 DEF IsStarts
<1>3. (CHOOSE f : IsStarts(f, s)) = (CHOOSE f : IsStarts(f, t))
  BY <1>2
<1>. QED BY <1>1, <1>3, EscapesIs

\* A text with its escapes in upper case stays as it is, and has no new delimiters.
LEMMA UpperTwice ==
  ASSUME NEW s \in Seq(Byte), NEW t, t = Parts!UpperEscapes(s)
  PROVE  /\ t \in Seq(Byte) /\ Parts!UpperEscapes(t) = t
         /\ Parts!IsText(s, "authority") => Parts!IsText(t, "authority")
         /\ Parts!IsText(s, "query") => Parts!IsText(t, "query")
<1>1. t \in Seq(Byte) /\ Len(t) = Len(s) /\ Len(s) \in Nat /\ DOMAIN t = DOMAIN s /\ DOMAIN s = 1 .. Len(s)
  BY UpperEscapesText, LenProperties
<1>2. PICK E : E = Parts!Escapes(s)
  OBVIOUS
<1>3. t = [i \in DOMAIN s |-> IF i - 1 \in E \/ i - 2 \in E THEN Parts!ToUpper(s[i]) ELSE s[i]]
  BY <1>2 DEF Parts!UpperEscapes
<1>4. \A i \in DOMAIN s : s[i] \in Byte
  BY <1>1
<1>5. Parts!Escapes(t) = E
  <2>1. \A i \in DOMAIN s : s[i] = Parts!Percent <=> t[i] = Parts!Percent
    BY <1>3, <1>4, CharactersTwice
  <2>. QED BY <1>1, <1>2, <2>1, SameEscapes
<1>6. Parts!UpperEscapes(t) = [i \in DOMAIN t |-> IF i - 1 \in E \/ i - 2 \in E THEN Parts!ToUpper(t[i]) ELSE t[i]]
  BY <1>5 DEF Parts!UpperEscapes
<1>7. \A i \in DOMAIN t : (IF i - 1 \in E \/ i - 2 \in E THEN Parts!ToUpper(t[i]) ELSE t[i]) = t[i]
  BY <1>1, <1>3, <1>4, CharactersTwice
<1>8. Parts!UpperEscapes(t) = [i \in DOMAIN t |-> t[i]]
  BY <1>6, <1>7
<1>9. Parts!UpperEscapes(t) = t
  BY <1>1, <1>8
<1>10. \A i \in DOMAIN s : t[i] \in {Slash, Question, Hash} => t[i] = s[i]
  BY <1>3, <1>4, CharactersTwice
<1>11. /\ Parts!Delimiters("authority") = {Slash, Question, Hash}
       /\ Parts!Delimiters("query") = {Hash}
  BY DEF Parts!Delimiters, Parts!Slash, Parts!Question, Parts!Hash, Slash, Question, Hash
<1>12. ASSUME Parts!IsText(s, "authority") PROVE Parts!IsText(t, "authority")
  BY <1>1, <1>10, <1>11, <1>12 DEF Parts!IsText
<1>13. ASSUME Parts!IsText(s, "query") PROVE Parts!IsText(t, "query")
  BY <1>1, <1>10, <1>11, <1>13 DEF Parts!IsText
<1>. QED BY <1>1, <1>9, <1>12, <1>13

-----------------------------------------------------------------------------
(* What the setters accept is all that a part can have. *)

LegalParts(p) ==
    /\ Parts!IsSchemeText(p.scheme) /\ Parts!LowerCase(p.scheme) = p.scheme
    /\ Parts!IsText(p.authority, "authority") /\ Parts!UpperEscapes(p.authority) = p.authority
    /\ Parts!IsText(p.query, "query") /\ Parts!UpperEscapes(p.query) = p.query
    /\ Parts!UpperEscapes(p.fragment) = p.fragment

\* An absent part is a legal one.
LEMMA EmptyIsLegal ==
  /\ Parts!IsSchemeText(<<>>) /\ Parts!LowerCase(<<>>) = <<>>
  /\ Parts!IsText(<<>>, "authority") /\ Parts!IsText(<<>>, "query")
  /\ Parts!UpperEscapes(<<>>) = <<>>
<1>1. Parts!IsSchemeText(<<>>) /\ Parts!IsText(<<>>, "authority") /\ Parts!IsText(<<>>, "query")
  BY DEF Parts!IsSchemeText, Parts!IsText
<1>2. PICK e \in Seq(Byte) : e = <<>> /\ Len(e) = 0
  <2>1. <<>> \in Seq(Byte) /\ Len(<<>>) = 0
    BY EmptySeq
  <2>. QED BY <2>1
<1>3. Parts!LowerCase(e) = e
  <2>1. Parts!LowerCase(e) \in Seq(Byte) /\ Len(Parts!LowerCase(e)) = 0
    BY <1>2, LowerCaseText
  <2>. QED BY <1>2, <2>1
<1>4. Parts!UpperEscapes(e) = e
  <2>1. Parts!UpperEscapes(e) \in Seq(Byte) /\ Len(Parts!UpperEscapes(e)) = 0
    BY <1>2, UpperEscapesText
  <2>. QED BY <1>2, <2>1
<1>. QED BY <1>1, <1>2, <1>3, <1>4

\* Each step of a program leaves only what the setters accept.
LEMMA LegalStep ==
  ASSUME UriInv(uri), LegalParts(PartsOf(uri)), Next
  PROVE  UriInv(uri') /\ LegalParts(PartsOf(uri'))
<1>1. PICK p : p = PartsOf(uri) /\ LegalParts(p)
  OBVIOUS
<1>2. PICK q : q = PartsOf(uri')
  OBVIOUS
<1>3. UriInv(uri') /\ Abstract!Next
  BY StepOfParts
<1>4. p = PartsRecord(p.scheme, p.authority, p.path, p.query, p.fragment, p.hasAuthority, p.hasQuery, p.hasFragment)
  BY <1>1 DEF PartsOf, PartsRecord
<1>5. \A s \in Texts : s \in Seq(Byte)
  BY UriAssumption
<1>6. ASSUME NEW s \in Texts, Abstract!SetScheme(s) PROVE LegalParts(q)
  <2>1. PICK t : t = Parts!LowerCase(s)
    OBVIOUS
  <2>2. Parts!IsSchemeText(s) /\ q = [p EXCEPT !.scheme = t]
    BY <1>1, <1>2, <1>6, <2>1, SameTexts DEF Abstract!SetScheme
  <2>3. Parts!IsSchemeText(t) /\ Parts!LowerCase(t) = t
    BY <1>5, <2>1, <2>2, LowerTwice
  <2>4. q.scheme = t /\ q.authority = p.authority /\ q.query = p.query /\ q.fragment = p.fragment
    BY <1>4, <2>2 DEF PartsRecord
  <2>. QED BY <1>1, <2>3, <2>4 DEF LegalParts
<1>7. ASSUME NEW s \in Texts, Abstract!SetAuthority(s) PROVE LegalParts(q)
  <2>1. PICK t : t = Parts!UpperEscapes(s)
    OBVIOUS
  <2>2. Parts!IsText(s, "authority") /\ q = [p EXCEPT !.authority = t, !.hasAuthority = TRUE]
    BY <1>1, <1>2, <1>7, <2>1, SameTexts DEF Abstract!SetAuthority
  <2>3. Parts!IsText(t, "authority") /\ Parts!UpperEscapes(t) = t
    BY <1>5, <2>1, <2>2, UpperTwice
  <2>4. q.scheme = p.scheme /\ q.authority = t /\ q.query = p.query /\ q.fragment = p.fragment
    BY <1>4, <2>2 DEF PartsRecord
  <2>. QED BY <1>1, <2>3, <2>4 DEF LegalParts
<1>8. ASSUME NEW s \in Texts, Abstract!SetPath(s) PROVE LegalParts(q)
  <2>1. q = [p EXCEPT !.path = s]
    BY <1>1, <1>2, <1>8 DEF Abstract!SetPath
  <2>2. q.scheme = p.scheme /\ q.authority = p.authority /\ q.query = p.query /\ q.fragment = p.fragment
    BY <1>4, <2>1 DEF PartsRecord
  <2>. QED BY <1>1, <2>2 DEF LegalParts
<1>9. ASSUME NEW s \in Texts, Abstract!SetQuery(s) PROVE LegalParts(q)
  <2>1. PICK t : t = Parts!UpperEscapes(s)
    OBVIOUS
  <2>2. Parts!IsText(s, "query") /\ q = [p EXCEPT !.query = t, !.hasQuery = TRUE]
    BY <1>1, <1>2, <1>9, <2>1, SameTexts DEF Abstract!SetQuery
  <2>3. Parts!IsText(t, "query") /\ Parts!UpperEscapes(t) = t
    BY <1>5, <2>1, <2>2, UpperTwice
  <2>4. q.scheme = p.scheme /\ q.authority = p.authority /\ q.query = t /\ q.fragment = p.fragment
    BY <1>4, <2>2 DEF PartsRecord
  <2>. QED BY <1>1, <2>3, <2>4 DEF LegalParts
<1>10. ASSUME NEW s \in Texts, Abstract!SetFragment(s) PROVE LegalParts(q)
  <2>1. PICK t : t = Parts!UpperEscapes(s)
    OBVIOUS
  <2>2. q = [p EXCEPT !.fragment = t, !.hasFragment = TRUE]
    BY <1>1, <1>2, <1>10, <2>1, SameTexts DEF Abstract!SetFragment
  <2>3. Parts!UpperEscapes(t) = t
    BY <1>5, <2>1, UpperTwice
  <2>4. q.scheme = p.scheme /\ q.authority = p.authority /\ q.query = p.query /\ q.fragment = t
    BY <1>4, <2>2 DEF PartsRecord
  <2>. QED BY <1>1, <2>3, <2>4 DEF LegalParts
<1>11. ASSUME Abstract!RemoveAuthority PROVE LegalParts(q)
  <2>1. q = [p EXCEPT !.authority = <<>>, !.hasAuthority = FALSE]
    BY <1>1, <1>2, <1>11 DEF Abstract!RemoveAuthority
  <2>2. q.scheme = p.scheme /\ q.authority = <<>> /\ q.query = p.query /\ q.fragment = p.fragment
    BY <1>4, <2>1 DEF PartsRecord
  <2>. QED BY <1>1, <2>2, EmptyIsLegal DEF LegalParts
<1>12. ASSUME Abstract!RemoveQuery PROVE LegalParts(q)
  <2>1. q = [p EXCEPT !.query = <<>>, !.hasQuery = FALSE]
    BY <1>1, <1>2, <1>12 DEF Abstract!RemoveQuery
  <2>2. q.scheme = p.scheme /\ q.authority = p.authority /\ q.query = <<>> /\ q.fragment = p.fragment
    BY <1>4, <2>1 DEF PartsRecord
  <2>. QED BY <1>1, <2>2, EmptyIsLegal DEF LegalParts
<1>13. ASSUME Abstract!RemoveFragment PROVE LegalParts(q)
  <2>1. q = [p EXCEPT !.fragment = <<>>, !.hasFragment = FALSE]
    BY <1>1, <1>2, <1>13 DEF Abstract!RemoveFragment
  <2>2. q.scheme = p.scheme /\ q.authority = p.authority /\ q.query = p.query /\ q.fragment = <<>>
    BY <1>4, <2>1 DEF PartsRecord
  <2>. QED BY <1>1, <2>2, EmptyIsLegal DEF LegalParts
<1>14. LegalParts(q)
  BY <1>3, <1>6, <1>7, <1>8, <1>9, <1>10, <1>11, <1>12, <1>13, Zenon DEF Abstract!Next
<1>. QED BY <1>2, <1>3, <1>14

-----------------------------------------------------------------------------
(* What encode writes. *)

IsPlain(c) == IsUnreserved(c) \/ c = Slash

\* A byte that encode leaves as it is ends no part.
LEMMA PlainByte ==
  ASSUME NEW c \in Byte, IsPlain(c)
  PROVE  EncodedByte(c) = <<c>> /\ c \notin {Percent, Question, Hash}
<1>1. EncodedByte(c) = <<c>>
  BY DEF IsPlain, EncodedByte
<1>2. c \notin {Percent, Question, Hash}
  BY DEF IsPlain, IsUnreserved, IsAlnum, IsAlpha, IsDigit, IsUpper, IsLower, Percent, Question, Hash, Slash,
         Underscore, Dot, Minus
<1>. QED BY <1>1, <1>2

\* A byte that encode escapes: two digits that stand for it.
LEMMA EscapedByte ==
  ASSUME NEW c \in Byte, ~IsPlain(c), NEW h, h = HexDigit(c \div 16), NEW l, l = HexDigit(c % 16)
  PROVE  /\ EncodedByte(c) = <<Percent, h, l>> /\ h \in Byte /\ l \in Byte /\ IsHex(h) /\ IsHex(l)
         /\ 16 * HexValue(h) + HexValue(l) = c /\ HexValue(h) \in Nat /\ HexValue(l) \in Nat
         /\ {h, l} \intersect {Percent, Question, Hash, Slash} = {}
<1>1. EncodedByte(c) = <<Percent, h, l>>
  BY DEF IsPlain, EncodedByte
<1>2. PICK a, b : a = c \div 16 /\ b = c % 16 /\ a \in 0 .. 15 /\ b \in 0 .. 15 /\ 16 * a + b = c
                  /\ a \in Nat /\ b \in Nat
  BY SMT DEF Byte
<1>3. \A n \in 0 .. 15 : /\ HexDigit(n) \in Byte /\ IsHex(HexDigit(n)) /\ HexValue(HexDigit(n)) = n
                         /\ HexDigit(n) \notin {Percent, Question, Hash, Slash}
  BY SMT DEF HexDigit, Byte, IsHex, HexValue, IsDigit, ToUpper, IsLower, Percent, Question, Hash, Slash
<1>4. h = HexDigit(a) /\ l = HexDigit(b)
  BY <1>2, Zenon
<1>5. /\ h \in Byte /\ l \in Byte /\ IsHex(h) /\ IsHex(l) /\ HexValue(h) = a /\ HexValue(l) = b
      /\ {h, l} \intersect {Percent, Question, Hash, Slash} = {}
  BY <1>2, <1>3, <1>4
<1>7. 16 * HexValue(h) + HexValue(l) = c
  BY <1>2, <1>5, Zenon
<1>. QED BY <1>1, <1>2, <1>5, <1>7, Zenon

\* A text in which no part ends and each percent sign is that of an escape.
IsEncoded(t) ==
    /\ t \in Seq(Byte)
    /\ \A i \in 1 .. Len(t) :
          /\ t[i] \notin {Question, Hash}
          /\ t[i] = Percent => i + 2 <= Len(t) /\ IsHex(t[i + 1]) /\ IsHex(t[i + 2])

\* What encode writes for one byte.
LEMMA ByteIsEncoded ==
  ASSUME NEW c \in Byte, NEW b, b = EncodedByte(c)
  PROVE  IsEncoded(b) /\ Len(b) \in {1, 3} /\ (b[1] = Slash <=> c = Slash) /\ (c = Slash => Len(b) = 1)
<1>1. CASE IsPlain(c)
  <2>1. b = <<c>> /\ c \notin {Percent, Question, Hash}
    BY <1>1, PlainByte
  <2>2. b \in Seq(Byte) /\ Len(b) = 1 /\ b[1] = c
    BY <2>1
  <2>. QED BY <2>1, <2>2 DEF IsEncoded
<1>2. CASE ~IsPlain(c)
  <2>1. PICK h, l : /\ b = <<Percent, h, l>> /\ h \in Byte /\ l \in Byte /\ IsHex(h) /\ IsHex(l)
                    /\ {h, l} \intersect {Percent, Question, Hash, Slash} = {}
    BY <1>2, EscapedByte
  <2>2. Percent \in Byte /\ Percent \notin {Question, Hash, Slash}
    BY DEF Percent, Question, Hash, Slash, Byte
  <2>3. b \in Seq(Byte) /\ Len(b) = 3 /\ b[1] = Percent /\ b[2] = h /\ b[3] = l
    BY <2>1, <2>2
  <2>4. c # Slash
    BY <1>2 DEF IsPlain
  <2>5. b[1] \notin {Question, Hash, Slash}
    BY <2>2, <2>3
  <2>6. b[2] \notin {Question, Hash, Percent} /\ b[3] \notin {Question, Hash, Percent}
    BY <2>1, <2>3, Zenon
  <2>7. IsHex(b[2]) /\ IsHex(b[3])
    BY <2>1, <2>3
  <2>8. ASSUME NEW i \in 1 .. Len(b)
        PROVE  /\ b[i] \notin {Question, Hash}
               /\ b[i] = Percent => i + 2 <= Len(b) /\ IsHex(b[i + 1]) /\ IsHex(b[i + 2])
    <3>1. CASE i = 1
      <4>1. i + 1 = 2 /\ i + 2 = 3 /\ i + 2 <= Len(b)
        BY <2>3, <3>1
      <4>. QED BY <2>5, <2>7, <3>1, <4>1
    <3>2. CASE i = 2
      BY <2>6, <3>2
    <3>3. CASE i = 3
      BY <2>6, <3>3
    <3>. QED BY <2>3, <3>1, <3>2, <3>3
  <2>9. IsEncoded(b)
    BY <2>3, <2>8 DEF IsEncoded
  <2>. QED BY <2>3, <2>4, <2>5, <2>9
<1>. QED BY <1>1, <1>2

\* Two encoded texts one behind the other are an encoded text.
LEMMA EncodedTogether ==
  ASSUME NEW a, NEW b, IsEncoded(a), IsEncoded(b) PROVE IsEncoded(a \o b)
<1>1. PICK t : t = a \o b
  OBVIOUS
<1>2. a \in Seq(Byte) /\ b \in Seq(Byte) /\ Len(a) \in Nat /\ Len(b) \in Nat
  BY LenProperties DEF IsEncoded
<1>3. /\ t \in Seq(Byte) /\ Len(t) = Len(a) + Len(b)
      /\ \A i \in 1 .. Len(a) : t[i] = a[i]
      /\ \A i \in 1 .. Len(b) : t[Len(a) + i] = b[i]
  BY <1>1, <1>2, Cut
<1>4. ASSUME NEW i \in 1 .. Len(t)
      PROVE  /\ t[i] \notin {Question, Hash}
             /\ t[i] = Percent => i + 2 <= Len(t) /\ IsHex(t[i + 1]) /\ IsHex(t[i + 2])
  <2>1. CASE i <= Len(a)
    <3>1. i \in 1 .. Len(a) /\ t[i] = a[i]
      BY <1>2, <1>3, <2>1
    <3>2. ASSUME t[i] = Percent PROVE i + 2 <= Len(t) /\ IsHex(t[i + 1]) /\ IsHex(t[i + 2])
      <4>1. i + 2 <= Len(a) /\ IsHex(a[i + 1]) /\ IsHex(a[i + 2])
        BY <3>1, <3>2 DEF IsEncoded
      <4>2. i + 1 \in 1 .. Len(a) /\ i + 2 \in 1 .. Len(a) /\ i + 2 <= Len(t)
        BY <1>2, <1>3, <3>1, <4>1
      <4>. QED BY <1>3, <4>1, <4>2
    <3>. QED BY <3>1, <3>2 DEF IsEncoded
  <2>2. CASE i > Len(a)
    <3>1. PICK k \in 1 .. Len(b) : i = Len(a) + k
      <4>1. i - Len(a) \in 1 .. Len(b) /\ i = Len(a) + (i - Len(a))
        BY <1>2, <1>3, <2>2
      <4>. QED BY <4>1
    <3>2. t[i] = b[k]
      BY <1>3, <3>1
    <3>3. ASSUME t[i] = Percent PROVE i + 2 <= Len(t) /\ IsHex(t[i + 1]) /\ IsHex(t[i + 2])
      <4>1. k + 2 <= Len(b) /\ IsHex(b[k + 1]) /\ IsHex(b[k + 2])
        BY <3>2, <3>3 DEF IsEncoded
      <4>2. k + 1 \in 1 .. Len(b) /\ k + 2 \in 1 .. Len(b) /\ i + 2 <= Len(t)
            /\ i + 1 = Len(a) + (k + 1) /\ i + 2 = Len(a) + (k + 2)
        BY <1>2, <1>3, <3>1, <4>1
      <4>3. t[i + 1] = b[k + 1] /\ t[i + 2] = b[k + 2]
        BY <1>3, <4>2
      <4>. QED BY <4>1, <4>2, <4>3
    <3>. QED BY <3>2, <3>3 DEF IsEncoded
  <2>. QED BY <1>2, <1>3, <2>1, <2>2
<1>. QED BY <1>1, <1>3, <1>4 DEF IsEncoded

IsUpTo(f, s, n) == f = [i \in 0 .. n |-> IF i = 0 THEN <<>> ELSE f[i - 1] \o EncodedByte(s[i])]

\* encode is the last text of the function that it defines.
LEMMA EncodeIs == \A s : encode(s) = (CHOOSE f : IsUpTo(f, s, Len(s)))[Len(s)]
BY Zenon DEF encode, IsUpTo

\* There is a function such as encode defines.
LEMMA UpToExists ==
  ASSUME NEW s, NEW n \in Nat PROVE \E f : IsUpTo(f, s, n)
<1>. DEFINE S == {k \in Nat : \E f : IsUpTo(f, s, k)}
<1>1. 0 \in S
  <2>1. PICK f : f = [i \in 0 .. 0 |-> <<>>]
    OBVIOUS
  <2>2. IsUpTo(f, s, 0)
    BY <2>1 DEF IsUpTo
  <2>. QED BY <2>2
<1>2. ASSUME NEW k \in Nat, k \in S PROVE k + 1 \in S
  <2>1. PICK f : IsUpTo(f, s, k)
    BY <1>2
  <2>2. PICK x : x = f[k] \o EncodedByte(s[k + 1])
    OBVIOUS
  <2>3. PICK g : g = [i \in 0 .. k + 1 |-> IF i = k + 1 THEN x ELSE f[i]]
    OBVIOUS
  <2>4. \A i \in 0 .. k : g[i] = f[i]
    BY <2>3
  <2>5. ASSUME NEW i \in 0 .. k + 1
        PROVE  g[i] = IF i = 0 THEN <<>> ELSE g[i - 1] \o EncodedByte(s[i])
    <3>1. CASE i = k + 1
      <4>1. i # 0 /\ i - 1 = k /\ k \in 0 .. k
        BY <3>1
      <4>. QED BY <2>2, <2>3, <2>4, <3>1, <4>1
    <3>2. CASE i # k + 1
      <4>1. i \in 0 .. k /\ (i # 0 => i - 1 \in 0 .. k)
        BY <3>2
      <4>2. f[i] = IF i = 0 THEN <<>> ELSE f[i - 1] \o EncodedByte(s[i])
        BY <2>1, <4>1 DEF IsUpTo
      <4>. QED BY <2>4, <4>1, <4>2
    <3>. QED BY <3>1, <3>2
  <2>6. IsUpTo(g, s, k + 1)
    BY <2>3, <2>5 DEF IsUpTo
  <2>. QED BY <2>6
<1>3. Nat \subseteq S
  <2>. HIDE DEF S
  <2>. QED BY <1>1, <1>2, SetInduction
<1>. QED BY <1>3

\* The text behind each byte.
Steps(f, s) ==
    /\ f[0] = <<>> /\ encode(s) = f[Len(s)]
    /\ \A i \in 1 .. Len(s) : f[i] = f[i - 1] \o EncodedByte(s[i])

\* encode writes byte for byte.
LEMMA EncodeSteps ==
  ASSUME NEW s \in Seq(Byte) PROVE \E f : Steps(f, s)
<1>1. Len(s) \in Nat
  BY LenProperties
<1>2. PICK f : IsUpTo(f, s, Len(s)) /\ encode(s) = f[Len(s)]
  BY <1>1, UpToExists, EncodeIs
<1>3. f[0] = <<>>
  BY <1>1, <1>2 DEF IsUpTo
<1>4. ASSUME NEW i \in 1 .. Len(s) PROVE f[i] = f[i - 1] \o EncodedByte(s[i])
  <2>1. i \in 0 .. Len(s) /\ i # 0
    BY <1>1
  <2>. QED BY <1>2, <2>1 DEF IsUpTo
<1>. QED BY <1>2, <1>3, <1>4 DEF Steps

\* What is written behind each byte is an encoded text.
LEMMA StepsEncoded ==
  ASSUME NEW s \in Seq(Byte), NEW f, Steps(f, s), NEW n \in 0 .. Len(s) PROVE IsEncoded(f[n])
<1>. DEFINE S == {k \in Nat : k <= Len(s) => IsEncoded(f[k])}
<1>1. Len(s) \in Nat
  BY LenProperties
<1>2. 0 \in S
  <2>1. f[0] \in Seq(Byte) /\ Len(f[0]) = 0
    BY EmptySeq DEF Steps
  <2>2. IsEncoded(f[0])
    BY <2>1 DEF IsEncoded
  <2>. QED BY <2>2
<1>3. ASSUME NEW k \in Nat, k \in S PROVE k + 1 \in S
  <2>. SUFFICES ASSUME k + 1 <= Len(s) PROVE IsEncoded(f[k + 1])
    OBVIOUS
  <2>1. PICK i \in 1 .. Len(s) : i = k + 1 /\ i - 1 = k
    BY <1>1
  <2>2. s[i] \in Byte /\ IsEncoded(f[i - 1])
    BY <1>1, <1>3, <2>1, ElementOfSeq
  <2>3. IsEncoded(f[i - 1] \o EncodedByte(s[i]))
    BY <2>2, ByteIsEncoded, EncodedTogether
  <2>. QED BY <2>1, <2>3 DEF Steps
<1>4. Nat \subseteq S
  <2>. HIDE DEF S
  <2>. QED BY <1>2, <1>3, SetInduction
<1>. QED BY <1>1, <1>4

IsPrefixOf(a, b) == Len(a) <= Len(b) /\ \A k \in 1 .. Len(a) : b[k] = a[k]

\* What is written behind a byte stays where it is.
LEMMA StepsArePrefixes ==
  ASSUME NEW s \in Seq(Byte), NEW f, Steps(f, s), NEW n \in 0 .. Len(s) PROVE IsPrefixOf(f[n], encode(s))
<1>. DEFINE S == {d \in Nat : d <= Len(s) => IsPrefixOf(f[Len(s) - d], encode(s))}
<1>1. Len(s) \in Nat
  BY LenProperties
<1>2. 0 \in S
  <2>1. Len(s) - 0 = Len(s) /\ Len(s) \in 0 .. Len(s)
    BY <1>1
  <2>2. f[Len(s)] = encode(s) /\ Len(encode(s)) \in Nat
    <3>1. IsEncoded(f[Len(s)])
      BY <2>1, StepsEncoded
    <3>. QED BY <3>1, LenProperties DEF Steps, IsEncoded
  <2>. QED BY <2>1, <2>2 DEF IsPrefixOf
<1>3. ASSUME NEW d \in Nat, d \in S PROVE d + 1 \in S
  <2>. SUFFICES ASSUME d + 1 <= Len(s) PROVE IsPrefixOf(f[Len(s) - (d + 1)], encode(s))
    OBVIOUS
  <2>0. Len(s) - d \in 1 .. Len(s)
    BY <1>1
  <2>1. PICK i \in 1 .. Len(s) : i = Len(s) - d
    BY <2>0
  <2>a. i - 1 = Len(s) - (d + 1) /\ i \in 0 .. Len(s) /\ i - 1 \in 0 .. Len(s)
    BY <1>1, <2>1
  <2>2. PICK a, b, t : a = f[i - 1] /\ b = EncodedByte(s[i]) /\ t = f[i] /\ t = a \o b
    BY DEF Steps
  <2>3. a \in Seq(Byte) /\ b \in Seq(Byte)
    <3>1. IsEncoded(f[i - 1])
      BY <2>a, StepsEncoded
    <3>2. s[i] \in Byte
      BY ElementOfSeq
    <3>3. IsEncoded(b)
      BY <2>2, <3>2, ByteIsEncoded
    <3>. QED BY <2>2, <3>1, <3>3 DEF IsEncoded
  <2>4. Len(t) = Len(a) + Len(b) /\ (\A k \in 1 .. Len(a) : t[k] = a[k]) /\ Len(a) \in Nat /\ Len(b) \in Nat
    <3>1. Len(a \o b) = Len(a) + Len(b) /\ (\A k \in 1 .. Len(a) : (a \o b)[k] = a[k])
      BY <2>3, Cut
    <3>. QED BY <2>2, <2>3, <3>1, LenProperties
  <2>5. IsPrefixOf(t, encode(s))
    <3>1. d <= Len(s)
      BY <1>1
    <3>2. IsPrefixOf(f[Len(s) - d], encode(s))
      BY <1>3, <3>1
    <3>. QED BY <2>1, <2>2, <3>2
  <2>6. Len(encode(s)) \in Nat
    <3>1. Len(s) \in 0 .. Len(s)
      BY <1>1
    <3>2. IsEncoded(f[Len(s)])
      BY <3>1, StepsEncoded
    <3>. QED BY <3>2, LenProperties DEF Steps, IsEncoded
  <2>7. IsPrefixOf(a, encode(s))
    BY <2>4, <2>5, <2>6 DEF IsPrefixOf
  <2>. QED BY <2>a, <2>2, <2>7
<1>4. Nat \subseteq S
  <2>. HIDE DEF S
  <2>. QED BY <1>2, <1>3, SetInduction
<1>5. PICK d \in Nat : d = Len(s) - n /\ d <= Len(s) /\ Len(s) - d = n
  BY <1>1
<1>. QED BY <1>4, <1>5

\* From behind the p-th byte of e to the q-th, it is b.
Placed(e, p, b, q) ==
    p \in Nat /\ q = p + Len(b) /\ q <= Len(e) /\ \A k \in 1 .. Len(b) : e[p + k] = b[k]

\* Where the byte i is in the encoded text.
LEMMA EncodedAt ==
  ASSUME NEW s \in Seq(Byte), NEW f, Steps(f, s), NEW i \in 1 .. Len(s)
  PROVE  Placed(encode(s), Len(f[i - 1]), EncodedByte(s[i]), Len(f[i]))
<1>0. PICK b, e, p : b = EncodedByte(s[i]) /\ e = encode(s) /\ p = Len(f[i - 1])
  OBVIOUS
<1>1. Len(s) \in Nat /\ i \in 0 .. Len(s) /\ i - 1 \in 0 .. Len(s) /\ Len(s) \in 0 .. Len(s) /\ s[i] \in Byte
  BY LenProperties, ElementOfSeq
<1>2. PICK a, t : a = f[i - 1] /\ t = f[i] /\ t = a \o b
  BY <1>0 DEF Steps
<1>3. a \in Seq(Byte) /\ b \in Seq(Byte) /\ e \in Seq(Byte)
  <2>1. IsEncoded(f[i - 1]) /\ IsEncoded(f[Len(s)])
    BY <1>1, StepsEncoded
  <2>2. IsEncoded(b)
    BY <1>0, <1>1, ByteIsEncoded
  <2>. QED BY <1>0, <1>2, <2>1, <2>2 DEF IsEncoded, Steps
<1>4. /\ Len(t) = Len(a) + Len(b) /\ Len(a) \in Nat /\ Len(b) \in Nat
      /\ \A k \in 1 .. Len(b) : t[Len(a) + k] = b[k]
  <2>1. Len(a \o b) = Len(a) + Len(b) /\ \A k \in 1 .. Len(b) : (a \o b)[Len(a) + k] = b[k]
    BY <1>3, Cut
  <2>. QED BY <1>2, <1>3, <2>1, LenProperties
<1>5. IsPrefixOf(t, e)
  BY <1>0, <1>1, <1>2, StepsArePrefixes
<1>6. ASSUME NEW k \in 1 .. Len(b) PROVE e[p + k] = b[k]
  <2>1. Len(a) + k \in 1 .. Len(t)
    BY <1>4
  <2>. QED BY <1>0, <1>2, <1>4, <1>5, <2>1 DEF IsPrefixOf
<1>7. Placed(e, p, b, Len(t))
  BY <1>0, <1>2, <1>3, <1>4, <1>5, <1>6 DEF IsPrefixOf, Placed
<1>. QED BY <1>0, <1>2, <1>7

\* Where slashes are at the beginning of an encoded text.
LEMMA EncodedHead ==
  ASSUME NEW s \in Seq(Byte), NEW e, e = encode(s)
  PROVE  /\ IsEncoded(e) /\ (e = <<>> <=> s = <<>>)
         /\ s # <<>> => (e[1] = Slash <=> s[1] = Slash)
         /\ HasCharAt(e, 1, Slash) /\ HasCharAt(e, 2, Slash) => HasCharAt(s, 1, Slash) /\ HasCharAt(s, 2, Slash)
<1>1. PICK f : Steps(f, s)
  BY EncodeSteps
<1>2. Len(s) \in Nat /\ DOMAIN s = 1 .. Len(s)
  BY LenProperties
<1>3. IsEncoded(e) /\ e \in Seq(Byte) /\ Len(e) \in Nat /\ DOMAIN e = 1 .. Len(e)
  <2>1. Len(s) \in 0 .. Len(s)
    BY <1>2
  <2>2. IsEncoded(e)
    BY <1>1, <2>1, StepsEncoded DEF Steps
  <2>. QED BY <2>2, LenProperties DEF IsEncoded
<1>4. CASE s = <<>>
  <2>1. Len(s) = 0
    BY <1>4
  <2>2. e = <<>>
    BY <1>1, <2>1 DEF Steps
  <2>3. ~HasCharAt(e, 1, Slash)
    BY <2>2 DEF HasCharAt
  <2>. QED BY <1>3, <1>4, <2>2, <2>3
<1>5. CASE s # <<>>
  <2>1. 1 \in 1 .. Len(s) /\ s[1] \in Byte /\ Len(s) > 0
    BY <1>2, <1>5, ElementOfSeq, EmptySeq
  <2>2. PICK b : b = EncodedByte(s[1])
    OBVIOUS
  <2>3. Len(f[0]) = 0
    BY <1>1 DEF Steps
  <2>4. /\ Len(f[1]) = Len(b) /\ Len(b) <= Len(e) /\ \A k \in 1 .. Len(b) : e[k] = b[k]
        /\ Len(b) \in {1, 3} /\ (b[1] = Slash <=> s[1] = Slash) /\ (s[1] = Slash => Len(b) = 1)
    <3>0. PICK i \in 1 .. Len(s) : i = 1 /\ i - 1 = 0
      BY <2>1
    <3>1. PICK p : p = Len(f[i - 1]) /\ p = 0
      BY <2>3, <3>0
    <3>2. /\ Len(f[i]) = p + Len(b) /\ p + Len(b) <= Len(e)
          /\ \A k \in 1 .. Len(b) : e[p + k] = b[k]
      <4>1. b = EncodedByte(s[i]) /\ p = Len(f[i - 1])
        BY <2>2, <3>0, <3>1
      <4>2. Placed(encode(s), Len(f[i - 1]), EncodedByte(s[i]), Len(f[i]))
        BY <1>1, EncodedAt
      <4>. QED BY <4>1, <4>2 DEF Placed
    <3>3. Len(b) \in {1, 3} /\ (b[1] = Slash <=> s[1] = Slash) /\ (s[1] = Slash => Len(b) = 1)
      BY <2>1, <2>2, ByteIsEncoded
    <3>4. Len(f[1]) = Len(b) /\ Len(b) <= Len(e)
      BY <3>0, <3>1, <3>2, <3>3
    <3>5. ASSUME NEW k \in 1 .. Len(b) PROVE e[k] = b[k]
      <4>1. p + k = k
        BY <3>1, <3>3
      <4>. QED BY <3>2, <4>1
    <3>. QED BY <3>3, <3>4, <3>5
  <2>5. e # <<>> /\ (e[1] = Slash <=> s[1] = Slash)
    <3>1. 1 \in 1 .. Len(b) /\ Len(e) # 0
      BY <1>3, <2>4
    <3>. QED BY <2>4, <3>1
  <2>6. ASSUME HasCharAt(e, 1, Slash), HasCharAt(e, 2, Slash)
        PROVE  HasCharAt(s, 1, Slash) /\ HasCharAt(s, 2, Slash)
    <3>1. s[1] = Slash /\ Len(b) = 1 /\ e[2] = Slash /\ 2 <= Len(e)
      BY <1>3, <2>4, <2>5, <2>6 DEF HasCharAt
    <3>2. Len(s) # 1
      <4>. SUFFICES ASSUME Len(s) = 1 PROVE FALSE
        OBVIOUS
      <4>1. e = f[1]
        BY <1>1 DEF Steps
      <4>. QED BY <2>4, <3>1, <4>1
    <3>3. 2 \in 1 .. Len(s) /\ s[2] \in Byte
      BY <1>2, <2>1, <3>2, ElementOfSeq
    <3>4. PICK c : c = EncodedByte(s[2])
      OBVIOUS
    <3>a. PICK i \in 1 .. Len(s) : i = 2 /\ i - 1 = 1
      BY <3>3
    <3>5. PICK p : p = Len(f[i - 1]) /\ p = 1
      BY <2>4, <3>1, <3>a
    <3>6. \A k \in 1 .. Len(c) : e[p + k] = c[k]
      <4>1. c = EncodedByte(s[i]) /\ p = Len(f[i - 1])
        BY <3>4, <3>5, <3>a
      <4>2. Placed(encode(s), Len(f[i - 1]), EncodedByte(s[i]), Len(f[i]))
        BY <1>1, EncodedAt
      <4>. QED BY <4>1, <4>2 DEF Placed
    <3>7. 1 \in 1 .. Len(c) /\ (c[1] = Slash <=> s[2] = Slash)
      <4>1. Len(c) \in {1, 3} /\ (c[1] = Slash <=> s[2] = Slash)
        BY <3>3, <3>4, ByteIsEncoded
      <4>. QED BY <4>1
    <3>8. s[2] = Slash
      BY <3>1, <3>5, <3>6, <3>7
    <3>. QED BY <1>2, <2>1, <3>1, <3>3, <3>8 DEF HasCharAt
  <2>. QED BY <1>3, <1>5, <2>5, <2>6
<1>. QED BY <1>4, <1>5

-----------------------------------------------------------------------------
(* decode reads what encode wrote. *)

\* The places where escapes start among the first n characters.
StartsAt(f, s, i) ==
    /\ s[i] = Parts!Percent
    /\ i + 2 <= Len(s)
    /\ i = 1 \/ ~f[i - 1]
    /\ i <= 2 \/ ~f[i - 2]
StartsUpTo(f, s, n) == f = [i \in 1 .. n |-> StartsAt(f, s, i)]

\* There is a function such as the escapes of a text are defined by.
LEMMA StartsExist ==
  ASSUME NEW s \in Seq(Byte) PROVE \E f : IsStarts(f, s)
<1>. DEFINE S == {k \in Nat : \E f : StartsUpTo(f, s, k)}
<1>1. 0 \in S
  <2>1. PICK f : f = [i \in 1 .. 0 |-> TRUE]
    OBVIOUS
  <2>2. StartsUpTo(f, s, 0)
    BY <2>1 DEF StartsUpTo
  <2>. QED BY <2>2
<1>2. ASSUME NEW k \in Nat, k \in S PROVE k + 1 \in S
  <2>1. PICK f : StartsUpTo(f, s, k)
    BY <1>2
  <2>2. PICK x : x = StartsAt(f, s, k + 1)
    OBVIOUS
  <2>3. PICK g : g = [i \in 1 .. k + 1 |-> IF i = k + 1 THEN x ELSE f[i]]
    OBVIOUS
  <2>4. \A i \in 1 .. k : g[i] = f[i]
    BY <2>3
  <2>5. ASSUME NEW i \in 1 .. k + 1
        PROVE  g[i] = StartsAt(g, s, i)
    <3>0. (i = 1 \/ i - 1 \in 1 .. k) /\ (i <= 2 \/ i - 2 \in 1 .. k)
      OBVIOUS
    <3>a. (i = 1 \/ g[i - 1] = f[i - 1]) /\ (i <= 2 \/ g[i - 2] = f[i - 2])
      BY <2>4, <3>0
    <3>1. CASE i = k + 1
      <4>1. g[i] = x
        BY <2>3, <3>1
      <4>2. x = StartsAt(f, s, i)
        BY <2>2, <3>1, Zenon
      <4>. QED BY <3>a, <4>1, <4>2, Zenon DEF StartsAt
    <3>2. CASE i # k + 1
      <4>1. i \in 1 .. k
        BY <3>2
      <4>2. f[i] = StartsAt(f, s, i)
        BY <2>1, <4>1, Zenon DEF StartsUpTo
      <4>. QED BY <2>4, <3>a, <4>1, <4>2, Zenon DEF StartsAt
    <3>. QED BY <3>1, <3>2
  <2>6. StartsUpTo(g, s, k + 1)
    <3>1. g = [i \in 1 .. k + 1 |-> g[i]]
      BY <2>3
    <3>. QED BY <2>5, <3>1, Zenon DEF StartsUpTo
  <2>. QED BY <2>6
<1>3. Nat \subseteq S
  <2>. HIDE DEF S
  <2>. QED BY <1>1, <1>2, SetInduction
<1>4. Len(s) \in Nat /\ DOMAIN s = 1 .. Len(s)
  BY LenProperties
<1>5. PICK f : StartsUpTo(f, s, Len(s))
  BY <1>3, <1>4
<1>6. IsStarts(f, s)
  BY <1>4, <1>5, Zenon DEF StartsAt, StartsUpTo, IsStarts
<1>. QED BY <1>6

\* An escape begins with a percent sign.
LEMMA EscapesArePercents ==
  ASSUME NEW s \in Seq(Byte), NEW i \in Parts!Escapes(s)
  PROVE  i \in 1 .. Len(s) /\ s[i] = Percent
<1>1. PICK f : IsStarts(f, s) /\ Parts!Escapes(s) = {k \in DOMAIN s : f[k]}
  BY StartsExist, EscapesIs, Zenon
<1>2. i \in DOMAIN s /\ f[i]
  BY <1>1, Zenon
<1>3. f[i] = StartsAt(f, s, i)
  BY <1>1, <1>2, Zenon DEF IsStarts, StartsAt
<1>4. Parts!Percent = Percent
  BY DEF Parts!Percent, Percent
<1>5. s[i] = Percent
  BY <1>2, <1>3, <1>4, Zenon DEF StartsAt
<1>. QED BY <1>2, <1>5, LenProperties

IsValue(v, d, base) == v = [i \in 0 .. Len(d) |-> IF i = 0 THEN 0 ELSE base * v[i - 1] + HexValue(d[i])]

\* A number is the last value of the function that it defines.
LEMMA NumberIs == \A d, base : Number(d, base) = (CHOOSE v : IsValue(v, d, base))[Len(d)]
BY Zenon DEF Number, IsValue

\* The number that two digits stand for in base 16.
LEMMA NumberOfTwo ==
  ASSUME NEW d, Len(d) = 2, HexValue(d[1]) \in Nat, HexValue(d[2]) \in Nat
  PROVE  Number(d, 16) = 16 * HexValue(d[1]) + HexValue(d[2])
<1>1. PICK a, b : a = HexValue(d[1]) /\ b = HexValue(d[2]) /\ a \in Nat /\ b \in Nat
  OBVIOUS
<1>2. PICK v : v = [i \in 0 .. 2 |-> IF i = 0 THEN 0 ELSE IF i = 1 THEN a ELSE 16 * a + b]
  OBVIOUS
<1>3. v[0] = 0 /\ v[1] = a /\ v[2] = 16 * a + b
  BY <1>2
<1>4. ASSUME NEW i \in 0 .. 2 PROVE v[i] = IF i = 0 THEN 0 ELSE 16 * v[i - 1] + HexValue(d[i])
  <2>1. CASE i = 0
    BY <1>3, <2>1
  <2>2. CASE i = 1
    <3>1. i - 1 = 0 /\ i # 0 /\ 16 * 0 + a = a
      BY <1>1, <2>2
    <3>. QED BY <1>1, <1>3, <2>2, <3>1, Zenon
  <2>3. CASE i = 2
    <3>1. i - 1 = 1 /\ i # 0
      BY <2>3
    <3>. QED BY <1>1, <1>3, <2>3, <3>1, Zenon
  <2>. QED BY <2>1, <2>2, <2>3
<1>5. v = [i \in 0 .. 2 |-> v[i]]
  BY <1>2
<1>6. v = [i \in 0 .. 2 |-> IF i = 0 THEN 0 ELSE 16 * v[i - 1] + HexValue(d[i])]
  BY <1>4, <1>5, Zenon
<1>7. IsValue(v, d, 16)
  BY <1>6, Zenon DEF IsValue
<1>8. PICK w : IsValue(w, d, 16) /\ Number(d, 16) = w[2]
  BY <1>7, NumberIs, Zenon
<1>9. \A i \in 0 .. 2 : w[i] = IF i = 0 THEN 0 ELSE 16 * w[i - 1] + HexValue(d[i])
  BY <1>8, Zenon DEF IsValue
<1>10. w[0] = 0
  BY <1>9
<1>11. w[1] = a
  <2>1. 1 \in 0 .. 2 /\ 1 # 0 /\ 1 - 1 = 0 /\ 16 * 0 + a = a
    BY <1>1
  <2>2. w[1] = 16 * w[1 - 1] + HexValue(d[1])
    BY <1>9, <2>1, Zenon
  <2>. QED BY <1>1, <1>10, <2>1, <2>2, Zenon
<1>12. w[2] = 16 * a + b
  <2>1. 2 \in 0 .. 2 /\ 2 # 0 /\ 2 - 1 = 1
    OBVIOUS
  <2>2. w[2] = 16 * w[2 - 1] + HexValue(d[2])
    BY <1>9, <2>1, Zenon
  <2>. QED BY <1>1, <1>11, <2>1, <2>2, Zenon
<1>. QED BY <1>1, <1>8, <1>12, Zenon

\* What decode makes of the characters from the i-th on.
DecodedFrom(g, t, i) ==
    IF i > Len(t) THEN <<>>
    ELSE IF t[i] = Percent /\ i + 2 <= Len(t)
         THEN <<Number(SubSeq(t, i + 1, i + 2), 16)>> \o g[i + 3]
         ELSE <<t[i]>> \o g[i + 1]
IsFrom(g, t, m) == g = [i \in m .. Len(t) + 1 |-> DecodedFrom(g, t, i)]

EscapesAreDigits(t) == \A i \in Parts!Escapes(t) : IsHex(t[i + 1]) /\ IsHex(t[i + 2])

\* decode, of a text whose escapes are digits, is the first text of the function that it defines.
LEMMA DecodeIs == \A t : EscapesAreDigits(t) => decode(t) = (CHOOSE g : IsFrom(g, t, 1))[1]
BY Zenon DEF decode, IsFrom, DecodedFrom, EscapesAreDigits

\* There is a function such as decode defines.
LEMMA FromExists ==
  ASSUME NEW t \in Seq(Byte) PROVE \E g : IsFrom(g, t, 1)
<1>. DEFINE S == {k \in Nat : k <= Len(t) => \E g : IsFrom(g, t, Len(t) + 1 - k)}
<1>0. Len(t) \in Nat
  BY LenProperties
<1>1. 0 \in S
  <2>1. PICK g : g = [i \in Len(t) + 1 .. Len(t) + 1 |-> <<>>]
    OBVIOUS
  <2>2. \A i \in Len(t) + 1 .. Len(t) + 1 : i > Len(t)
    BY <1>0
  <2>3. g = [i \in Len(t) + 1 .. Len(t) + 1 |-> DecodedFrom(g, t, i)]
    BY <2>1, <2>2 DEF DecodedFrom
  <2>4. Len(t) + 1 - 0 = Len(t) + 1
    BY <1>0
  <2>5. IsFrom(g, t, Len(t) + 1 - 0)
    BY <2>3, <2>4, Zenon DEF IsFrom
  <2>. QED BY <2>5
<1>2. ASSUME NEW k \in Nat, k \in S PROVE k + 1 \in S
  <2>. SUFFICES ASSUME k + 1 <= Len(t) PROVE \E g : IsFrom(g, t, Len(t) + 1 - (k + 1))
    OBVIOUS
  <2>1. k <= Len(t)
    BY <1>0
  <2>2. PICK m : m = Len(t) + 1 - k /\ m \in Nat /\ m - 1 = Len(t) + 1 - (k + 1) /\ m <= Len(t) + 1 /\ m - 1 >= 1
    BY <1>0
  <2>3. PICK f : IsFrom(f, t, m)
    BY <1>2, <2>1, <2>2
  <2>4. PICK x : x = DecodedFrom(f, t, m - 1)
    OBVIOUS
  <2>5. PICK g : g = [i \in m - 1 .. Len(t) + 1 |-> IF i = m - 1 THEN x ELSE f[i]]
    OBVIOUS
  <2>6. \A i \in m .. Len(t) + 1 : g[i] = f[i]
    BY <1>0, <2>2, <2>5
  <2>7. ASSUME NEW i \in m - 1 .. Len(t) + 1 PROVE DecodedFrom(g, t, i) = DecodedFrom(f, t, i)
    <3>1. CASE i > Len(t)
      BY <3>1 DEF DecodedFrom
    <3>2. CASE i <= Len(t)
      <4>1. i + 1 \in m .. Len(t) + 1
        BY <1>0, <2>2, <3>2
      <4>2. i + 2 <= Len(t) => i + 3 \in m .. Len(t) + 1
        BY <1>0, <2>2, <3>2
      <4>3. g[i + 1] = f[i + 1] /\ (i + 2 <= Len(t) => g[i + 3] = f[i + 3])
        BY <2>6, <4>1, <4>2
      <4>. QED BY <4>3, Zenon DEF DecodedFrom
    <3>. QED BY <1>0, <2>2, <3>1, <3>2
  <2>8. ASSUME NEW i \in m - 1 .. Len(t) + 1 PROVE g[i] = DecodedFrom(f, t, i)
    <3>1. CASE i = m - 1
      BY <2>4, <2>5, <3>1
    <3>2. CASE i # m - 1
      <4>1. i \in m .. Len(t) + 1
        BY <1>0, <2>2, <3>2
      <4>2. f[i] = DecodedFrom(f, t, i)
        BY <2>3, <4>1, Zenon DEF IsFrom
      <4>. QED BY <2>6, <4>1, <4>2
    <3>. QED BY <3>1, <3>2
  <2>9. IsFrom(g, t, m - 1)
    <3>1. g = [i \in m - 1 .. Len(t) + 1 |-> g[i]]
      BY <2>5
    <3>2. \A i \in m - 1 .. Len(t) + 1 : g[i] = DecodedFrom(g, t, i)
      BY <2>7, <2>8
    <3>. QED BY <3>1, <3>2, Zenon DEF IsFrom
  <2>. QED BY <2>2, <2>9
<1>3. Nat \subseteq S
  <2>. HIDE DEF S
  <2>. QED BY <1>1, <1>2, SetInduction
<1>4. Len(t) \in S
  BY <1>0, <1>3
<1>5. Len(t) + 1 - Len(t) = 1
  BY <1>0
<1>. QED BY <1>0, <1>4, <1>5

\* The escapes of an encoded text are digits, so that decode does not give it up.
LEMMA EncodedIsDigits ==
  ASSUME NEW t, IsEncoded(t) PROVE EscapesAreDigits(t)
<1>. SUFFICES ASSUME NEW i \in Parts!Escapes(t) PROVE IsHex(t[i + 1]) /\ IsHex(t[i + 2])
  BY DEF EscapesAreDigits
<1>1. i \in 1 .. Len(t) /\ t[i] = Percent
  BY EscapesArePercents DEF IsEncoded
<1>. QED BY <1>1 DEF IsEncoded

\* What is read from where the byte c is written: c, and what is read from behind it.
LEMMA DecodedByte ==
  ASSUME NEW e \in Seq(Byte), NEW c \in Byte, NEW p, NEW q, Placed(e, p, EncodedByte(c), q),
         NEW g, IsFrom(g, e, 1)
  PROVE  g[p + 1] = <<c>> \o g[q + 1]
<1>0. Len(e) \in Nat
  BY LenProperties
<1>1. PICK b : b = EncodedByte(c) /\ p \in Nat /\ q = p + Len(b) /\ q <= Len(e) /\ \A k \in 1 .. Len(b) : e[p + k] = b[k]
  BY DEF Placed
<1>2. CASE IsPlain(c)
  <2>1. b = <<c>> /\ c # Percent
    BY <1>1, <1>2, PlainByte
  <2>2. Len(b) = 1 /\ b[1] = c
    BY <2>1
  <2>3. PICK i : i = p + 1 /\ i = q /\ i \in 1 .. Len(e) /\ i \in 1 .. Len(e) + 1 /\ ~(i > Len(e)) /\ e[i] = c
    BY <1>0, <1>1, <2>2
  <2>4. g[i] = DecodedFrom(g, e, i)
    BY <2>3, Zenon DEF IsFrom
  <2>5. g[i] = <<c>> \o g[i + 1]
    BY <2>1, <2>3, <2>4, Zenon DEF DecodedFrom
  <2>. QED BY <2>3, <2>5
<1>3. CASE ~IsPlain(c)
  <2>1. PICK h, l : h = HexDigit(c \div 16) /\ l = HexDigit(c % 16)
    OBVIOUS
  <2>2. /\ b = <<Percent, h, l>> /\ h \in Byte /\ l \in Byte
        /\ 16 * HexValue(h) + HexValue(l) = c /\ HexValue(h) \in Nat /\ HexValue(l) \in Nat
    BY <1>1, <1>3, <2>1, EscapedByte
  <2>3. Len(b) = 3 /\ b[1] = Percent /\ b[2] = h /\ b[3] = l
    BY <2>2
  <2>4. PICK i : /\ i = p + 1 /\ i \in 1 .. Len(e) /\ i \in 1 .. Len(e) + 1 /\ ~(i > Len(e)) /\ i + 2 <= Len(e)
                 /\ i + 3 = q + 1 /\ i + 1 = p + 2 /\ i + 2 = p + 3
    BY <1>0, <1>1, <2>3
  <2>5. e[i] = Percent /\ e[i + 1] = h /\ e[i + 2] = l
    <3>1. 1 \in 1 .. Len(b) /\ 2 \in 1 .. Len(b) /\ 3 \in 1 .. Len(b)
      BY <2>3
    <3>2. e[p + 1] = b[1] /\ e[p + 2] = b[2] /\ e[p + 3] = b[3]
      BY <1>1, <3>1, Zenon
    <3>. QED BY <2>3, <2>4, <3>2, Zenon
  <2>6. PICK d : d = SubSeq(e, i + 1, i + 2)
    OBVIOUS
  <2>7. Len(d) = 2 /\ d[1] = h /\ d[2] = l
    <3>1. /\ i + 1 \in Int /\ i + 2 \in Int /\ i + 1 <= i + 2 /\ i + 2 - (i + 1) + 1 = 2
          /\ i + 1 + 1 - 1 = i + 1 /\ i + 1 + 2 - 1 = i + 2
      BY <2>4
    <3>2. \A k \in i + 1 .. i + 2 : e[k] \in Byte
      <4>1. \A k \in i + 1 .. i + 2 : k \in 1 .. Len(e)
        BY <1>0, <2>4
      <4>. QED BY <4>1, ElementOfSeq
    <3>3. Len(d) = (IF i + 1 <= i + 2 THEN i + 2 - (i + 1) + 1 ELSE 0)
          /\ \A k \in 1 .. i + 2 - (i + 1) + 1 : d[k] = e[i + 1 + k - 1]
      BY <2>6, <3>1, <3>2, SubSeqProperties
    <3>4. Len(d) = 2 /\ \A k \in 1 .. 2 : d[k] = e[i + 1 + k - 1]
      BY <3>1, <3>3
    <3>5. d[1] = e[i + 1] /\ d[2] = e[i + 2]
      BY <3>1, <3>4
    <3>. QED BY <2>5, <3>4, <3>5
  <2>8. Number(d, 16) = c
    <3>1. Number(d, 16) = 16 * HexValue(d[1]) + HexValue(d[2])
      BY <2>2, <2>7, NumberOfTwo
    <3>. QED BY <2>2, <2>7, <3>1
  <2>9. g[i] = DecodedFrom(g, e, i)
    BY <2>4, Zenon DEF IsFrom
  <2>10. g[i] = <<c>> \o g[i + 3]
    BY <2>4, <2>5, <2>6, <2>8, <2>9, Zenon DEF DecodedFrom
  <2>. QED BY <2>4, <2>10, Zenon
<1>. QED BY <1>2, <1>3

\* A text survives: Uri::decode(Uri::encode(s, "/")) is s.
THEOREM DecodeReadsEncode ==
  ASSUME NEW s \in Seq(Byte) PROVE decode(encode(s)) = s
<1>. DEFINE n == Len(s)
<1>1. n \in Nat
  BY LenProperties
<1>2. PICK f : Steps(f, s)
  BY EncodeSteps
<1>3. PICK e : e = encode(s) /\ e = f[n] /\ IsEncoded(e) /\ e \in Seq(Byte)
  BY <1>2, EncodedHead DEF Steps, IsEncoded
<1>4. PICK g : IsFrom(g, e, 1) /\ decode(e) = g[1]
  BY <1>3, FromExists, DecodeIs, EncodedIsDigits, Zenon
<1>. DEFINE S == {d \in Nat : d <= n => g[Len(f[n - d]) + 1] = SubSeq(s, n - d + 1, n)}
<1>5. 0 \in S
  <2>1. Len(e) \in Nat /\ Len(e) + 1 \in 1 .. Len(e) + 1 /\ Len(e) + 1 > Len(e) /\ n - 0 = n /\ n < n + 1
    BY <1>1, <1>3, LenProperties
  <2>2. g[Len(e) + 1] = DecodedFrom(g, e, Len(e) + 1)
    BY <1>4, <2>1, Zenon DEF IsFrom
  <2>3. g[Len(e) + 1] = <<>>
    BY <2>1, <2>2, Zenon DEF DecodedFrom
  <2>4. SubSeq(s, n + 1, n) = <<>>
    BY <1>1, <2>1, SubSeqEmpty
  <2>. QED BY <1>3, <2>1, <2>3, <2>4
<1>6. ASSUME NEW d \in Nat, d \in S PROVE d + 1 \in S
  <2>. SUFFICES ASSUME d + 1 <= n PROVE g[Len(f[n - (d + 1)]) + 1] = SubSeq(s, n - (d + 1) + 1, n)
    OBVIOUS
  <2>1. PICK i : i = n - d /\ i - 1 = n - (d + 1) /\ i \in 1 .. Len(s) /\ d <= n /\ n \in i .. Len(s) /\ i - 1 + 1 = i
    BY <1>1
  <2>2. s[i] \in Byte
    BY <2>1, ElementOfSeq
  <2>3. Placed(e, Len(f[i - 1]), EncodedByte(s[i]), Len(f[i]))
    BY <1>2, <1>3, <2>1, EncodedAt
  <2>4. g[Len(f[i - 1]) + 1] = <<s[i]>> \o g[Len(f[i]) + 1]
    <3>1. PICK c, p, q : c = s[i] /\ p = Len(f[i - 1]) /\ q = Len(f[i])
      OBVIOUS
    <3>2. g[p + 1] = <<c>> \o g[q + 1]
      <4>1. Placed(e, p, EncodedByte(c), q)
        BY <2>3, <3>1
      <4>2. c \in Byte
        BY <2>2, <3>1
      <4>3. e \in Seq(Byte) /\ IsFrom(g, e, 1)
        BY <1>3, <1>4
      <4>. QED BY <4>1, <4>2, <4>3, DecodedByte
    <3>. QED BY <3>1, <3>2, Zenon
  <2>5. g[Len(f[i]) + 1] = SubSeq(s, i + 1, n)
    BY <1>6, <2>1
  <2>6. SubSeq(s, i, n) = <<s[i]>> \o SubSeq(s, i + 1, n)
    BY <2>1, SubSeqRecursiveFirst
  <2>. QED BY <2>1, <2>4, <2>5, <2>6
<1>7. n \in S
  <2>1. Nat \subseteq S
    <3>. HIDE DEF S
    <3>. QED BY <1>5, <1>6, SetInduction
  <2>. QED BY <1>1, <2>1
<1>8. n - n = 0 /\ 0 + 1 = 1 /\ n <= n
  BY <1>1
<1>9. f[0] = <<>> /\ Len(f[0]) = 0
  BY <1>2 DEF Steps
<1>10. g[1] = SubSeq(s, 1, n)
  BY <1>7, <1>8, <1>9
<1>11. SubSeq(s, 1, n) = s
  BY SubSeqFull
<1>. QED BY <1>3, <1>4, <1>10, <1>11

-----------------------------------------------------------------------------
(* A Uri is its parts. *)

\* The parts of a Uri fit into its lengths, and are what the accessors show.
LEMMA PartsFit ==
  ASSUME NEW u, UriInv(u)
  PROVE  /\ Fits(scheme(u)) /\ Fits(authority(u)) /\ Fits(path(u)) /\ Fits(query(u)) /\ Fits(fragment(u))
         /\ Len(scheme(u)) = u.schemeLen /\ Len(authority(u)) = u.authorityLen /\ Len(path(u)) = u.pathLen
         /\ Len(query(u)) = u.queryLen /\ Len(fragment(u)) = u.fragmentLen
         /\ authorityText(u) = authority(u) /\ queryText(u) = query(u) /\ fragmentText(u) = fragment(u)
<1>1. /\ u.schemeLen \in Lengths /\ u.authorityLen \in Lengths /\ u.pathLen \in Lengths
      /\ u.queryLen \in Lengths /\ u.fragmentLen \in Lengths
      /\ u.hasAuthority \in BOOLEAN /\ u.hasQuery \in BOOLEAN /\ u.hasFragment \in BOOLEAN
      /\ LengthCount \in Nat
  BY UriAssumption DEF UriInv, UriObject
<1>2. \A n \in Lengths : n \in Nat /\ n < LengthCount
  BY <1>1 DEF Lengths
<1>3. ASSUME NEW i, NEW n \in Lengths, HasPart(u.data, i, n), NEW x, x = substr(u.data, i, n)
      PROVE  Fits(x) /\ Len(x) = n /\ (n = 0 => x = <<>>)
  <2>1. x \in Seq(Byte) /\ Len(x) = n
    BY <1>3, PartOfText
  <2>. QED BY <1>2, <2>1 DEF Fits
<1>4. /\ HasPart(u.data, 0, u.schemeLen)
      /\ HasPart(u.data, authorityIdx(u), u.authorityLen)
      /\ HasPart(u.data, pathIdx(u), u.pathLen)
      /\ HasPart(u.data, queryIdx(u), u.queryLen)
      /\ HasPart(u.data, fragmentIdx(u), u.fragmentLen)
  BY Layout
<1>5. Fits(scheme(u)) /\ Len(scheme(u)) = u.schemeLen
  BY <1>1, <1>3, <1>4 DEF scheme
<1>6. Fits(path(u)) /\ Len(path(u)) = u.pathLen
  BY <1>1, <1>3, <1>4 DEF path
<1>7. Fits(authorityText(u)) /\ Len(authorityText(u)) = u.authorityLen /\ authorityText(u) = authority(u)
  <2>1. /\ Fits(authorityText(u)) /\ Len(authorityText(u)) = u.authorityLen
        /\ u.authorityLen = 0 => authorityText(u) = <<>>
    BY <1>1, <1>3, <1>4 DEF authorityText
  <2>2. ~u.hasAuthority => u.authorityLen = 0
    BY DEF UriInv
  <2>. QED BY <2>1, <2>2 DEF authority, authorityText
<1>8. Fits(queryText(u)) /\ Len(queryText(u)) = u.queryLen /\ queryText(u) = query(u)
  <2>1. /\ Fits(queryText(u)) /\ Len(queryText(u)) = u.queryLen
        /\ u.queryLen = 0 => queryText(u) = <<>>
    BY <1>1, <1>3, <1>4 DEF queryText
  <2>2. ~u.hasQuery => u.queryLen = 0
    BY DEF UriInv
  <2>. QED BY <2>1, <2>2 DEF query, queryText
<1>9. Fits(fragmentText(u)) /\ Len(fragmentText(u)) = u.fragmentLen /\ fragmentText(u) = fragment(u)
  <2>1. /\ Fits(fragmentText(u)) /\ Len(fragmentText(u)) = u.fragmentLen
        /\ u.fragmentLen = 0 => fragmentText(u) = <<>>
    BY <1>1, <1>3, <1>4 DEF fragmentText
  <2>2. ~u.hasFragment => u.fragmentLen = 0
    BY DEF UriInv
  <2>. QED BY <2>1, <2>2 DEF fragment, fragmentText
<1>. QED BY <1>5, <1>6, <1>7, <1>8, <1>9

OfParts(p) ==
    [data |-> p.scheme \o p.authority \o p.path \o p.query \o p.fragment,
     schemeLen |-> Len(p.scheme), authorityLen |-> Len(p.authority), pathLen |-> Len(p.path),
     queryLen |-> Len(p.query), fragmentLen |-> Len(p.fragment),
     hasAuthority |-> p.hasAuthority, hasQuery |-> p.hasQuery, hasFragment |-> p.hasFragment]

\* A Uri can be made from its parts.
LEMMA UriOfParts ==
  ASSUME NEW u, UriInv(u) PROVE u = OfParts(PartsOf(u))
<1>1. u = [data |-> u.data, schemeLen |-> u.schemeLen, authorityLen |-> u.authorityLen, pathLen |-> u.pathLen,
           queryLen |-> u.queryLen, fragmentLen |-> u.fragmentLen, hasAuthority |-> u.hasAuthority,
           hasQuery |-> u.hasQuery, hasFragment |-> u.hasFragment]
  BY DEF UriInv, UriObject
<1>2. u.data = scheme(u) \o authority(u) \o path(u) \o query(u) \o fragment(u)
  <2>1. u.data = scheme(u) \o authorityText(u) \o path(u) \o queryText(u) \o fragmentText(u)
    BY InvariantIsConsistent, Zenon DEF Consistent, authorityText, queryText, fragmentText
  <2>. QED BY <2>1, PartsFit
<1>3. /\ Len(scheme(u)) = u.schemeLen /\ Len(authority(u)) = u.authorityLen /\ Len(path(u)) = u.pathLen
      /\ Len(query(u)) = u.queryLen /\ Len(fragment(u)) = u.fragmentLen
  BY PartsFit
<1>4. PICK p : p = PartsOf(u)
  OBVIOUS
<1>5. /\ p.scheme = scheme(u) /\ p.authority = authority(u) /\ p.path = path(u)
      /\ p.query = query(u) /\ p.fragment = fragment(u)
  BY <1>4 DEF PartsOf
<1>6. p.hasAuthority = u.hasAuthority /\ p.hasQuery = u.hasQuery /\ p.hasFragment = u.hasFragment
  BY <1>4, Zenon DEF PartsOf
<1>7. u = OfParts(p)
  BY <1>1, <1>2, <1>3, <1>5, <1>6, Zenon DEF OfParts
<1>. QED BY <1>4, <1>7

\* Two objects with the same parts are the same object.
THEOREM UriIsDetermined ==
  ASSUME NEW u, NEW v, UriInv(u), UriInv(v), PartsOf(u) = PartsOf(v) PROVE u = v
BY UriOfParts, Zenon

-----------------------------------------------------------------------------
(* parse, from the last part to the first. *)

IsCut(t, m, n, a, b) == SubSeq(t, m + 1, m + n) = a /\ From(t, m + n + 1) = b /\ From(t, m + 1) = a \o b

\* A text between two others.
LEMMA CutMiddle ==
  ASSUME NEW x \in Seq(Byte), NEW a \in Seq(Byte), NEW b \in Seq(Byte)
  PROVE  IsCut((x \o a) \o b, Len(x), Len(a), a, b)
<1>a. PICK t, m, n : t = (x \o a) \o b /\ m = Len(x) /\ n = Len(a)
  OBVIOUS
<1>0. m \in Nat /\ n \in Nat
  BY <1>a, LenProperties
<1>1. PICK xa : xa = x \o a /\ xa \in Seq(Byte) /\ Len(xa) = m + n
  BY <1>a, Cut
<1>2. t = xa \o b
  BY <1>a, <1>1
<1>3. From(t, m + n + 1) = b
  <2>1. From(xa \o b, Len(xa) + 1) = b
    BY <1>1, Cut
  <2>. QED BY <1>1, <1>2, <2>1
<1>4. PICK ab : ab = a \o b /\ ab \in Seq(Byte) /\ SubSeq(ab, 1, Len(a)) = a /\ Len(ab) = n + Len(b) /\ Len(b) \in Nat
  BY <1>a, Cut, LenProperties
<1>5. t = x \o ab
  <2>1. (x \o a) \o b = x \o (a \o b)
    BY ConcatAssociative
  <2>. QED BY <2>1, <1>a, <1>4
<1>6. From(t, m + 1) = ab
  <2>1. From(x \o ab, Len(x) + 1) = ab
    BY <1>4, Cut
  <2>. QED BY <1>a, <1>5, <2>1
<1>7. t \in Seq(Byte) /\ Len(t) = m + Len(ab)
  <2>1. x \o ab \in Seq(Byte) /\ Len(x \o ab) = Len(x) + Len(ab)
    BY <1>4, Cut
  <2>. QED BY <1>a, <1>5, <2>1
<1>8. Agree(t, m, ab, 0, Len(ab))
  <2>1. Agree(x \o ab, Len(x), ab, 0, Len(ab))
    BY <1>4, TwoTexts
  <2>. QED BY <1>a, <1>5, <2>1
<1>9. Agree(t, m, ab, 0, n) /\ HasPart(t, m, n) /\ HasPart(ab, 0, n)
  BY <1>0, <1>4, <1>7, <1>8 DEF Agree, HasPart
<1>10. substr(t, m, n) = substr(ab, 0, n)
  BY <1>9, SameParts
<1>11. SubSeq(t, m + 1, m + n) = a
  BY <1>0, <1>a, <1>4, <1>10, 0 + 1 = 1, 0 + n = n DEF substr
<1>12. IsCut(t, m, n, a, b)
  BY <1>3, <1>4, <1>6, <1>11 DEF IsCut
<1>. QED BY <1>a, <1>12

\* A part with the character that announces it, if it is there.
Marked(has, c, s) == IF has THEN <<c>> \o s ELSE <<>>

\* A part that is announced.
LEMMA MarkedText ==
  ASSUME NEW has \in BOOLEAN, NEW c \in Byte, NEW s \in Seq(Byte), NEW t, t = Marked(has, c, s)
  PROVE  /\ t \in Seq(Byte)
         /\ has => t # <<>> /\ t[1] = c /\ HasCharAt(t, 1, c) /\ Tail(t) = s /\ t = <<c>> \o s
         /\ ~has => t = <<>>
<1>1. CASE has
  <2>1. t = <<c>> \o s
    BY <1>1 DEF Marked
  <2>2. t \in Seq(Byte) /\ Len(t) = 1 + Len(s) /\ t # <<>> /\ t[1] = c /\ Tail(t) = s
    BY <2>1, OneMore
  <2>3. 1 \in DOMAIN t
    BY <2>2, LenProperties
  <2>. QED BY <1>1, <2>1, <2>2, <2>3 DEF HasCharAt
<1>2. CASE ~has
  BY <1>2, EmptySeq DEF Marked
<1>. QED BY <1>1, <1>2

IsUri(u, s, a, p, q, f, hasA, hasQ, hasF) ==
    UriInv(u) /\ PartsOf(u) = PartsRecord(s, a, p, q, f, hasA, hasQ, hasF)

\* parse reads the fragment.
LEMMA FragmentRead ==
  ASSUME NEW s, NEW a, NEW p, NEW q, NEW f, NEW hasA, NEW hasQ, NEW hasF \in BOOLEAN,
         NEW u, IsUri(u, s, a, p, q, <<>>, hasA, hasQ, FALSE),
         Fits(f), Parts!UpperEscapes(f) = f, hasF \/ f = <<>>, NEW t, t = Marked(hasF, Hash, f)
  PROVE  IsUri(WithFragment(u, t), s, a, p, q, f, hasA, hasQ, hasF)
<1>1. Hash \in Byte /\ f \in Seq(Byte)
  BY DEF Hash, Byte, Fits
<1>2. CASE hasF
  <2>1. HasCharAt(t, 1, Hash) /\ Tail(t) = f
    BY <1>1, <1>2, MarkedText
  <2>2. PICK v : v = insertFragment(u, f) /\ v = WithFragment(u, t)
    BY <2>1 DEF WithFragment
  <2>3. UriInv(v) /\ PartsOf(v) = fragmentSet(PartsOf(u), f, TRUE)
    <3>1. UriInv(v) /\ PartsOf(v) = [PartsOf(u) EXCEPT !.fragment = Parts!UpperEscapes(f), !.hasFragment = TRUE]
      BY <2>2, InsertFragment, Zenon DEF IsUri
    <3>. QED BY <3>1, Zenon DEF fragmentSet
  <2>4. PartsOf(v) = PartsRecord(s, a, p, q, f, hasA, hasQ, TRUE)
    <3>1. fragmentSet(PartsRecord(s, a, p, q, <<>>, hasA, hasQ, FALSE), f, TRUE)
            = PartsRecord(s, a, p, q, f, hasA, hasQ, TRUE)
      <4>1. PICK e, y, n : e = <<>> /\ y = TRUE /\ n = FALSE
        OBVIOUS
      <4>2. fragmentSet(PartsRecord(s, a, p, q, e, hasA, hasQ, n), f, y) = PartsRecord(s, a, p, q, f, hasA, hasQ, y)
        BY ChangedFragment, SMT
      <4>. QED BY <4>1, <4>2, Zenon
    <3>. QED BY <2>3, <3>1, Zenon DEF IsUri
  <2>. QED BY <1>2, <2>2, <2>3, <2>4 DEF IsUri
<1>3. CASE ~hasF
  <2>1. t = <<>> /\ f = <<>> /\ hasF = FALSE
    BY <1>1, <1>3, MarkedText
  <2>2. ~HasCharAt(t, 1, Hash)
    BY <2>1 DEF HasCharAt
  <2>. QED BY <2>1, <2>2 DEF WithFragment
<1>. QED BY <1>2, <1>3

\* What follows the path: it is empty, or a character that ends the path is first.
Behind(hasQ, q, hasF, f) == Marked(hasQ, Question, q) \o Marked(hasF, Hash, f)

\* What follows the path begins with a character that ends the path, and it is empty only if
\* nothing follows.
LEMMA BehindText ==
  ASSUME NEW q \in Seq(Byte), NEW f \in Seq(Byte), NEW hasQ \in BOOLEAN, NEW hasF \in BOOLEAN,
         NEW t, t = Behind(hasQ, q, hasF, f)
  PROVE  /\ t \in Seq(Byte) /\ (t = <<>> \/ t[1] \in {Question, Hash})
         /\ t = <<>> <=> ~hasQ /\ ~hasF
         /\ ~hasQ => t = Marked(hasF, Hash, f) /\ ~HasCharAt(t, 1, Question)
<1>1. Question \in Byte /\ Hash \in Byte /\ Question # Hash
  BY DEF Question, Hash, Byte
<1>2. PICK y : y = Marked(hasF, Hash, f) /\ y \in Seq(Byte)
  BY <1>1, MarkedText
<1>3. (hasF => y # <<>> /\ y[1] = Hash) /\ (~hasF => y = <<>>)
  BY <1>1, <1>2, MarkedText
<1>4. CASE hasQ
  <2>1. PICK x : x = Marked(hasQ, Question, q) /\ x = <<Question>> \o q /\ x \in Seq(Byte)
    BY <1>1, <1>4, MarkedText
  <2>2. x = <<Question>> \o q /\ t = x \o y
    BY <1>2, <2>1 DEF Behind
  <2>3. t \in Seq(Byte) /\ Len(t) = Len(x) + Len(y) /\ \A i \in 1 .. Len(x) : t[i] = x[i]
    <3>1. x \o y \in Seq(Byte) /\ Len(x \o y) = Len(x) + Len(y) /\ \A i \in 1 .. Len(x) : (x \o y)[i] = x[i]
      BY <1>2, <2>1, Cut
    <3>. QED BY <2>2, <3>1
  <2>4. Len(x) = 1 + Len(q) /\ x[1] = Question /\ Len(q) \in Nat /\ Len(y) \in Nat
    BY <1>1, <1>2, <2>2, OneMore, LenProperties
  <2>5. t[1] = Question /\ t # <<>>
    <3>1. 1 \in 1 .. Len(x) /\ Len(t) # 0
      BY <2>3, <2>4
    <3>. QED BY <2>3, <2>4, <3>1
  <2>. QED BY <1>4, <2>3, <2>5
<1>5. CASE ~hasQ
  <2>1. Marked(hasQ, Question, q) = <<>>
    BY <1>5 DEF Marked
  <2>2. t = y
    BY <1>2, <2>1, ConcatEmptySeq DEF Behind
  <2>3. ~HasCharAt(t, 1, Question)
    BY <1>1, <1>3, <2>2 DEF HasCharAt
  <2>. QED BY <1>2, <1>3, <1>5, <2>2, <2>3
<1>. QED BY <1>4, <1>5

\* parse reads the query, and what is behind it.
LEMMA QueryRead ==
  ASSUME NEW s, NEW a, NEW p, NEW q, NEW f, NEW hasA, NEW hasQ \in BOOLEAN, NEW hasF \in BOOLEAN,
         NEW u, IsUri(u, s, a, p, <<>>, <<>>, hasA, FALSE, FALSE),
         Fits(q), Parts!UpperEscapes(q) = q, hasQ \/ q = <<>>, Parts!IsText(q, "query"),
         Fits(f), Parts!UpperEscapes(f) = f, hasF \/ f = <<>>, NEW t, t = Behind(hasQ, q, hasF, f)
  PROVE  IsUri(WithQuery(u, t), s, a, p, q, f, hasA, hasQ, hasF)
<1>1. Question \in Byte /\ Hash \in Byte /\ q \in Seq(Byte) /\ f \in Seq(Byte)
  BY DEF Question, Hash, Byte, Fits
<1>2. PICK y : y = Marked(hasF, Hash, f) /\ y \in Seq(Byte) /\ (y = <<>> \/ y[1] \in {Hash})
  <2>1. PICK y : y = Marked(hasF, Hash, f)
    OBVIOUS
  <2>2. y \in Seq(Byte) /\ (hasF => y[1] = Hash) /\ (~hasF => y = <<>>)
    BY <1>1, <2>1, MarkedText
  <2>. QED BY <2>1, <2>2
<1>3. CASE hasQ
  <2>0. <<Question>> \in Seq(Byte) /\ Len(<<Question>>) = 1
    BY <1>1
  <2>1. PICK x \in Seq(Byte) : x = <<Question>> /\ Len(x) = 1
    BY <2>0
  <2>2. t = (x \o q) \o y
    BY <1>2, <1>3, <2>1 DEF Behind, Marked
  <2>3. PICK n : n = Len(q) /\ n \in Nat
    BY <1>1, LenProperties
  <2>4. SubSeq(t, 1 + 1, 1 + n) = q /\ From(t, 1 + n + 1) = y /\ From(t, 1 + 1) = q \o y
    <3>1. IsCut((x \o q) \o y, Len(x), Len(q), q, y)
      BY <1>1, <1>2, <2>1, CutMiddle
    <3>. QED BY <2>1, <2>2, <2>3, <3>1, Zenon DEF IsCut
  <2>5. 1 + 1 = 2 /\ 1 + n = n + 1 /\ 1 + n + 1 = n + 2
    BY <2>3
  <2>6. t = x \o (q \o y) /\ q \o y \in Seq(Byte)
    BY <1>1, <1>2, <2>1, <2>2, ConcatAssociative, Cut
  <2>7. PICK r : r = q \o y /\ r \in Seq(Byte) /\ t = <<Question>> \o r
    BY <2>1, <2>6
  <2>8. t \in Seq(Byte) /\ Len(t) = 1 + Len(r) /\ t[1] = Question /\ Tail(t) = q \o y
    BY <1>1, <2>7, OneMore
  <2>9. HasCharAt(t, 1, Question)
    <3>1. 1 \in 1 .. Len(t) /\ DOMAIN t = 1 .. Len(t)
      BY <2>7, <2>8, LenProperties
    <3>. QED BY <2>8, <3>1 DEF HasCharAt
  <2>10. Until(Tail(t), {Hash}) = n
    <3>1. \A i \in 1 .. Len(q) : q[i] \notin {Hash}
      <4>1. DOMAIN q = 1 .. Len(q)
        BY <1>1, LenProperties
      <4>. QED BY <4>1, Zenon DEF Parts!IsText, Parts!Delimiters, Parts!Hash, Hash
    <3>2. Until(q \o y, {Hash}) = Len(q)
      BY <1>1, <1>2, <3>1, UntilIs DEF Fits
    <3>. QED BY <2>3, <2>8, <3>2
  <2>11. PICK v : v = insertQuery(u, q)
    OBVIOUS
  <2>12. WithQuery(u, t) = WithFragment(v, y)
    BY <2>4, <2>5, <2>9, <2>10, <2>11, Zenon DEF WithQuery
  <2>13. UriInv(v) /\ PartsOf(v) = querySet(PartsOf(u), q, TRUE)
    <3>1. UriInv(v) /\ PartsOf(v) = [PartsOf(u) EXCEPT !.query = Parts!UpperEscapes(q), !.hasQuery = TRUE]
      BY <2>11, InsertQuery, Zenon DEF IsUri
    <3>. QED BY <3>1, Zenon DEF querySet
  <2>14. PartsOf(v) = PartsRecord(s, a, p, q, <<>>, hasA, TRUE, FALSE)
    <3>1. querySet(PartsRecord(s, a, p, <<>>, <<>>, hasA, FALSE, FALSE), q, TRUE)
            = PartsRecord(s, a, p, q, <<>>, hasA, TRUE, FALSE)
      <4>1. PICK e, z, no : e = <<>> /\ z = TRUE /\ no = FALSE
        OBVIOUS
      <4>2. querySet(PartsRecord(s, a, p, e, e, hasA, no, no), q, z) = PartsRecord(s, a, p, q, e, hasA, z, no)
        BY ChangedQuery, SMT
      <4>. QED BY <4>1, <4>2, Zenon
    <3>. QED BY <2>13, <3>1, Zenon DEF IsUri
  <2>15. IsUri(v, s, a, p, q, <<>>, hasA, TRUE, FALSE)
    BY <2>13, <2>14 DEF IsUri
  <2>16. IsUri(WithFragment(v, y), s, a, p, q, f, hasA, TRUE, hasF)
    BY <1>2, <2>15, FragmentRead
  <2>17. hasQ = TRUE
    BY <1>3
  <2>. QED BY <2>12, <2>16, <2>17
<1>4. CASE ~hasQ
  <2>1. t = y /\ ~HasCharAt(t, 1, Question)
    BY <1>1, <1>2, <1>4, BehindText
  <2>2. WithQuery(u, t) = WithFragment(u, y)
    BY <2>1, Zenon DEF WithQuery
  <2>3. q = <<>> /\ hasQ = FALSE
    BY <1>4
  <2>4. IsUri(u, s, a, p, q, <<>>, hasA, hasQ, FALSE)
    BY <2>3
  <2>5. IsUri(WithFragment(u, y), s, a, p, q, f, hasA, hasQ, hasF)
    BY <1>2, <2>4, FragmentRead
  <2>. QED BY <2>2, <2>5
<1>. QED BY <1>3, <1>4

Associates(a, b, c) == (a \o b) \o c = a \o (b \o c)

\* Texts one behind the other.
LEMMA Associate ==
  ASSUME NEW a, NEW b, NEW c, a \in Seq(Byte), b \in Seq(Byte), c \in Seq(Byte) PROVE Associates(a, b, c)
BY ConcatAssociative DEF Associates

LegalQuery(has, q) ==
    Fits(q) /\ Parts!UpperEscapes(q) = q /\ (has \/ q = <<>>) /\ Parts!IsText(q, "query") /\ has \in BOOLEAN
LegalFragment(has, f) ==
    Fits(f) /\ Parts!UpperEscapes(f) = f /\ (has \/ f = <<>>) /\ has \in BOOLEAN

\* parse reads the path, and what is behind it.
LEMMA PathRead ==
  ASSUME NEW s, NEW a, NEW p, NEW q, NEW f, NEW hasA, NEW hasQ, NEW hasF,
         NEW u, IsUri(u, s, a, <<>>, <<>>, <<>>, hasA, FALSE, FALSE),
         Fits(p), Len(encode(p)) < LengthCount, LegalQuery(hasQ, q), LegalFragment(hasF, f)
  PROVE  IsUri(WithPath(u, encode(p) \o Behind(hasQ, q, hasF, f)), s, a, p, q, f, hasA, hasQ, hasF)
<1>1. p \in Seq(Byte) /\ q \in Seq(Byte) /\ f \in Seq(Byte) /\ hasQ \in BOOLEAN /\ hasF \in BOOLEAN
  BY DEF Fits, LegalQuery, LegalFragment
<1>2. PICK e : e = encode(p) /\ IsEncoded(e) /\ (e = <<>> <=> p = <<>>) /\ decode(e) = p
  BY <1>1, EncodedHead, DecodeReadsEncode
<1>3. PICK y : /\ y = Behind(hasQ, q, hasF, f) /\ y \in Seq(Byte)
               /\ y = <<>> \/ y[1] \in {Question, Hash}
               /\ y = <<>> <=> ~hasQ /\ ~hasF
  <2>1. PICK y : y = Behind(hasQ, q, hasF, f)
    OBVIOUS
  <2>2. /\ y \in Seq(Byte) /\ (y = <<>> \/ y[1] \in {Question, Hash})
        /\ y = <<>> <=> ~hasQ /\ ~hasF
    BY <1>1, <2>1, BehindText
  <2>. QED BY <2>1, <2>2
<1>4. PICK t : t = e \o y
  OBVIOUS
<1>5. e \in Seq(Byte) /\ Len(e) \in Nat /\ Len(y) \in Nat
  BY <1>2, <1>3, LenProperties DEF IsEncoded
<1>6. CASE t = <<>>
  <2>1. e = <<>> /\ y = <<>>
    <3>1. Len(e \o y) = Len(e) + Len(y)
      BY <1>3, <1>5, Cut
    <3>2. Len(e) = 0 /\ Len(y) = 0
      BY <1>4, <1>5, <1>6, <3>1
    <3>. QED BY <1>3, <1>5, <3>2
  <2>2. p = <<>> /\ hasQ = FALSE /\ hasF = FALSE
    BY <1>1, <1>2, <1>3, <2>1
  <2>3. q = <<>> /\ f = <<>>
    BY <2>2 DEF LegalQuery, LegalFragment
  <2>4. WithPath(u, t) = u
    BY <1>6, Zenon DEF WithPath
  <2>5. IsUri(u, s, a, p, q, f, hasA, hasQ, hasF)
    BY <2>2, <2>3, Zenon
  <2>. QED BY <1>2, <1>3, <1>4, <2>4, <2>5, Zenon
<1>7. CASE t # <<>>
  <2>1. Until(t, {Question, Hash}) = Len(e)
    <3>1. \A i \in 1 .. Len(e) : e[i] \notin {Question, Hash}
      BY <1>2 DEF IsEncoded
    <3>2. Until(e \o y, {Question, Hash}) = Len(e)
      BY <1>2, <1>3, <1>5, <3>1, UntilIs
    <3>. QED BY <1>4, <3>2
  <2>2. SubSeq(t, 1, Len(e)) = e /\ From(t, Len(e) + 1) = y
    <3>1. SubSeq(e \o y, 1, Len(e)) = e /\ From(e \o y, Len(e) + 1) = y
      BY <1>3, <1>5, Cut
    <3>. QED BY <1>4, <3>1
  <2>3. PICK v : v = insertPath(u, p)
    OBVIOUS
  <2>4. WithPath(u, t) = WithQuery(v, y)
    BY <1>2, <1>7, <2>1, <2>2, <2>3, Zenon DEF WithPath
  <2>5. UriInv(v) /\ PartsOf(v) = pathSet(PartsOf(u), p)
    <3>1. UriInv(v) /\ PartsOf(v) = [PartsOf(u) EXCEPT !.path = p]
      BY <2>3, InsertPath, Zenon DEF IsUri
    <3>. QED BY <3>1, Zenon DEF pathSet
  <2>6. PartsOf(v) = PartsRecord(s, a, p, <<>>, <<>>, hasA, FALSE, FALSE)
    <3>1. PICK x, n : x = <<>> /\ n = FALSE
      OBVIOUS
    <3>2. pathSet(PartsRecord(s, a, x, x, x, hasA, n, n), p) = PartsRecord(s, a, p, x, x, hasA, n, n)
      BY ChangedPath, SMT
    <3>. QED BY <2>5, <3>1, <3>2, Zenon DEF IsUri
  <2>7. IsUri(v, s, a, p, <<>>, <<>>, hasA, FALSE, FALSE)
    BY <2>5, <2>6 DEF IsUri
  <2>8. IsUri(WithQuery(v, y), s, a, p, q, f, hasA, hasQ, hasF)
    BY <1>3, <2>7, QueryRead DEF LegalQuery, LegalFragment
  <2>. QED BY <1>2, <1>3, <1>4, <2>4, <2>8, Zenon
<1>. QED BY <1>6, <1>7

LegalAuthority(has, a) ==
    Fits(a) /\ Parts!UpperEscapes(a) = a /\ (has \/ a = <<>>) /\ Parts!IsText(a, "authority") /\ has \in BOOLEAN

\* parse takes the path, and what is behind it, for what they are.
IsClear(hasA, p, y) ==
    IF hasA THEN IF p = <<>> THEN y = <<>> ELSE Head(p) = Slash
            ELSE ~(HasCharAt(p, 1, Slash) /\ HasCharAt(p, 2, Slash))

\* What is behind the authority.
LEMMA RestIsClear ==
  ASSUME NEW hasA, NEW p \in Seq(Byte), NEW y \in Seq(Byte), y = <<>> \/ y[1] \in {Question, Hash}, IsClear(hasA, p, y),
         NEW r, r = encode(p) \o y
  PROVE  /\ r \in Seq(Byte)
         /\ hasA => r = <<>> \/ r[1] = Slash
         /\ ~hasA => ~(HasCharAt(r, 1, Slash) /\ HasCharAt(r, 2, Slash))
<1>1. PICK e : e = encode(p) /\ IsEncoded(e) /\ (e = <<>> <=> p = <<>>) /\ (p # <<>> => (e[1] = Slash <=> p[1] = Slash))
               /\ (HasCharAt(e, 1, Slash) /\ HasCharAt(e, 2, Slash) => HasCharAt(p, 1, Slash) /\ HasCharAt(p, 2, Slash))
  BY EncodedHead
<1>2. e \in Seq(Byte) /\ Len(e) \in Nat /\ Len(y) \in Nat /\ DOMAIN e = 1 .. Len(e) /\ DOMAIN y = 1 .. Len(y)
  BY <1>1, LenProperties DEF IsEncoded
<1>3. /\ r \in Seq(Byte) /\ Len(r) = Len(e) + Len(y)
      /\ \A i \in 1 .. Len(e) : r[i] = e[i]
      /\ \A i \in 1 .. Len(y) : r[Len(e) + i] = y[i]
  <2>1. /\ e \o y \in Seq(Byte) /\ Len(e \o y) = Len(e) + Len(y)
        /\ \A i \in 1 .. Len(e) : (e \o y)[i] = e[i]
        /\ \A i \in 1 .. Len(y) : (e \o y)[Len(e) + i] = y[i]
    BY <1>2, Cut
  <2>. QED BY <1>1, <2>1
<1>4. DOMAIN r = 1 .. Len(r)
  BY <1>3, LenProperties
<1>5. 1 \in 1 .. Len(y) => y[1] # Slash
  <2>1. 1 \in 1 .. Len(y) => y # <<>>
    BY <1>2
  <2>. QED BY <2>1 DEF Question, Hash, Slash
<1>6. ASSUME hasA PROVE r = <<>> \/ r[1] = Slash
  <2>1. CASE p = <<>>
    <3>1. e = <<>> /\ y = <<>>
      BY <1>1, <1>6, <2>1 DEF IsClear
    <3>. QED BY <1>1, <3>1
  <2>2. CASE p # <<>>
    <3>1. p[1] = Slash
      BY <1>6, <2>2 DEF IsClear
    <3>2. e[1] = Slash /\ 1 \in 1 .. Len(e)
      BY <1>1, <1>2, <2>2, <3>1, EmptySeq
    <3>. QED BY <1>3, <3>2
  <2>. QED BY <2>1, <2>2
<1>7. ASSUME ~hasA, HasCharAt(r, 1, Slash), HasCharAt(r, 2, Slash) PROVE FALSE
  <2>1. r[1] = Slash /\ r[2] = Slash /\ 1 \in 1 .. Len(r) /\ 2 \in 1 .. Len(r)
    BY <1>4, <1>7 DEF HasCharAt
  <2>2. Len(e) # 0
    <3>. SUFFICES ASSUME Len(e) = 0 PROVE FALSE
      OBVIOUS
    <3>1. 1 \in 1 .. Len(y) /\ Len(e) + 1 = 1
      BY <1>2, <1>3, <2>1
    <3>. QED BY <1>3, <1>5, <2>1, <3>1
  <2>3. Len(e) # 1
    <3>. SUFFICES ASSUME Len(e) = 1 PROVE FALSE
      OBVIOUS
    <3>1. 1 \in 1 .. Len(y) /\ Len(e) + 1 = 2
      BY <1>2, <1>3, <2>1
    <3>. QED BY <1>3, <1>5, <2>1, <3>1
  <2>4. 1 \in 1 .. Len(e) /\ 2 \in 1 .. Len(e)
    BY <1>2, <2>2, <2>3
  <2>5. e[1] = Slash /\ e[2] = Slash
    BY <1>3, <2>1, <2>4
  <2>6. HasCharAt(p, 1, Slash) /\ HasCharAt(p, 2, Slash)
    BY <1>1, <1>2, <2>4, <2>5 DEF HasCharAt
  <2>. QED BY <1>7, <2>6 DEF IsClear
<1>. QED BY <1>3, <1>6, <1>7

\* parse reads the authority, and what is behind it.
LEMMA AuthorityRead ==
  ASSUME NEW s, NEW a, NEW p, NEW q, NEW f, NEW hasA, NEW hasQ, NEW hasF,
         NEW u, IsUri(u, s, <<>>, <<>>, <<>>, <<>>, FALSE, FALSE, FALSE),
         LegalAuthority(hasA, a), Fits(p), Len(encode(p)) < LengthCount,
         LegalQuery(hasQ, q), LegalFragment(hasF, f),
         IsClear(hasA, p, Behind(hasQ, q, hasF, f))
  PROVE  IsUri(WithAuthority(u, (IF hasA THEN <<Slash, Slash>> \o a ELSE <<>>)
                                  \o (encode(p) \o Behind(hasQ, q, hasF, f))),
               s, a, p, q, f, hasA, hasQ, hasF)
<1>1. /\ a \in Seq(Byte) /\ p \in Seq(Byte) /\ q \in Seq(Byte) /\ f \in Seq(Byte)
      /\ hasA \in BOOLEAN /\ hasQ \in BOOLEAN /\ hasF \in BOOLEAN
  BY DEF Fits, LegalAuthority, LegalQuery, LegalFragment
<1>2. PICK y : y = Behind(hasQ, q, hasF, f) /\ y \in Seq(Byte) /\ (y = <<>> \/ y[1] \in {Question, Hash})
  BY <1>1, BehindText
<1>3. PICK r : /\ r = encode(p) \o y /\ r \in Seq(Byte)
               /\ hasA => r = <<>> \/ r[1] = Slash
               /\ ~hasA => ~(HasCharAt(r, 1, Slash) /\ HasCharAt(r, 2, Slash))
  <2>1. IsClear(hasA, p, y)
    BY <1>2
  <2>. QED BY <1>1, <1>2, <2>1, RestIsClear
<1>4. CASE hasA
  <2>1. <<Slash, Slash>> \in Seq(Byte) /\ Len(<<Slash, Slash>>) = 2 /\ <<Slash, Slash>>[1] = Slash /\ <<Slash, Slash>>[2] = Slash
    BY DEF Slash, Byte
  <2>2. PICK x \in Seq(Byte) : x = <<Slash, Slash>> /\ Len(x) = 2 /\ x[1] = Slash /\ x[2] = Slash
    BY <2>1
  <2>3. PICK t : t = (x \o a) \o r
    OBVIOUS
  <2>4. PICK n : n = Len(a) /\ n \in Nat
    BY <1>1, LenProperties
  <2>5. SubSeq(t, 2 + 1, 2 + n) = a /\ From(t, 2 + n + 1) = r /\ From(t, 2 + 1) = a \o r
    <3>1. IsCut((x \o a) \o r, Len(x), Len(a), a, r)
      BY <1>1, <1>3, <2>2, CutMiddle
    <3>. QED BY <2>2, <2>3, <2>4, <3>1, Zenon DEF IsCut
  <2>6. 2 + 1 = 3 /\ 2 + n = n + 2 /\ 2 + n + 1 = n + 3
    BY <2>4
  <2>7. HasCharAt(t, 1, Slash) /\ HasCharAt(t, 2, Slash)
    <3>1. t = x \o (a \o r) /\ a \o r \in Seq(Byte)
      <4>1. (x \o a) \o r = x \o (a \o r)
        <5>1. a \in Seq(Byte) /\ r \in Seq(Byte) /\ x \in Seq(Byte)
          BY <1>1, <1>3
        <5>. QED BY <5>1, Associate DEF Associates
      <4>2. a \o r \in Seq(Byte)
        BY <1>1, <1>3, Cut
      <4>. QED BY <2>3, <4>1, <4>2
    <3>2. PICK z : z = a \o r /\ z \in Seq(Byte) /\ t = x \o z
      BY <3>1
    <3>3. x \o z \in Seq(Byte) /\ Len(x \o z) = Len(x) + Len(z) /\ \A i \in 1 .. Len(x) : (x \o z)[i] = x[i]
      BY <2>2, <3>2, Cut
    <3>4. t \in Seq(Byte) /\ Len(t) = 2 + Len(z) /\ Len(z) \in Nat /\ \A i \in 1 .. 2 : t[i] = x[i]
      BY <2>2, <3>2, <3>3, LenProperties
    <3>5. DOMAIN t = 1 .. Len(t)
      BY <3>4, LenProperties
    <3>. QED BY <2>2, <3>4, <3>5 DEF HasCharAt
  <2>8. Until(From(t, 3), {Slash, Question, Hash}) = n
    <3>1. \A i \in 1 .. Len(a) : a[i] \notin {Slash, Question, Hash}
      <4>1. DOMAIN a = 1 .. Len(a)
        BY <1>1, LenProperties
      <4>. QED BY <4>1, Zenon DEF LegalAuthority, Parts!IsText, Parts!Delimiters, Parts!Slash, Slash,
              Parts!Question, Question, Parts!Hash, Hash
    <3>2. r = <<>> \/ r[1] \in {Slash, Question, Hash}
      BY <1>3, <1>4
    <3>3. Until(a \o r, {Slash, Question, Hash}) = Len(a)
      BY <1>1, <1>3, <3>1, <3>2, UntilIs DEF LegalAuthority, Fits
    <3>. QED BY <2>4, <2>5, <2>6, <3>3
  <2>9. ~(r # <<>> /\ Head(r) # Slash)
    BY <1>3, <1>4
  <2>10. PICK v : v = insertAuthority(u, a)
    OBVIOUS
  <2>11. WithAuthority(u, t) = WithPath(v, r)
    BY <2>5, <2>6, <2>7, <2>8, <2>9, <2>10, Zenon DEF WithAuthority
  <2>12. UriInv(v) /\ PartsOf(v) = authoritySet(PartsOf(u), a, TRUE)
    <3>1. UriInv(v) /\ PartsOf(v) = [PartsOf(u) EXCEPT !.authority = Parts!UpperEscapes(a), !.hasAuthority = TRUE]
      BY <2>10, InsertAuthority, Zenon DEF IsUri, LegalAuthority
    <3>. QED BY <3>1, Zenon DEF authoritySet, LegalAuthority
  <2>13. PartsOf(v) = PartsRecord(s, a, <<>>, <<>>, <<>>, TRUE, FALSE, FALSE)
    <3>1. PICK o, b, n0 : o = <<>> /\ b = TRUE /\ n0 = FALSE
      OBVIOUS
    <3>2. authoritySet(PartsRecord(s, o, o, o, o, n0, n0, n0), a, b) = PartsRecord(s, a, o, o, o, b, n0, n0)
      BY ChangedAuthority, SMT
    <3>. QED BY <2>12, <3>1, <3>2, Zenon DEF IsUri
  <2>14. hasA = TRUE
    BY <1>4
  <2>15. IsUri(v, s, a, <<>>, <<>>, <<>>, hasA, FALSE, FALSE)
    BY <2>12, <2>13, <2>14 DEF IsUri
  <2>16. IsUri(WithPath(v, r), s, a, p, q, f, hasA, hasQ, hasF)
    <3>1. IsUri(WithPath(v, encode(p) \o Behind(hasQ, q, hasF, f)), s, a, p, q, f, hasA, hasQ, hasF)
      BY <2>15, PathRead
    <3>. QED BY <1>2, <1>3, <3>1
  <2>. QED BY <1>2, <1>3, <1>4, <2>2, <2>3, <2>11, <2>16, Zenon
<1>5. CASE ~hasA
  <2>1. <<>> \o r = r
    BY <1>3, ConcatEmptySeq
  <2>2. WithAuthority(u, r) = WithPath(u, r)
    BY <1>3, <1>5, Zenon DEF WithAuthority
  <2>3. a = <<>> /\ hasA = FALSE
    BY <1>1, <1>5 DEF LegalAuthority
  <2>4. IsUri(u, s, a, <<>>, <<>>, <<>>, hasA, FALSE, FALSE)
    BY <2>3
  <2>5. IsUri(WithPath(u, r), s, a, p, q, f, hasA, hasQ, hasF)
    <3>1. IsUri(WithPath(u, encode(p) \o Behind(hasQ, q, hasF, f)), s, a, p, q, f, hasA, hasQ, hasF)
      BY <2>4, PathRead
    <3>. QED BY <1>2, <1>3, <3>1
  <2>. QED BY <1>2, <1>3, <1>5, <2>1, <2>2, <2>5, Zenon
<1>. QED BY <1>4, <1>5

\* What toString writes, and what parse takes off it: one association and the other.
AreFive(s, c, a, e, x, y) == s \o c \o a \o e \o x \o y = s \o (c \o (a \o (e \o (x \o y))))

\* The pieces that toString writes, as parse takes them off.
LEMMA FivePieces ==
  ASSUME NEW s \in Seq(Byte), NEW c \in Seq(Byte), NEW a \in Seq(Byte), NEW e \in Seq(Byte), NEW x \in Seq(Byte),
         NEW y \in Seq(Byte)
  PROVE  AreFive(s, c, a, e, x, y)
<1>1. PICK xy : xy = x \o y /\ xy \in Seq(Byte)
  BY Cut
<1>2. PICK exy : exy = e \o xy /\ exy \in Seq(Byte)
  BY <1>1, Cut
<1>3. PICK aexy : aexy = a \o exy /\ aexy \in Seq(Byte)
  BY <1>2, Cut
<1>4. PICK sc : sc = s \o c /\ sc \in Seq(Byte)
  BY Cut
<1>5. PICK sca : sca = sc \o a /\ sca \in Seq(Byte)
  BY <1>4, Cut
<1>6. PICK scae : scae = sca \o e /\ scae \in Seq(Byte)
  BY <1>5, Cut
<1>7. (scae \o x) \o y = scae \o xy
  <2>1. scae \in Seq(Byte) /\ x \in Seq(Byte) /\ y \in Seq(Byte)
    BY <1>6
  <2>2. Associates(scae, x, y)
    BY <2>1, Associate, Zenon
  <2>. QED BY <1>1, <2>2 DEF Associates
<1>8. scae \o xy = sca \o exy
  <2>1. sca \in Seq(Byte) /\ xy \in Seq(Byte)
    BY <1>1, <1>5
  <2>2. Associates(sca, e, xy)
    BY <2>1, Associate, Zenon
  <2>. QED BY <1>2, <1>6, <2>2 DEF Associates
<1>9. sca \o exy = sc \o aexy
  <2>1. sc \in Seq(Byte) /\ exy \in Seq(Byte)
    BY <1>2, <1>4
  <2>2. Associates(sc, a, exy)
    BY <2>1, Associate, Zenon
  <2>. QED BY <1>3, <1>5, <2>2 DEF Associates
<1>10. sc \o aexy = s \o (c \o aexy)
  <2>1. aexy \in Seq(Byte)
    BY <1>3
  <2>2. Associates(s, c, aexy)
    BY <2>1, Associate, Zenon
  <2>. QED BY <1>4, <2>2 DEF Associates
<1>. QED BY <1>1, <1>2, <1>3, <1>4, <1>5, <1>6, <1>7, <1>8, <1>9, <1>10, Zenon DEF AreFive

\* parse reads the scheme, and a Uri without other parts is what it goes on with.
LEMMA SchemeRead ==
  ASSUME NEW s, Fits(s), Parts!IsSchemeText(s), Parts!LowerCase(s) = s, s # <<>>, NEW r \in Seq(Byte)
  PROVE  \E u : /\ IsUri(u, s, <<>>, <<>>, <<>>, <<>>, FALSE, FALSE, FALSE)
                /\ parse(s \o (<<Colon>> \o r)) = WithAuthority(u, r)
<1>1. s \in Seq(Byte) /\ Len(s) \in Nat \ {0} /\ Colon \in Byte /\ Len(r) \in Nat
  BY LenProperties, EmptySeq DEF Fits, Colon, Byte
<1>2. PICK b : b = <<Colon>> \o r /\ b \in Seq(Byte) /\ b # <<>> /\ b[1] = Colon /\ From(b, 2) = r /\ Len(b) = 1 + Len(r)
  BY <1>1, OneMore
<1>3. ~Parts!IsSchemeChar(b[1])
  BY <1>2 DEF Colon, Parts!IsSchemeChar, Parts!IsAlnum, Parts!IsAlpha, Parts!IsDigit, Parts!IsUpper, Parts!IsLower,
     Parts!Minus, Parts!Dot, Parts!Plus
<1>4. PICK t, n : t = s \o b /\ n = Len(s)
  OBVIOUS
<1>5. Span(t, Parts!IsSchemeChar) % LengthCount = n
  <2>1. Span(s \o b, Parts!IsSchemeChar) = Len(s)
    BY <1>1, <1>2, <1>3, SchemeSpanIs
  <2>2. n % LengthCount = n
    BY <1>1, <1>4, CountIs DEF Fits
  <2>. QED BY <1>4, <2>1, <2>2
<1>6. /\ t \in Seq(Byte) /\ Len(t) = n + Len(b)
      /\ SubSeq(t, 1, n) = s /\ From(t, n + 1) = b
      /\ \A i \in 1 .. Len(b) : t[n + i] = b[i]
  <2>1. /\ s \o b \in Seq(Byte) /\ Len(s \o b) = Len(s) + Len(b)
        /\ SubSeq(s \o b, 1, Len(s)) = s /\ From(s \o b, Len(s) + 1) = b
        /\ \A i \in 1 .. Len(b) : (s \o b)[Len(s) + i] = b[i]
    BY <1>1, <1>2, Cut
  <2>. QED BY <1>4, <2>1
<1>7. HasCharAt(t, n + 1, Colon)
  <2>1. 1 \in 1 .. Len(b) /\ n + 1 \in 1 .. Len(t)
    BY <1>1, <1>2, <1>4, <1>6
  <2>2. DOMAIN t = 1 .. Len(t)
    BY <1>6, LenProperties
  <2>. QED BY <1>2, <1>6, <2>1, <2>2 DEF HasCharAt
<1>8. From(t, n + 2) = r
  <2>1. PICK c \in Seq(Byte) : c = <<Colon>> /\ Len(c) = 1
    <3>1. <<Colon>> \in Seq(Byte) /\ Len(<<Colon>>) = 1
      BY <1>1
    <3>. QED BY <3>1
  <2>2. t = (s \o c) \o r
    BY <1>1, <1>2, <1>4, <2>1, ConcatAssociative, SMTT(30)
  <2>3. IsCut((s \o c) \o r, Len(s), Len(c), c, r)
    BY <1>1, <2>1, CutMiddle
  <2>4. From(t, n + 1 + 1) = r
    BY <1>4, <2>1, <2>2, <2>3, Zenon DEF IsCut
  <2>5. n + 1 + 1 = n + 2
    BY <1>1, <1>4
  <2>. QED BY <2>4, <2>5
<1>9. PICK u : u = insertScheme(NoUri, s)
  OBVIOUS
<1>10. n # 0
  BY <1>1, <1>4
<1>11. parse(t) = WithAuthority(u, r)
  BY <1>5, <1>6, <1>7, <1>8, <1>9, <1>10, Zenon DEF parse
<1>12. UriInv(u) /\ PartsOf(u) = schemeSet(PartsOf(NoUri), s)
  <2>1. PICK v : v = NoUri
    OBVIOUS
  <2>2. UriInv(v)
    BY <2>1, InitialUri
  <2>3. UriInv(u) /\ PartsOf(u) = [PartsOf(v) EXCEPT !.scheme = Parts!LowerCase(s)]
    BY <1>9, <2>1, <2>2, InsertScheme, Zenon
  <2>. QED BY <2>1, <2>3, Zenon DEF schemeSet
<1>13. PartsOf(NoUri) = PartsRecord(<<>>, <<>>, <<>>, <<>>, <<>>, FALSE, FALSE, FALSE)
  BY InitialUri, Zenon DEF Abstract!NoParts, PartsRecord
<1>14. PartsOf(u) = PartsRecord(s, <<>>, <<>>, <<>>, <<>>, FALSE, FALSE, FALSE)
  <2>1. PICK o, no : o = <<>> /\ no = FALSE
    OBVIOUS
  <2>2. schemeSet(PartsRecord(o, o, o, o, o, no, no, no), s) = PartsRecord(s, o, o, o, o, no, no, no)
    BY ChangedScheme, SMT
  <2>. QED BY <1>12, <1>13, <2>1, <2>2, Zenon
<1>. QED BY <1>2, <1>4, <1>11, <1>12, <1>14, Zenon DEF IsUri

\* The text of a Uri that is valid and not ambiguous, and whose path can be counted in 16 bits
\* as it is written, is read as that Uri.
THEOREM TextIsReadBack ==
  ASSUME NEW u, UriInv(u), LegalParts(PartsOf(u)) PROVE ReadBack(u)
<1>. SUFFICES ASSUME isValid(u), ~IsAmbiguous(u), PathIsCounted(u) PROVE parse(toString(u)) = u
  BY DEF ReadBack
<1>1. PICK s, a, p, q, f, hasA, hasQ, hasF :
          /\ s = scheme(u) /\ a = authority(u) /\ p = path(u) /\ q = query(u) /\ f = fragment(u)
          /\ hasA = u.hasAuthority /\ hasQ = u.hasQuery /\ hasF = u.hasFragment
  OBVIOUS
<1>2. Fits(s) /\ Fits(a) /\ Fits(p) /\ Fits(q) /\ Fits(f) /\ Len(s) = u.schemeLen
  BY <1>1, PartsFit
<1>3. /\ Parts!IsSchemeText(s) /\ Parts!LowerCase(s) = s
      /\ Parts!IsText(a, "authority") /\ Parts!UpperEscapes(a) = a
      /\ Parts!IsText(q, "query") /\ Parts!UpperEscapes(q) = q
      /\ Parts!UpperEscapes(f) = f
  <2>1. PICK r : r = PartsOf(u)
    OBVIOUS
  <2>2. r.scheme = s /\ r.authority = a /\ r.query = q /\ r.fragment = f
    BY <1>1, <2>1 DEF PartsOf
  <2>. QED BY <2>1, <2>2, Zenon DEF LegalParts
<1>4. hasA \in BOOLEAN /\ hasQ \in BOOLEAN /\ hasF \in BOOLEAN
  BY <1>1 DEF UriInv, UriObject
<1>5. (hasA \/ a = <<>>) /\ (hasQ \/ q = <<>>) /\ (hasF \/ f = <<>>)
  BY <1>1, Zenon DEF authority, query, fragment
<1>6. LegalAuthority(hasA, a) /\ LegalQuery(hasQ, q) /\ LegalFragment(hasF, f)
  BY <1>2, <1>3, <1>4, <1>5, Zenon DEF LegalAuthority, LegalQuery, LegalFragment
<1>7. s # <<>>
  BY <1>2 DEF isValid
<1>8. s \in Seq(Byte) /\ a \in Seq(Byte) /\ p \in Seq(Byte) /\ q \in Seq(Byte) /\ f \in Seq(Byte)
  BY <1>2 DEF Fits
<1>9. PICK x, y : x = Marked(hasQ, Question, q) /\ y = Marked(hasF, Hash, f)
  OBVIOUS
<1>10. x \in Seq(Byte) /\ y \in Seq(Byte)
  <2>1. Question \in Byte /\ Hash \in Byte
    BY DEF Question, Hash, Byte
  <2>. QED BY <1>4, <1>8, <1>9, <2>1, MarkedText, Zenon
<1>11. PICK b : b = IF hasA THEN <<Slash, Slash>> \o a ELSE <<>>
  OBVIOUS
<1>12. b \in Seq(Byte)
  <2>1. <<Slash, Slash>> \in Seq(Byte)
    BY DEF Slash, Byte
  <2>2. <<Slash, Slash>> \o a \in Seq(Byte)
    BY <1>8, <2>1, Cut
  <2>. QED BY <1>11, <2>2, EmptySeq
<1>13. PICK e : e = encode(p) /\ e \in Seq(Byte)
  BY <1>8, EncodedHead DEF IsEncoded
<1>14. <<Colon>> \in Seq(Byte)
  BY DEF Colon, Byte
<1>15. toString(u) = s \o <<Colon>> \o b \o e \o x \o y
  BY <1>1, <1>9, <1>11, <1>13, Zenon DEF toString, Marked
<1>16. toString(u) = s \o (<<Colon>> \o (b \o (e \o (x \o y))))
  <2>1. PICK c : c = <<Colon>> /\ c \in Seq(Byte)
    BY <1>14
  <2>2. /\ s \in Seq(Byte) /\ c \in Seq(Byte) /\ b \in Seq(Byte) /\ e \in Seq(Byte) /\ x \in Seq(Byte)
        /\ y \in Seq(Byte)
    BY <1>8, <1>10, <1>12, <1>13, <2>1
  <2>3. AreFive(s, c, b, e, x, y)
    BY <2>2, FivePieces, Zenon
  <2>. QED BY <1>15, <2>1, <2>3, Zenon DEF AreFive
<1>17. PICK r : r = b \o (e \o (x \o y)) /\ r \in Seq(Byte)
  <2>1. x \o y \in Seq(Byte)
    BY <1>10, Cut
  <2>2. e \o (x \o y) \in Seq(Byte)
    BY <1>13, <2>1, Cut
  <2>3. b \o (e \o (x \o y)) \in Seq(Byte)
    BY <1>12, <2>2, Cut
  <2>. QED BY <2>3
<1>18. IsClear(hasA, p, Behind(hasQ, q, hasF, f))
  <2>1. Behind(hasQ, q, hasF, f) = <<>> <=> ~hasQ /\ ~hasF
    BY <1>4, <1>8, BehindText
  <2>. QED BY <1>1, <2>1, Zenon DEF IsClear, IsAmbiguous
<1>19. PICK v : /\ IsUri(v, s, <<>>, <<>>, <<>>, <<>>, FALSE, FALSE, FALSE)
                /\ parse(s \o (<<Colon>> \o r)) = WithAuthority(v, r)
  BY <1>2, <1>3, <1>7, <1>17, SchemeRead
<1>20. IsUri(WithAuthority(v, r), s, a, p, q, f, hasA, hasQ, hasF)
  <2>1. IsUri(WithAuthority(v, (IF hasA THEN <<Slash, Slash>> \o a ELSE <<>>) \o (encode(p) \o Behind(hasQ, q, hasF, f))),
              s, a, p, q, f, hasA, hasQ, hasF)
    <3>1. Len(encode(p)) < LengthCount
      BY <1>1, Zenon DEF PathIsCounted
    <3>. QED BY <1>2, <1>6, <1>18, <1>19, <3>1, AuthorityRead
  <2>. QED BY <1>9, <1>11, <1>13, <1>17, <2>1, Zenon DEF Behind
<1>21. PICK w : w = parse(toString(u)) /\ IsUri(w, s, a, p, q, f, hasA, hasQ, hasF)
  BY <1>16, <1>17, <1>19, <1>20, Zenon
<1>22. PartsOf(u) = PartsRecord(s, a, p, q, f, hasA, hasQ, hasF)
  BY <1>1, Zenon DEF PartsOf, PartsRecord
<1>23. UriInv(w) /\ PartsOf(w) = PartsOf(u)
  BY <1>21, <1>22, Zenon DEF IsUri
<1>24. w = u
  BY <1>23, UriIsDetermined, Zenon
<1>. QED BY <1>21, <1>24

\* uri.h: whatever a program does with a Uri, the text of a valid one that is not ambiguous,
\* and whose encoded path is not longer than parse can count, is read as that Uri.
THEOREM UriIsReadBack == Spec => []ReadBack(uri)
<1>1. Init => UriInv(uri) /\ LegalParts(PartsOf(uri))
  <2>1. ASSUME Init PROVE UriInv(uri) /\ PartsOf(uri) = Abstract!NoParts
    BY <2>1, InitialUri, Zenon DEF Init
  <2>2. /\ Abstract!NoParts.scheme = <<>> /\ Abstract!NoParts.authority = <<>>
        /\ Abstract!NoParts.query = <<>> /\ Abstract!NoParts.fragment = <<>>
    BY DEF Abstract!NoParts
  <2>3. LegalParts(Abstract!NoParts)
    BY <2>2, EmptyIsLegal, Zenon DEF LegalParts
  <2>. QED BY <2>1, <2>3, Zenon
<1>2. UriInv(uri) /\ LegalParts(PartsOf(uri)) /\ [Next]_uri => (UriInv(uri) /\ LegalParts(PartsOf(uri)))'
  <2>1. ASSUME UriInv(uri), LegalParts(PartsOf(uri)), Next PROVE UriInv(uri') /\ LegalParts(PartsOf(uri'))
    BY <2>1, LegalStep, Zenon
  <2>2. ASSUME UriInv(uri), LegalParts(PartsOf(uri)), UNCHANGED uri PROVE UriInv(uri') /\ LegalParts(PartsOf(uri'))
    BY <2>2, Zenon
  <2>. QED BY <2>1, <2>2, Zenon
<1>3. UriInv(uri) /\ LegalParts(PartsOf(uri)) => ReadBack(uri)
  BY TextIsReadBack, Zenon
<1>. QED BY <1>1, <1>2, <1>3, PTL DEF Spec
=============================================================================
