-------------------------- MODULE JsonParserProofs --------------------------
(***************************************************************************)
(* Theorems about JsonParser, for texts of any length and nesting of any   *)
(* depth.                                                                  *)
(***************************************************************************)
EXTENDS JsonParser, SequenceTheorems, WellFoundedInduction, TLAPS

-----------------------------------------------------------------------------
(* Induction over the natural numbers, for sets in place of predicates. *)

LEMMA NatOrder ==
  \E R : IsWellFoundedOn(R, Nat) /\ \A x, y \in Nat : <<x, y>> \in R <=> x < y
<1>1. \A x, y \in Nat : <<x, y>> \in OpToRel(<, Nat) <=> x < y
  BY DEF OpToRel
<1>. QED BY <1>1, NatLessThanWellFounded, Zenon

LEMMA Smallest ==
  ASSUME NEW S \in SUBSET Nat, S # {}
  PROVE  \E n \in S : \A m \in S : n <= m
<1>1. PICK R : IsWellFoundedOn(R, Nat) /\ \A x, y \in Nat : <<x, y>> \in R <=> x < y
  BY NatOrder
<1>2. S \subseteq Nat /\ IsWellFoundedOn(R, Nat)
  BY <1>1
<1>3. PICK n \in S : \A m \in S : ~(<<m, n>> \in R)
  BY <1>2, WFMin, Zenon
<1>4. \A m \in S : m \in Nat /\ n \in Nat /\ ~(m < n)
  BY <1>1, <1>2, <1>3
<1>. QED BY <1>4, SMT

LEMMA SetInduction ==
  ASSUME NEW S, 0 \in S, \A n \in Nat : n \in S => n + 1 \in S
  PROVE  Nat \subseteq S
<1>. SUFFICES ASSUME Nat \ S # {} PROVE FALSE
  OBVIOUS
<1>1. PICK x \in Nat \ S : \A y \in Nat \ S : x <= y
  BY Smallest
<1>2. x - 1 \in Nat /\ ~(x <= x - 1)
  BY SMT
<1>3. x - 1 \in S
  BY <1>1, <1>2
<1>. QED BY <1>2, <1>3, SMT

-----------------------------------------------------------------------------
(* The tree under construction: what is at a path, and what a change at a  *)
(* path changes on the way to it.                                          *)

WalkTo(f, tree, path, n) == f = [i \in 0 .. n |-> IF i = 0 THEN tree ELSE f[i - 1].v[path[i]]]
IsWalk(f, tree, path) == WalkTo(f, tree, path, Len(path))

LEMMA NodeAtIs == \A tree, path : NodeAt(tree, path) = (CHOOSE f : IsWalk(f, tree, path))[Len(path)]
BY Zenon DEF NodeAt, IsWalk, WalkTo

LEMMA WalkExists ==
  ASSUME NEW tree, NEW path, NEW n \in Nat
  PROVE  \E f : WalkTo(f, tree, path, n)
<1>. DEFINE Def(f, k) == WalkTo(f, tree, path, k)
<1>. USE DEF WalkTo
<1>. DEFINE S == {k \in Nat : \E f : Def(f, k)}
<1>1. 0 \in S
  <2>. DEFINE f == [i \in {0} |-> tree]
  <2>1. 0 .. 0 = {0}
    BY SMT
  <2>2. f = [i \in 0 .. 0 |-> IF i = 0 THEN tree ELSE f[i - 1].v[path[i]]]
    BY <2>1
  <2>. QED BY <2>2
<1>2. ASSUME NEW k \in Nat, k \in S PROVE k + 1 \in S
  <2>1. PICK f : Def(f, k)
    BY <1>2
  <2>. DEFINE g == [i \in 0 .. k + 1 |-> IF i = k + 1 THEN f[k].v[path[k + 1]] ELSE f[i]]
  <2>2. ASSUME NEW i \in 0 .. k + 1 PROVE g[i] = IF i = 0 THEN tree ELSE g[i - 1].v[path[i]]
    <3>1. CASE i = 0
      <4>1. 0 \in 0 .. k /\ 0 # k + 1
        BY SMT
      <4>. QED BY <3>1, <4>1, <2>1
    <3>2. CASE i # 0 /\ i # k + 1
      <4>1. i \in 0 .. k /\ i - 1 \in 0 .. k + 1 /\ i - 1 # k + 1
        BY <3>2, SMT
      <4>. QED BY <3>2, <4>1, <2>1
    <3>3. CASE i = k + 1
      <4>1. i # 0 /\ i - 1 = k /\ k \in 0 .. k + 1 /\ k # k + 1
        BY <3>3, SMT
      <4>. QED BY <3>3, <4>1
    <3>. QED BY <3>1, <3>2, <3>3
  <2>3. Def(g, k + 1)
    BY <2>2
  <2>. HIDE DEF g, Def
  <2>4. \E h : Def(h, k + 1)
    BY <2>3
  <2>. QED BY <2>4
<1>. HIDE DEF S
<1>3. Nat \subseteq S
  BY <1>1, <1>2, SetInduction
<1>. QED BY <1>3 DEF S

LEMMA AWalk ==
  ASSUME NEW tree, NEW path, Len(path) \in Nat
  PROVE  \E f : IsWalk(f, tree, path)
BY WalkExists DEF IsWalk

LEMMA PrefixNode ==
  ASSUME NEW tree, NEW K, NEW path \in Seq(K), NEW f, IsWalk(f, tree, path), NEW k \in 0 .. Len(path)
  PROVE  NodeAt(tree, SubSeq(path, 1, k)) = f[k]
<1>. DEFINE q == SubSeq(path, 1, k)
<1>1. Len(path) \in Nat /\ Len(q) = k /\ k \in Nat /\ \A i \in 1 .. k : q[i] = path[i]
  BY SMT
<1>. HIDE DEF q
<1>2. PICK g : IsWalk(g, tree, q) /\ NodeAt(tree, q) = g[k]
  <2>1. \E g : IsWalk(g, tree, q)
    BY <1>1, AWalk
  <2>. QED BY <1>1, <2>1, NodeAtIs
<1>. DEFINE S == {i \in Nat : i <= k => g[i] = f[i]}
<1>3. 0 \in S
  <2>1. 0 \in 0 .. Len(path) /\ 0 \in 0 .. Len(q)
    BY <1>1
  <2>. QED BY <1>2, <2>1 DEF IsWalk, WalkTo
<1>4. ASSUME NEW i \in Nat, i \in S PROVE i + 1 \in S
  <2>. SUFFICES ASSUME i + 1 <= k PROVE g[i + 1] = f[i + 1]
    OBVIOUS
  <2>1. i + 1 \in 0 .. Len(path) /\ i + 1 \in 0 .. Len(q) /\ i + 1 # 0 /\ (i + 1) - 1 = i /\ i <= k /\ i + 1 \in 1 .. k
    BY <1>1
  <2>2. g[i] = f[i]
    BY <1>4, <2>1
  <2>3. g[i + 1] = g[i].v[q[i + 1]]
    BY <1>2, <2>1 DEF IsWalk, WalkTo
  <2>4. f[i + 1] = f[i].v[path[i + 1]]
    BY <2>1 DEF IsWalk, WalkTo
  <2>. QED BY <1>1, <2>1, <2>2, <2>3, <2>4
<1>. HIDE DEF S
<1>5. k \in S
  BY <1>1, <1>3, <1>4, SetInduction
<1>6. NodeAt(tree, q) = f[k]
  BY <1>1, <1>2, <1>5 DEF S
<1>. QED BY <1>6 DEF q

LEMMA NodeAtRoot ==
  ASSUME NEW tree PROVE NodeAt(tree, <<>>) = tree
<1>1. PICK f : IsWalk(f, tree, <<>>)
  <2>1. Len(<<>>) \in Nat
    OBVIOUS
  <2>. QED BY <2>1, AWalk
<1>2. IsWalk(CHOOSE g : IsWalk(g, tree, <<>>), tree, <<>>)
  BY <1>1
<1>3. 0 \in 0 .. Len(<<>>) /\ Len(<<>>) = 0
  OBVIOUS
<1>. QED BY <1>2, <1>3, NodeAtIs DEF IsWalk, WalkTo

LEMMA NodeAtStep ==
  ASSUME NEW tree, NEW K, NEW path \in Seq(K), NEW k \in 1 .. Len(path)
  PROVE  NodeAt(tree, SubSeq(path, 1, k)) = NodeAt(tree, SubSeq(path, 1, k - 1)).v[path[k]]
<1>1. PICK f : IsWalk(f, tree, path)
  <2>1. Len(path) \in Nat
    OBVIOUS
  <2>. QED BY <2>1, AWalk
<1>2. k \in 0 .. Len(path) /\ k - 1 \in 0 .. Len(path) /\ k # 0
  OBVIOUS
<1>3. f[k] = f[k - 1].v[path[k]]
  BY <1>1, <1>2 DEF IsWalk, WalkTo
<1>. QED BY <1>1, <1>2, <1>3, PrefixNode

IsWith(w, tree, path, x) ==
    w = [i \in 1 .. Len(path) + 1 |->
            IF i > Len(path) THEN x
            ELSE WithMember(NodeAt(tree, SubSeq(path, 1, i - 1)), path[i], w[i + 1])]

LEMMA WithIs == \A tree, path, x : With(tree, path, x) = (CHOOSE w : IsWith(w, tree, path, x))[1]
BY Zenon DEF With, IsWith

LEMMA WithExists ==
  ASSUME NEW tree, NEW K, NEW path \in Seq(K), NEW x
  PROVE  \E w : IsWith(w, tree, path, x)
<1>. DEFINE n == Len(path)
<1>. DEFINE Node(i, y) == WithMember(NodeAt(tree, SubSeq(path, 1, i - 1)), path[i], y)
<1>. DEFINE Def(w, k) == w = [i \in n + 1 - k .. n + 1 |-> IF i > n THEN x ELSE Node(i, w[i + 1])]
<1>. DEFINE S == {k \in Nat : k <= n => \E w : Def(w, k)}
<1>0. n \in Nat
  OBVIOUS
<1>. HIDE DEF n, Node
<1>1. 0 \in S
  <2>. DEFINE w == [i \in n + 1 .. n + 1 |-> x]
  <2>1. w = [i \in n + 1 - 0 .. n + 1 |-> IF i > n THEN x ELSE Node(i, w[i + 1])]
    <3>1. n + 1 - 0 = n + 1 /\ \A i \in n + 1 .. n + 1 : i > n
      BY <1>0
    <3>. QED BY <3>1
  <2>. QED BY <2>1
<1>2. ASSUME NEW k \in Nat, k \in S PROVE k + 1 \in S
  <2>. SUFFICES ASSUME k + 1 <= n PROVE \E w : Def(w, k + 1)
    OBVIOUS
  <2>1. PICK w : Def(w, k)
    BY <1>0, <1>2
  <2>. DEFINE u == [i \in n + 1 - (k + 1) .. n + 1 |-> IF i = n - k THEN Node(n - k, w[n - k + 1]) ELSE w[i]]
  <2>2. ASSUME NEW i \in n + 1 - (k + 1) .. n + 1 PROVE u[i] = IF i > n THEN x ELSE Node(i, u[i + 1])
    <3>1. CASE i = n - k
      <4>1. ~(i > n) /\ i + 1 = n - k + 1 /\ i + 1 # n - k /\ i + 1 \in n + 1 - (k + 1) .. n + 1
        BY <3>1, <1>0
      <4>. QED BY <3>1, <4>1
    <3>2. CASE i # n - k /\ ~(i > n)
      <4>1. i \in n + 1 - k .. n + 1 /\ i + 1 # n - k /\ i + 1 \in n + 1 - (k + 1) .. n + 1
        BY <3>2, <1>0
      <4>. QED BY <3>2, <4>1, <2>1
    <3>3. CASE i > n
      <4>1. i # n - k /\ i \in n + 1 - k .. n + 1
        BY <3>3, <1>0
      <4>. QED BY <3>3, <4>1, <2>1
    <3>. QED BY <3>1, <3>2, <3>3
  <2>3. Def(u, k + 1)
    BY <2>2
  <2>. HIDE DEF u, Def
  <2>. QED BY <2>3
<1>. HIDE DEF S
<1>3. n \in S
  BY <1>0, <1>1, <1>2, SetInduction
<1>4. PICK w : Def(w, n)
  BY <1>0, <1>3 DEF S
<1>5. n + 1 - n = 1
  BY <1>0
<1>. QED BY <1>4, <1>5 DEF IsWith, n, Node

\* The steps of With: w[i] is what is set at the first i - 1 members of the path.
SetsOnWay(w, tree, path, x, T) ==
    /\ T = w[1] /\ w[Len(path) + 1] = x
    /\ \A i \in 1 .. Len(path) :
          w[i] = WithMember(NodeAt(tree, SubSeq(path, 1, i - 1)), path[i], w[i + 1])

LEMMA WithSteps ==
  ASSUME NEW tree, NEW K, NEW path \in Seq(K), NEW x
  PROVE  \E w : SetsOnWay(w, tree, path, x, With(tree, path, x))
<1>1. PICK w : IsWith(w, tree, path, x) /\ With(tree, path, x) = w[1]
  BY WithExists, WithIs
<1>2. Len(path) + 1 \in 1 .. Len(path) + 1 /\ Len(path) + 1 > Len(path)
  OBVIOUS
<1>3. w[Len(path) + 1] = x
  BY <1>1, <1>2 DEF IsWith
<1>4. ASSUME NEW i \in 1 .. Len(path)
      PROVE  w[i] = WithMember(NodeAt(tree, SubSeq(path, 1, i - 1)), path[i], w[i + 1])
  <2>1. i \in 1 .. Len(path) + 1 /\ ~(i > Len(path))
    OBVIOUS
  <2>. QED BY <1>1, <2>1 DEF IsWith
<1>. QED BY <1>1, <1>3, <1>4 DEF SetsOnWay

IsNode(o) == o = [t |-> o.t, v |-> o.v]

NodesOnWay(tree, path) == \A i \in 1 .. Len(path) : IsNode(NodeAt(tree, SubSeq(path, 1, i - 1)))

\* T is the tree with x at the path.
Changed(tree, path, x, T) ==
    /\ NodeAt(T, path) = x
    /\ \A i \in 1 .. Len(path) : \E y :
          LET o == NodeAt(tree, SubSeq(path, 1, i - 1))
          IN  NodeAt(T, SubSeq(path, 1, i - 1)) = [t |-> o.t, v |-> Put(o.v, path[i], y)]

LEMMA NodesOfWith ==
  ASSUME NEW tree, NEW K, NEW path \in Seq(K), NEW x, NEW T, T = With(tree, path, x),
         NodesOnWay(tree, path)
  PROVE  Changed(tree, path, x, T)
<1>. DEFINE n == Len(path)
<1>. DEFINE Old(i) == NodeAt(tree, SubSeq(path, 1, i - 1))
<1>. DEFINE New(i) == NodeAt(T, SubSeq(path, 1, i - 1))
<1>1. PICK w : /\ T = w[1] /\ w[n + 1] = x
               /\ \A i \in 1 .. n : w[i] = WithMember(Old(i), path[i], w[i + 1])
  <2>1. \E w : SetsOnWay(w, tree, path, x, T)
    BY WithSteps
  <2>. QED BY <2>1 DEF SetsOnWay
<1>0. n \in Nat
  OBVIOUS
<1>2. ASSUME NEW i \in 1 .. n PROVE w[i] = [t |-> Old(i).t, v |-> Put(Old(i).v, path[i], w[i + 1])]
  <2>1. IsNode(Old(i)) /\ w[i] = WithMember(Old(i), path[i], w[i + 1])
    BY <1>1 DEF NodesOnWay
  <2>. HIDE DEF Old
  <2>2. PICK o : o = Old(i)
    OBVIOUS
  <2>3. o = [t |-> o.t, v |-> o.v]
    BY <2>1, <2>2 DEF IsNode
  <2>4. w[i] = [o EXCEPT !.v = Put(o.v, path[i], w[i + 1])]
    BY <2>1, <2>2 DEF WithMember
  <2>. QED BY <2>2, <2>3, <2>4
<1>. DEFINE S == {i \in Nat : i <= n => New(i + 1) = w[i + 1]}
<1>3. 0 \in S
  <2>1. SubSeq(path, 1, (0 + 1) - 1) = <<>>
    BY SMT
  <2>2. New(0 + 1) = T
    BY <2>1, NodeAtRoot, Zenon
  <2>. QED BY <1>1, <2>2
<1>4. ASSUME NEW i \in Nat, i \in S PROVE i + 1 \in S
  <2>. SUFFICES ASSUME i + 1 <= n PROVE New((i + 1) + 1) = w[(i + 1) + 1]
    OBVIOUS
  <2>1. New(i + 1) = w[i + 1] /\ i + 1 \in 1 .. n
    BY <1>4, <1>0
  <2>2. New((i + 1) + 1) = New(i + 1).v[path[i + 1]]
    <3>1. ((i + 1) + 1) - 1 = i + 1
      OBVIOUS
    <3>. QED BY <2>1, <3>1, NodeAtStep
  <2>3. w[i + 1] = [t |-> Old(i + 1).t, v |-> Put(Old(i + 1).v, path[i + 1], w[(i + 1) + 1])]
    BY <1>2, <2>1, Zenon
  <2>. HIDE DEF New, Old
  <2>. QED BY <2>1, <2>2, <2>3 DEF Put
<1>. HIDE DEF S
<1>5. Nat \subseteq S
  BY <1>3, <1>4, SetInduction
<1>6. NodeAt(T, path) = x
  <2>1. SubSeq(path, 1, (n + 1) - 1) = path
    OBVIOUS
  <2>2. New(n + 1) = w[n + 1]
    BY <1>0, <1>5 DEF S
  <2>. QED BY <1>1, <2>1, <2>2
<1>7. ASSUME NEW i \in 1 .. n PROVE New(i) = [t |-> Old(i).t, v |-> Put(Old(i).v, path[i], w[i + 1])]
  <2>1. i - 1 \in Nat /\ i - 1 <= n /\ (i - 1) + 1 = i
    BY <1>0
  <2>2. New(i) = w[i]
    BY <1>5, <2>1 DEF S
  <2>. QED BY <1>2, <2>2
<1>. QED BY <1>6, <1>7 DEF Changed

-----------------------------------------------------------------------------
(* Positions: what a scalar takes is at least one character and in the     *)
(* text.                                                                   *)

LEMMA LongestPrefix ==
  ASSUME NEW n \in Nat, NEW S
  PROVE  \E k \in 0 .. n : (\A i \in 1 .. k : i \notin S) /\ (k < n => k + 1 \in S)
<1>. DEFINE U == {i \in 1 .. n : i \in S}
<1>1. CASE U = {}
  <2>1. n \in 0 .. n /\ ~(n < n) /\ \A i \in 1 .. n : i \notin S
    BY <1>1
  <2>. QED BY <2>1
<1>2. CASE U # {}
  <2>1. U \in SUBSET Nat
    OBVIOUS
  <2>2. PICK m \in U : \A j \in U : m <= j
    BY <1>2, <2>1, Smallest
  <2>3. m \in 1 .. n /\ m \in S /\ \A j \in 1 .. n : j \in S => m <= j
    BY <2>2
  <2>4. m - 1 \in 0 .. n /\ (m - 1) + 1 = m
    BY <2>3
  <2>5. ASSUME NEW i \in 1 .. m - 1 PROVE i \notin S
    BY <2>3, <2>5
  <2>. QED BY <2>3, <2>4, <2>5
<1>. QED BY <1>1, <1>2

LEMMA FromIs ==
  ASSUME NEW t \in Seq(Byte), NEW p \in 1 .. Len(t) + 1
  PROVE  /\ From(t, p) \in Seq(Byte)
         /\ Len(From(t, p)) = Len(t) + 1 - p
         /\ p <= Len(t) => From(t, p)[1] = t[p]
BY SMT DEF From

LEMMA SpaceSpan ==
  ASSUME NEW t \in Seq(Byte)
  PROVE  Span(t, IsSpace) \in 0 .. Len(t)
<1>. DEFINE S == {i \in 1 .. Len(t) : ~IsSpace(t[i])}
<1>1. Len(t) \in Nat
  OBVIOUS
<1>2. PICK k \in 0 .. Len(t) : (\A i \in 1 .. k : i \notin S) /\ (k < Len(t) => k + 1 \in S)
  <2>. HIDE DEF S
  <2>. QED BY <1>1, LongestPrefix
<1>3. \A i \in 1 .. k : IsSpace(t[i])
  BY <1>1, <1>2
<1>4. k < Len(t) => ~IsSpace(t[k + 1])
  BY <1>2
<1>. HIDE DEF S
<1>. QED BY <1>3, <1>4, Zenon DEF Span

LEMMA SkipIs ==
  ASSUME text \in Seq(Byte), NEW p \in 1 .. Len(text) + 1
  PROVE  SkipFrom(p) \in p .. Len(text) + 1
<1>1. Len(text) \in Nat /\ Span(From(text, p), IsSpace) \in 0 .. Len(text) + 1 - p
  BY FromIs, SpaceSpan
<1>2. PICK n \in 0 .. Len(text) + 1 - p : SkipFrom(p) = p + n
  BY <1>1 DEF SkipFrom
<1>. QED BY <1>1, <1>2

LEMMA WordIs ==
  ASSUME NEW t \in Seq(Byte), NEW p \in 1 .. Len(t), t[p] = Minus \/ IsAlnum(t[p])
  PROVE  Len(Word(t, p)) \in 1 .. Len(t) + 1 - p
<1>. DEFINE InWord(c) == IsAlnum(c) \/ (~IsAlpha(t[p]) /\ c \in {Minus, Dot})
<1>. DEFINE s == From(t, p)
<1>. DEFINE S == {i \in 1 .. Len(s) : ~InWord(s[i])}
<1>1. s \in Seq(Byte) /\ Len(s) = Len(t) + 1 - p /\ s[1] = t[p] /\ Len(s) \in Nat /\ Len(s) > 0
  BY FromIs
<1>. HIDE DEF s
<1>2. PICK k \in 0 .. Len(s) : (\A i \in 1 .. k : i \notin S) /\ (k < Len(s) => k + 1 \in S)
  <2>. HIDE DEF S
  <2>. QED BY <1>1, LongestPrefix
<1>3. (\A i \in 1 .. k : InWord(s[i])) /\ (k < Len(s) => ~InWord(s[k + 1]))
  BY <1>1, <1>2
<1>. HIDE DEF S
<1>. DEFINE n == Span(s, InWord)
<1>4. n \in 0 .. Len(s) /\ (n < Len(s) => ~InWord(s[n + 1]))
  <2>. HIDE DEF InWord
  <2>. QED BY <1>3, Zenon DEF Span
<1>5. InWord(s[1])
  <2>1. t[p] = Minus => ~IsAlpha(t[p])
    BY SMT DEF Minus, IsAlpha, IsUpper, IsLower
  <2>. QED BY <1>1, <2>1
<1>6. Word(t, p) = SubSeq(t, p, p + n - 1)
  BY Zenon DEF Word, s
<1>. HIDE DEF n, InWord
<1>7. n # 0
  BY <1>1, <1>4, <1>5
<1>8. n \in 1 .. Len(t) + 1 - p
  BY <1>1, <1>4, <1>7
<1>. QED BY <1>6, <1>8

\* What a parse function may give at p: an outcome, and a length when there is a value.
Takes(parsed, n) ==
    /\ parsed.outcome \in {"value", "error", "exception"}
    /\ parsed.outcome = "value" => parsed.length \in 1 .. n

LEMMA FailedIs ==
  ASSUME NEW how \in {"error", "exception"}, NEW n PROVE Takes(Failed(how), n)
BY DEF Takes, Failed

LEMMA ParsedIs ==
  ASSUME NEW x, NEW n, NEW length \in 1 .. n PROVE Takes(Parsed(x, length), n)
BY DEF Takes, Parsed

LEMMA StringEnds ==
  ASSUME NEW t \in Seq(Byte), NEW p \in 1 .. Len(t), NEW stops \in SUBSET (p + 1 .. Len(t))
  PROVE  Takes(StringEndingAt(t, p, stops), Len(t) + 1 - p)
<1>. DEFINE stop == CHOOSE i \in stops : \A j \in stops : i <= j
<1>1. CASE stops = {}
  <2>1. StringEndingAt(t, p, stops) = Failed("error")
    BY <1>1, Zenon DEF StringEndingAt
  <2>. QED BY <2>1, FailedIs
<1>2. CASE stops # {}
  <2>1. stops \in SUBSET Nat
    OBVIOUS
  <2>2. stop \in stops
    BY <1>2, <2>1, Smallest
  <2>3. stop + 1 - p \in 1 .. Len(t) + 1 - p
    <3>. HIDE DEF stop
    <3>. QED BY <2>2
  <2>4. \/ StringEndingAt(t, p, stops) = Failed("error")
        \/ \E x : StringEndingAt(t, p, stops) = Parsed(x, stop + 1 - p)
    BY Zenon DEF StringEndingAt
  <2>. HIDE DEF stop
  <2>. QED BY <2>3, <2>4, FailedIs, ParsedIs
<1>. QED BY <1>1, <1>2

LEMMA StringIs ==
  ASSUME NEW t \in Seq(Byte), NEW p \in 1 .. Len(t)
  PROVE  Takes(parseString(t, p), Len(t) + 1 - p)
<1>1. \E stops \in SUBSET (p + 1 .. Len(t)) : parseString(t, p) = StringEndingAt(t, p, stops)
  BY Zenon DEF parseString
<1>. QED BY <1>1, StringEnds

LEMMA NumberIs ==
  ASSUME NEW s, NEW n, Len(s) \in 1 .. n
  PROVE  Takes(parseNumber(s), n)
<1>1. Takes(parseDecimal(s), n)
  <2>1. parseDecimal(s) \in {Failed("exception"), Failed("error")} \/ \E x : parseDecimal(s) = Parsed(x, Len(s))
    BY Zenon DEF parseDecimal
  <2>. QED BY <2>1, FailedIs, ParsedIs
<1>2. Takes(parseInteger(s), n)
  <2>1. parseInteger(s) = Failed("error") \/ \E x : parseInteger(s) = Parsed(x, Len(s))
    BY Zenon DEF parseInteger
  <2>. QED BY <2>1, FailedIs, ParsedIs
<1>3. parseNumber(s) = parseDecimal(s) \/ parseNumber(s) = parseInteger(s)
  BY Zenon DEF parseNumber
<1>. QED BY <1>1, <1>2, <1>3

LEMMA IdentifierIs ==
  ASSUME NEW s, NEW n, Len(s) \in 1 .. n
  PROVE  Takes(parseIdentifier(s), n)
<1>1. parseIdentifier(s) = Failed("error") \/ \E x : parseIdentifier(s) = Parsed(x, Len(s))
  BY Zenon DEF parseIdentifier
<1>. QED BY <1>1, FailedIs, ParsedIs

LEMMA SimpleIs ==
  ASSUME NEW t \in Seq(Byte), NEW p \in 1 .. Len(t), NEW simple \in parseSimpleValue(t, p)
  PROVE  Takes(simple, Len(t) + 1 - p)
<1>1. CASE t[p] = Quote
  <2>1. simple = parseString(t, p)
    BY <1>1 DEF parseSimpleValue
  <2>. QED BY <2>1, StringIs
<1>2. CASE t[p] # Quote /\ (IsDigit(t[p]) \/ t[p] = Minus)
  <2>1. simple = parseNumber(Word(t, p))
    BY <1>2 DEF parseSimpleValue
  <2>2. Len(Word(t, p)) \in 1 .. Len(t) + 1 - p
    BY <1>2, WordIs DEF IsAlnum
  <2>. QED BY <2>1, <2>2, NumberIs
<1>3. CASE t[p] # Quote /\ ~(IsDigit(t[p]) \/ t[p] = Minus) /\ IsAlpha(t[p])
  <2>1. simple = parseIdentifier(Word(t, p))
    BY <1>3 DEF parseSimpleValue
  <2>2. Len(Word(t, p)) \in 1 .. Len(t) + 1 - p
    BY <1>3, WordIs DEF IsAlnum
  <2>. QED BY <2>1, <2>2, IdentifierIs
<1>4. CASE t[p] # Quote /\ ~(IsDigit(t[p]) \/ t[p] = Minus) /\ ~IsAlpha(t[p])
  <2>1. simple = Failed("error")
    BY <1>4 DEF parseSimpleValue
  <2>. QED BY <2>1, FailedIs
<1>. QED BY <1>1, <1>2, <1>3, <1>4

-----------------------------------------------------------------------------
(* The inductive invariant. *)

IsArray(o, n) == o.t = "arr" /\ n \in Nat /\ o.v = [i \in 1 .. n |-> o.v[i]]

\* o is an object with the member k, or an array whose last element is k.
Inside(o, k) == IsNode(o) /\ k \in DOMAIN o.v /\ (o.t = "obj" \/ IsArray(o, k))

\* The last element of o, a new one behind it or any member may be set.
Settable(o, k) ==
    /\ IsNode(o)
    /\ \/ o.t = "obj"
       \/ k \in Nat \ {0} /\ (IsArray(o, k) \/ IsArray(o, k - 1))

PathOK(tree, path) ==
    \A i \in 1 .. Len(path) : Inside(NodeAt(tree, SubSeq(path, 1, i - 1)), path[i])

\* What a handler expects to find where its pointer points to.
NodeOK(context, o) ==
    /\ context \in {"Object", "ObjectKey"} => IsNode(o) /\ o.t = "obj"
    /\ context = "Array" => IsNode(o) /\ \E n \in Nat : IsArray(o, n)

IsPrefixOf(p, q) == Len(p) <= Len(q) /\ p = SubSeq(q, 1, Len(p))

\* What may be on the stack directly above the entry a.
Above(a, b) ==
    \/ b.context = "Value" /\ a.context \in {"Object", "Array"} /\ \E k : b.path = Append(a.path, k)
    \/ b.context = "ObjectKey" /\ a.context = "Object" /\ b.path = a.path
    \/ b.context \in {"Object", "Array"} /\ a.context = "Value" /\ b.path = a.path

IsPath(p) == \E K : p \in Seq(K)

EntryOK(e) == e = Entry(e.context, e.path) /\ e.context \in Contexts /\ IsPath(e.path)

StackOK(s) ==
    /\ \E E : s \in Seq(E)
    /\ \A i \in 1 .. Len(s) : EntryOK(s[i])
    /\ s # <<>> => s[1] = Entry("Value", <<>>)
    /\ \A i \in 2 .. Len(s) : Above(s[i - 1], s[i])
    /\ \A i, j \in 1 .. Len(s) : i <= j => IsPrefixOf(s[i].path, s[j].path)

TreeOK(tree, s) ==
    /\ s # <<>> => PathOK(tree, s[Len(s)].path)
    /\ \A i \in 1 .. Len(s) : NodeOK(s[i].context, NodeAt(tree, s[i].path))

IInv ==
    /\ text \in Seq(Byte)
    /\ pos \in 1 .. Len(text) + 1
    /\ outcome \in Outcomes
    /\ StackOK(stack)
    /\ TreeOK(result, stack)

-----------------------------------------------------------------------------
(* What a change of the tree does to the nodes on the stack. *)

LEMMA ArrayLength ==
  ASSUME NEW o, NEW n, IsArray(o, n)
  PROVE  DOMAIN o.v = 1 .. n /\ Len(o.v) = n
<1>1. o.v \in Seq({o.v[i] : i \in 1 .. n})
  BY IsASeq DEF IsArray
<1>2. DOMAIN o.v = 1 .. n /\ n \in Nat
  BY DEF IsArray
<1>3. DOMAIN o.v = 1 .. Len(o.v) /\ Len(o.v) \in Nat
  BY <1>1
<1>. QED BY <1>2, <1>3

LEMMA SetMember ==
  ASSUME NEW o, NEW k, Settable(o, k), NEW y, NEW p, p = [t |-> o.t, v |-> Put(o.v, k, y)]
  PROVE  Inside(p, k)
<1>1. p.t = o.t /\ p.v = Put(o.v, k, y) /\ IsNode(p)
  BY DEF IsNode
<1>2. DOMAIN p.v = DOMAIN o.v \union {k} /\ p.v = [i \in DOMAIN p.v |-> p.v[i]]
  BY <1>1 DEF Put
<1>3. CASE o.t = "obj"
  BY <1>1, <1>2, <1>3 DEF Inside
<1>4. CASE k \in Nat \ {0} /\ (IsArray(o, k) \/ IsArray(o, k - 1))
  <2>1. PICK n \in {k - 1, k} : IsArray(o, n)
    BY <1>4
  <2>2. DOMAIN o.v = 1 .. n /\ o.t = "arr"
    BY <2>1, ArrayLength DEF IsArray
  <2>3. (1 .. n) \union {k} = 1 .. k /\ k \in 1 .. k
    BY <1>4, <2>1
  <2>. QED BY <1>1, <1>2, <1>4, <2>2, <2>3 DEF Inside, IsArray
<1>. QED BY <1>3, <1>4 DEF Settable

OnWaySettable(tree, path) ==
    \A i \in 1 .. Len(path) : Settable(NodeAt(tree, SubSeq(path, 1, i - 1)), path[i])

SameOnWay(tree, T, path) ==
    \A i \in 1 .. Len(path) :
        NodeAt(T, SubSeq(path, 1, i - 1)).t = NodeAt(tree, SubSeq(path, 1, i - 1)).t

LEMMA Overwrite ==
  ASSUME NEW tree, NEW K, NEW path \in Seq(K), OnWaySettable(tree, path),
         NEW x, NEW T, T = With(tree, path, x)
  PROVE  NodeAt(T, path) = x /\ PathOK(T, path) /\ SameOnWay(tree, T, path)
<1>1. NodesOnWay(tree, path)
  BY DEF Settable, NodesOnWay, OnWaySettable
<1>2. Changed(tree, path, x, T)
  BY <1>1, NodesOfWith
<1>3. ASSUME NEW i \in 1 .. Len(path)
      PROVE  /\ NodeAt(T, SubSeq(path, 1, i - 1)).t = NodeAt(tree, SubSeq(path, 1, i - 1)).t
             /\ Inside(NodeAt(T, SubSeq(path, 1, i - 1)), path[i])
  <2>1. PICK o : o = NodeAt(tree, SubSeq(path, 1, i - 1))
    OBVIOUS
  <2>2. PICK p : p = NodeAt(T, SubSeq(path, 1, i - 1))
    OBVIOUS
  <2>3. PICK y : p = [t |-> o.t, v |-> Put(o.v, path[i], y)]
    BY <1>2, <2>1, <2>2 DEF Changed
  <2>4. Inside(p, path[i])
    <3>1. Settable(o, path[i])
      BY <2>1 DEF OnWaySettable
    <3>. QED BY <2>3, <3>1, SetMember
  <2>5. p.t = o.t
    BY <2>3
  <2>. QED BY <2>1, <2>2, <2>4, <2>5
<1>. QED BY <1>2, <1>3 DEF PathOK, Changed, SameOnWay

LEMMA InsideSettable ==
  ASSUME NEW o, NEW k, Inside(o, k) PROVE Settable(o, k)
<1>1. ASSUME IsArray(o, k) PROVE k \in Nat \ {0}
  BY <1>1, ArrayLength DEF Inside, IsArray
<1>. QED BY <1>1 DEF Inside, Settable

LEMMA InsideNode ==
  ASSUME NEW context, NEW o, NodeOK(context, o), NEW p, NEW k, Inside(p, k), p.t = o.t
  PROVE  NodeOK(context, p)
<1>1. ASSUME context = "Array" PROVE \E n \in Nat : IsArray(p, n)
  <2>1. o.t = "arr"
    BY <1>1 DEF NodeOK, IsArray
  <2>. QED BY <2>1 DEF Inside, IsArray
<1>. QED BY <1>1 DEF NodeOK, Inside

-----------------------------------------------------------------------------
(* What pushing and popping do to the stack. *)

LEMMA PrefixIs ==
  ASSUME NEW K, NEW q \in Seq(K), NEW p, IsPrefixOf(p, q), NEW i \in 0 .. Len(p)
  PROVE  /\ Len(p) \in Nat /\ p \in Seq(K)
         /\ SubSeq(p, 1, i) = SubSeq(q, 1, i)
         /\ i > 0 => p[i] = q[i]
<1>1. PICK n \in Nat : n = Len(p) /\ n <= Len(q) /\ p = SubSeq(q, 1, n)
  <2>1. Len(p) \in Nat
    BY DEF IsPrefixOf
  <2>. QED BY <2>1 DEF IsPrefixOf
<1>2. i \in 0 .. n
  BY <1>1
<1>3. SubSeq(SubSeq(q, 1, n), 1, i) = SubSeq(q, 1, i)
  BY <1>1, <1>2
<1>4. i > 0 => SubSeq(q, 1, n)[i] = q[i]
  BY <1>1, <1>2
<1>5. p \in Seq(K)
  BY <1>1
<1>. QED BY <1>1, <1>3, <1>4, <1>5

LEMMA PopStack ==
  ASSUME NEW s, StackOK(s), s # <<>>
  PROVE  /\ StackOK(Front(s))
         /\ Len(Front(s)) = Len(s) - 1 /\ Len(s) \in Nat \ {0}
         /\ \A i \in 1 .. Len(s) - 1 : Front(s)[i] = s[i]
<1>1. PICK E : s \in Seq(E)
  BY DEF StackOK
<1>. DEFINE f == Front(s)
<1>2. /\ f \in Seq(E) /\ Len(f) = Len(s) - 1 /\ Len(s) \in Nat \ {0} /\ Len(f) \in Nat
      /\ \A i \in 1 .. Len(f) : f[i] = s[i] /\ i \in 1 .. Len(s)
      /\ f # <<>> => 1 \in 1 .. Len(f)
  <2>1. PICK n \in Nat \ {0} : n = Len(s)
    BY <1>1
  <2>2. f = SubSeq(s, 1, n - 1)
    BY <2>1 DEF Front
  <2>3. f \in Seq(E) /\ Len(f) = n - 1 /\ \A i \in 1 .. n - 1 : f[i] = s[i]
    BY <1>1, <2>1, <2>2
  <2>. HIDE DEF f
  <2>4. f # <<>> => 1 \in 1 .. Len(f)
    BY <2>1, <2>3
  <2>. QED BY <2>1, <2>3, <2>4
<1>. HIDE DEF f
<1>3. f # <<>> => f[1] = Entry("Value", <<>>)
  BY <1>2 DEF StackOK
<1>4. ASSUME NEW i \in 2 .. Len(f) PROVE Above(f[i - 1], f[i])
  <2>1. i \in 1 .. Len(f) /\ i - 1 \in 1 .. Len(f) /\ i \in 2 .. Len(s)
    BY <1>2
  <2>. QED BY <1>2, <2>1 DEF StackOK
<1>5. StackOK(f)
  BY <1>2, <1>3, <1>4 DEF StackOK
<1>. QED BY <1>2, <1>5 DEF f

LEMMA PushStack ==
  ASSUME NEW s, StackOK(s), s # <<>>, NEW e, EntryOK(e), Above(s[Len(s)], e)
  PROVE  /\ StackOK(Append(s, e))
         /\ Len(Append(s, e)) = Len(s) + 1 /\ Len(s) \in Nat \ {0}
         /\ \A i \in 1 .. Len(s) : Append(s, e)[i] = s[i]
         /\ Append(s, e)[Len(s) + 1] = e
<1>1. PICK E : s \in Seq(E)
  BY DEF StackOK
<1>. DEFINE a == Append(s, e)
<1>. DEFINE n == Len(s)
<1>2. /\ n \in Nat \ {0} /\ Len(a) = n + 1 /\ a[n + 1] = e
      /\ \A i \in 1 .. n : a[i] = s[i]
      /\ a \in Seq(E \union {e}) /\ a # <<>>
  BY <1>1
<1>. HIDE DEF a, n
<1>3. \A i \in 1 .. Len(a) : EntryOK(a[i])
  BY <1>2 DEF StackOK, n
<1>4. a[1] = Entry("Value", <<>>)
  BY <1>2 DEF StackOK
<1>5. ASSUME NEW i \in 2 .. Len(a) PROVE Above(a[i - 1], a[i])
  <2>1. CASE i = n + 1
    <3>1. i - 1 = n /\ n \in 1 .. n
      BY <1>2, <2>1
    <3>. QED BY <1>2, <2>1, <3>1 DEF n
  <2>2. CASE i # n + 1
    <3>1. i \in 1 .. n /\ i - 1 \in 1 .. n /\ i \in 2 .. n
      BY <1>2, <2>2
    <3>. QED BY <1>2, <3>1 DEF StackOK, n
  <2>. QED BY <2>1, <2>2
<1>6. ASSUME NEW i \in 1 .. n PROVE IsPrefixOf(s[i].path, e.path)
  <2>1. IsPrefixOf(s[i].path, s[n].path) /\ EntryOK(s[n])
    BY <1>2 DEF StackOK, n
  <2>2. PICK K : e.path \in Seq(K)
    BY DEF EntryOK, IsPath
  <2>3. PICK L : s[n].path \in Seq(L)
    BY <2>1 DEF EntryOK, IsPath
  <2>4. IsPrefixOf(s[n].path, e.path)
    <3>1. CASE e.path = s[n].path
      BY <2>2, <3>1 DEF IsPrefixOf
    <3>2. CASE \E k : e.path = Append(s[n].path, k)
      BY <2>3, <3>2 DEF IsPrefixOf
    <3>. QED BY <3>1, <3>2 DEF Above, n
  <2>5. PICK m \in Nat : m = Len(s[i].path) /\ m <= Len(s[n].path) /\ s[i].path = SubSeq(s[n].path, 1, m)
    <3>1. Len(s[i].path) \in Nat
      BY <2>1, <2>3, PrefixIs DEF IsPrefixOf
    <3>. QED BY <2>1, <3>1 DEF IsPrefixOf
  <2>6. SubSeq(s[n].path, 1, m) = SubSeq(e.path, 1, m) /\ Len(s[n].path) <= Len(e.path)
    BY <2>2, <2>4, <2>5, PrefixIs DEF IsPrefixOf
  <2>7. Len(s[n].path) \in Nat /\ Len(e.path) \in Nat
    BY <2>2, <2>3
  <2>8. m <= Len(e.path)
    BY <2>5, <2>6, <2>7
  <2>. QED BY <2>5, <2>6, <2>8 DEF IsPrefixOf
<1>7. ASSUME NEW i \in 1 .. Len(a), NEW j \in 1 .. Len(a), i <= j PROVE IsPrefixOf(a[i].path, a[j].path)
  <2>1. CASE j = n + 1 /\ i # n + 1
    <3>1. i \in 1 .. n
      BY <1>2, <2>1
    <3>. QED BY <1>2, <1>6, <2>1, <3>1
  <2>2. CASE j = n + 1 /\ i = n + 1
    <3>1. PICK K : e.path \in Seq(K)
      BY DEF EntryOK, IsPath
    <3>2. IsPrefixOf(e.path, e.path)
      BY <3>1 DEF IsPrefixOf
    <3>. QED BY <1>2, <2>2, <3>2
  <2>3. CASE j # n + 1
    <3>1. i \in 1 .. n /\ j \in 1 .. n
      BY <1>2, <1>7, <2>3
    <3>. QED BY <1>2, <1>7, <3>1 DEF StackOK, n
  <2>. QED BY <2>1, <2>2, <2>3
<1>8. StackOK(a)
  BY <1>2, <1>3, <1>4, <1>5, <1>7 DEF StackOK
<1>. QED BY <1>2, <1>8 DEF a, n

LEMMA PathAt ==
  ASSUME NEW s, StackOK(s), NEW i \in 1 .. Len(s)
  PROVE  \E K : s[i].path \in Seq(K)
BY DEF StackOK, EntryOK, IsPath

-----------------------------------------------------------------------------
(* What pushing, popping and a change of the tree do to the stack and the   *)
(* tree together.                                                          *)

LEMMA Popped ==
  ASSUME NEW s, StackOK(s), s # <<>>, NEW tree, TreeOK(tree, s)
  PROVE  TreeOK(tree, Front(s))
<1>. DEFINE f == Front(s)
<1>1. /\ Len(f) = Len(s) - 1 /\ Len(s) \in Nat \ {0} /\ StackOK(f)
      /\ \A i \in 1 .. Len(f) : f[i] = s[i] /\ i \in 1 .. Len(s)
  BY PopStack
<1>2. f # <<>> => Len(f) \in 1 .. Len(f)
  <2>1. \E E : f \in Seq(E)
    BY <1>1 DEF StackOK
  <2>. HIDE DEF f
  <2>. QED BY <2>1
<1>. HIDE DEF f
<1>3. ASSUME f # <<>> PROVE PathOK(tree, f[Len(f)].path)
  <2>1. PICK p : p = f[Len(f)].path
    OBVIOUS
  <2>2. PICK q : q = s[Len(s)].path
    OBVIOUS
  <2>3. Len(f) \in 1 .. Len(s) /\ Len(s) \in 1 .. Len(s) /\ Len(f) <= Len(s) /\ f[Len(f)] = s[Len(f)]
    BY <1>1, <1>2, <1>3
  <2>4. IsPrefixOf(p, q)
    BY <2>1, <2>2, <2>3 DEF StackOK
  <2>5. PICK K : q \in Seq(K)
    BY <2>2, <2>3, PathAt
  <2>6. s # <<>> /\ PathOK(tree, q)
    BY <2>2 DEF TreeOK
  <2>7. Len(p) \in Nat /\ Len(q) \in Nat /\ Len(p) <= Len(q)
    <3>1. 0 \in 0 .. Len(p) => Len(p) \in Nat
      BY <2>4, <2>5, PrefixIs
    <3>2. p \in Seq(K)
      BY <2>4, <2>5 DEF IsPrefixOf
    <3>. QED BY <2>4, <2>5, <3>2 DEF IsPrefixOf
  <2>8. ASSUME NEW i \in 1 .. Len(p) PROVE Inside(NodeAt(tree, SubSeq(p, 1, i - 1)), p[i])
    <3>1. i \in 0 .. Len(p) /\ i - 1 \in 0 .. Len(p) /\ i > 0 /\ i \in 1 .. Len(q)
      BY <2>7
    <3>2. SubSeq(p, 1, i - 1) = SubSeq(q, 1, i - 1) /\ p[i] = q[i]
      BY <2>4, <2>5, <3>1, PrefixIs
    <3>. QED BY <2>6, <3>1, <3>2 DEF PathOK
  <2>. QED BY <2>1, <2>8 DEF PathOK
<1>4. \A i \in 1 .. Len(f) : NodeOK(f[i].context, NodeAt(tree, f[i].path))
  BY <1>1 DEF TreeOK
<1>5. TreeOK(tree, f)
  BY <1>3, <1>4 DEF TreeOK
<1>. QED BY <1>5 DEF f

LEMMA Pushed ==
  ASSUME NEW s, StackOK(s), s # <<>>, NEW tree, TreeOK(tree, s),
         NEW e, e.path = s[Len(s)].path, NodeOK(e.context, NodeAt(tree, e.path))
  PROVE  TreeOK(tree, Append(s, e))
<1>1. PICK a : a = Append(s, e)
  OBVIOUS
<1>2. PICK n \in Nat \ {0} : /\ n = Len(s) /\ Len(a) = n + 1 /\ a[n + 1] = e
                             /\ \A i \in 1 .. n : a[i] = s[i]
  <2>1. PICK E : s \in Seq(E)
    BY DEF StackOK
  <2>. QED BY <1>1, <2>1
<1>3. PathOK(tree, a[Len(a)].path)
  BY <1>2 DEF TreeOK
<1>4. ASSUME NEW i \in 1 .. Len(a) PROVE NodeOK(a[i].context, NodeAt(tree, a[i].path))
  <2>1. CASE i = n + 1
    BY <1>2, <2>1
  <2>2. CASE i # n + 1
    <3>1. i \in 1 .. n
      BY <1>2, <2>2
    <3>. QED BY <1>2, <3>1 DEF TreeOK
  <2>. QED BY <2>1, <2>2
<1>. QED BY <1>1, <1>3, <1>4 DEF TreeOK

\* Below a value on the stack the paths are shorter.
LEMMA Below ==
  ASSUME NEW s, StackOK(s), s # <<>>, s[Len(s)].context = "Value", NEW i \in 1 .. Len(s) - 1
  PROVE  /\ IsPrefixOf(s[i].path, s[Len(s)].path)
         /\ Len(s[i].path) \in Nat /\ Len(s[i].path) < Len(s[Len(s)].path)
<1>1. PICK n \in Nat \ {0} : n = Len(s)
  <2>1. \E E : s \in Seq(E)
    BY DEF StackOK
  <2>. QED BY <2>1
<1>2. /\ n \in 2 .. Len(s) /\ n \in 1 .. Len(s) /\ n - 1 \in 1 .. Len(s) /\ i \in 1 .. Len(s)
      /\ i <= n - 1 /\ i <= n
  BY <1>1
<1>3. PICK k : s[n].path = Append(s[n - 1].path, k)
  <2>1. Above(s[n - 1], s[n])
    BY <1>2 DEF StackOK
  <2>. QED BY <1>1, <2>1 DEF Above
<1>4. PICK L : s[n - 1].path \in Seq(L)
  BY <1>2, PathAt
<1>5. IsPrefixOf(s[i].path, s[n - 1].path) /\ IsPrefixOf(s[i].path, s[n].path)
  BY <1>2 DEF StackOK
<1>6. PICK J : s[i].path \in Seq(J)
  BY <1>2, PathAt
<1>7. Len(s[i].path) \in Nat /\ Len(s[i].path) <= Len(s[n - 1].path)
  BY <1>5, <1>6 DEF IsPrefixOf
<1>8. Len(s[n].path) = Len(s[n - 1].path) + 1 /\ Len(s[n - 1].path) \in Nat
  BY <1>3, <1>4
<1>. QED BY <1>1, <1>5, <1>7, <1>8

\* All entries but the one on top find what they expect.
LowerOK(tree, s) == \A i \in 1 .. Len(s) - 1 : NodeOK(s[i].context, NodeAt(tree, s[i].path))

ValueOnTop(s, path) == s # <<>> /\ s[Len(s)].context = "Value" /\ path = s[Len(s)].path

LEMMA Rewritten ==
  ASSUME NEW s, StackOK(s), NEW path, ValueOnTop(s, path),
         NEW tree, LowerOK(tree, s), OnWaySettable(tree, path),
         NEW x, NEW T, T = With(tree, path, x)
  PROVE  TreeOK(T, s) /\ NodeAt(T, path) = x
<1>. USE DEF ValueOnTop
<1>1. PICK n \in Nat \ {0} : n = Len(s)
  <2>1. \E E : s \in Seq(E)
    BY DEF StackOK
  <2>. QED BY <2>1
<1>2. PICK K : path \in Seq(K)
  <2>1. n \in 1 .. Len(s)
    BY <1>1
  <2>. QED BY <1>1, <2>1, PathAt
<1>4. NodeAt(T, path) = x /\ PathOK(T, path) /\ SameOnWay(tree, T, path)
  BY <1>2, Overwrite
<1>5. ASSUME NEW i \in 1 .. n - 1 PROVE NodeOK(s[i].context, NodeAt(T, s[i].path))
  <2>1. PICK p : p = s[i].path
    OBVIOUS
  <2>2. IsPrefixOf(p, path) /\ Len(p) \in Nat /\ Len(p) < Len(path)
    BY <1>1, <2>1, Below
  <2>3. PICK m \in Nat : m = Len(p) /\ p = SubSeq(path, 1, (m + 1) - 1) /\ m + 1 \in 1 .. Len(path)
    <3>1. PICK m \in Nat : m = Len(p)
      BY <2>2
    <3>2. Len(path) \in Nat
      BY <1>2
    <3>3. m + 1 \in 1 .. Len(path) /\ (m + 1) - 1 = m
      BY <2>2, <3>1, <3>2
    <3>. QED BY <2>2, <3>1, <3>3 DEF IsPrefixOf
  <2>4. NodeAt(T, p).t = NodeAt(tree, p).t /\ Inside(NodeAt(T, p), path[m + 1])
    BY <1>4, <2>3 DEF PathOK, SameOnWay
  <2>5. NodeOK(s[i].context, NodeAt(tree, p))
    BY <1>1, <2>1 DEF LowerOK
  <2>. QED BY <2>1, <2>4, <2>5, InsideNode
<1>6. NodeOK("Value", NodeAt(T, path))
  BY DEF NodeOK
<1>7. ASSUME NEW i \in 1 .. Len(s) PROVE NodeOK(s[i].context, NodeAt(T, s[i].path))
  <2>1. CASE i = n
    BY <1>1, <1>6, <2>1
  <2>2. CASE i # n
    <3>1. i \in 1 .. n - 1
      BY <1>1, <2>2
    <3>. QED BY <1>5, <3>1
  <2>. QED BY <2>1, <2>2
<1>. QED BY <1>4, <1>7 DEF TreeOK

LEMMA PathSettable ==
  ASSUME NEW tree, NEW path, PathOK(tree, path) PROVE OnWaySettable(tree, path)
BY InsideSettable DEF PathOK, OnWaySettable

LEMMA MemberSettable ==
  ASSUME NEW tree, NEW K, NEW path \in Seq(K), PathOK(tree, path), NEW k, Settable(NodeAt(tree, path), k)
  PROVE  OnWaySettable(tree, Append(path, k))
<1>1. PICK q : q = Append(path, k)
  OBVIOUS
<1>2. ASSUME NEW i \in 1 .. Len(q) PROVE Settable(NodeAt(tree, SubSeq(q, 1, i - 1)), q[i])
  <2>1. CASE i = Len(path) + 1
    <3>1. SubSeq(q, 1, i - 1) = path /\ q[i] = k
      BY <1>1, <2>1
    <3>. QED BY <3>1
  <2>2. CASE i # Len(path) + 1
    <3>1. i \in 1 .. Len(path) /\ SubSeq(q, 1, i - 1) = SubSeq(path, 1, i - 1) /\ q[i] = path[i]
      BY <1>1, <2>2
    <3>. QED BY <3>1, InsideSettable DEF PathOK
  <2>. QED BY <2>1, <2>2
<1>. QED BY <1>1, <1>2 DEF OnWaySettable

-----------------------------------------------------------------------------
(* The invariant is inductive. *)

LEMMA InitHolds ==
  ASSUME NEW t \in Inputs, ParserInit(t) PROVE IInv
<1>1. text \in Seq(Byte) /\ pos \in 1 .. Len(text) + 1 /\ outcome \in Outcomes
  <2>1. text \in Seq(Byte) /\ Len(text) \in Nat
    BY InputsAssumption DEF ParserInit
  <2>. QED BY <2>1 DEF ParserInit, Outcomes
<1>. DEFINE e == Entry("Value", <<>>)
<1>2. e.context = "Value" /\ e.path = <<>> /\ Len(<<>>) = 0
  BY DEF Entry
<1>3. EntryOK(e) /\ IsPrefixOf(e.path, e.path)
  <2>1. <<>> \in Seq({}) /\ <<>> = SubSeq(<<>>, 1, 0)
    OBVIOUS
  <2>. QED BY <1>2, <2>1 DEF EntryOK, IsPath, IsPrefixOf, Contexts, Entry
<1>4. stack \in Seq({e}) /\ Len(stack) = 1 /\ stack[1] = e
  BY DEF ParserInit
<1>. HIDE DEF e
<1>5. StackOK(stack)
  <2>1. \A i \in 1 .. Len(stack) : i = 1
    BY <1>4
  <2>2. \A i \in 2 .. Len(stack) : FALSE
    BY <1>4
  <2>. QED BY <1>3, <1>4, <2>1, <2>2 DEF StackOK, e
<1>6. TreeOK(result, stack)
  <2>1. \A i \in 1 .. Len(stack) : i = 1
    BY <1>4
  <2>2. PathOK(result, <<>>)
    BY DEF PathOK
  <2>. QED BY <1>2, <1>4, <2>1, <2>2 DEF TreeOK, NodeOK
<1>. QED BY <1>1, <1>5, <1>6 DEF IInv

\* What IInv says of the top of the stack.
TopOK(K) ==
    /\ Len(stack) \in Nat \ {0}
    /\ Current = stack[Len(stack)]
    /\ Current.path \in Seq(K)
    /\ EntryOK(Current)
    /\ PathOK(result, Current.path)
    /\ NodeOK(Current.context, At(Current.path))

LEMMA TopIs ==
  ASSUME IInv, stack # <<>> PROVE \E K : TopOK(K)
<1>1. Len(stack) \in Nat \ {0}
  <2>1. \E E : stack \in Seq(E)
    BY DEF IInv, StackOK
  <2>. QED BY <2>1
<1>2. Len(stack) \in 1 .. Len(stack) /\ Current = stack[Len(stack)]
  BY <1>1 DEF Current, Last
<1>3. EntryOK(Current) /\ PathOK(result, Current.path) /\ NodeOK(Current.context, At(Current.path))
  BY <1>2 DEF IInv, StackOK, TreeOK, At
<1>. QED BY <1>1, <1>2, <1>3 DEF TopOK, EntryOK, IsPath

\* What a step has to show of the new state.
LEMMA Continues ==
  ASSUME IInv, NEW next, next \in 1 .. Len(text) + 1, NEW s, NEW T,
         StackOK(s), TreeOK(T, s), Continue(next, s, T)
  PROVE  IInv'
<1>1. StackOK(stack)'
  <2>1. stack' = s
    BY DEF Continue
  <2>. QED BY <2>1
<1>2. TreeOK(result, stack)'
  <2>1. stack' = s /\ result' = T
    BY DEF Continue
  <2>. QED BY <2>1
<1>. QED BY <1>1, <1>2 DEF IInv, Continue, Outcomes

LEMMA Finishes ==
  ASSUME IInv, NEW how \in Outcomes, Finish(how) PROVE IInv'
<1>1. StackOK(stack)'
  <2>1. stack' = stack
    BY DEF Finish
  <2>. QED BY <2>1 DEF IInv
<1>2. TreeOK(result, stack)'
  <2>1. stack' = stack /\ result' = result
    BY DEF Finish
  <2>. QED BY <2>1 DEF IInv
<1>. QED BY <1>1, <1>2 DEF IInv, Finish, Outcomes

\* What every iteration starts with.
LEMMA Iteration ==
  ASSUME IInv, NEW context, NEW p, p = SkipFrom(pos), Handles(context, p)
  PROVE  /\ text \in Seq(Byte) /\ Len(text) \in Nat
         /\ p \in 1 .. Len(text) /\ p >= pos /\ p + 1 \in 1 .. Len(text) + 1
         /\ stack # <<>> /\ Current.context = context
         /\ StackOK(stack) /\ TreeOK(result, stack)
<1>1. text \in Seq(Byte) /\ pos \in 1 .. Len(text) + 1
  BY DEF IInv
<1>2. p \in pos .. Len(text) + 1 /\ p <= Len(text) /\ Len(text) \in Nat
  BY <1>1, SkipIs DEF Handles
<1>3. p \in 1 .. Len(text) /\ p >= pos /\ p + 1 \in 1 .. Len(text) + 1
  BY <1>1, <1>2
<1>. QED BY <1>1, <1>2, <1>3 DEF IInv, Handles

\* The stack and the tree when x is set where a value on top of the stack points to.
LEMMA SetOnTop ==
  ASSUME NEW s, StackOK(s), s # <<>>, NEW tree, TreeOK(tree, s), s[Len(s)].context = "Value",
         NEW x, NEW T, T = With(tree, s[Len(s)].path, x)
  PROVE  TreeOK(T, s) /\ NodeAt(T, s[Len(s)].path) = x
<1>1. Len(s) \in Nat \ {0}
  <2>1. \E E : s \in Seq(E)
    BY DEF StackOK
  <2>. QED BY <2>1
<1>2. PICK path : path = s[Len(s)].path
  OBVIOUS
<1>3. OnWaySettable(tree, path)
  BY <1>2, PathSettable DEF TreeOK
<1>4. LowerOK(tree, s)
  BY <1>1 DEF TreeOK, LowerOK
<1>5. T = With(tree, path, x)
  BY <1>2
<1>6. TreeOK(T, s) /\ NodeAt(T, path) = x
  <2>1. ValueOnTop(s, path)
    BY <1>2 DEF ValueOnTop
  <2>. QED BY <2>1, <1>3, <1>4, <1>5, Rewritten
<1>. QED BY <1>2, <1>6

LEMMA Opened ==
  ASSUME IInv, NEW context \in {"Object", "Array"}, NEW p, p = SkipFrom(pos), Handles("Value", p),
         NEW x, NodeOK(context, x),
         Continue(p + 1, Append(stack, Entry(context, Current.path)), Set(Current.path, x))
  PROVE  IInv'
<1>1. p + 1 \in 1 .. Len(text) + 1 /\ stack # <<>> /\ Current.context = "Value"
      /\ StackOK(stack) /\ TreeOK(result, stack)
  BY Iteration
<1>2. PICK K : TopOK(K)
  BY <1>1, TopIs
<1>3. PICK e : e = Entry(context, Current.path)
  OBVIOUS
<1>4. e.context = context /\ e.path = Current.path /\ EntryOK(e) /\ Above(stack[Len(stack)], e)
  BY <1>1, <1>2, <1>3 DEF TopOK, EntryOK, Entry, Contexts, Above
<1>5. PICK T : T = Set(Current.path, x)
  OBVIOUS
<1>6. TreeOK(T, stack) /\ NodeAt(T, Current.path) = x
  BY <1>1, <1>2, <1>5, SetOnTop DEF TopOK, Set
<1>7. StackOK(Append(stack, e))
  BY <1>1, <1>4, PushStack
<1>8. TreeOK(T, Append(stack, e))
  BY <1>1, <1>2, <1>4, <1>6, Pushed DEF TopOK
<1>. QED BY <1>1, <1>3, <1>5, <1>7, <1>8, Continues

LEMMA EmptyNodes == NodeOK("Object", Obj(EmptyMap)) /\ NodeOK("Array", Arr(<<>>))
<1>1. NodeOK("Object", Obj(EmptyMap))
  BY DEF NodeOK, IsNode, Obj
<1>2. IsArray(Arr(<<>>), 0)
  <2>1. <<>> = [i \in 1 .. 0 |-> <<>>[i]]
    OBVIOUS
  <2>. QED BY <2>1 DEF IsArray, Arr
<1>3. NodeOK("Array", Arr(<<>>))
  BY <1>2 DEF NodeOK, IsNode, Arr
<1>. QED BY <1>1, <1>3

LEMMA ValueStep ==
  ASSUME IInv, handleValue PROVE IInv'
<1>1. PICK p : p = SkipFrom(pos) /\ Handles("Value", p)
               /\ \/ /\ text[p] = LBrace
                     /\ Continue(p + 1, Append(stack, Entry("Object", Current.path)),
                                 Set(Current.path, Obj(EmptyMap)))
                  \/ /\ text[p] = LBracket
                     /\ Continue(p + 1, Append(stack, Entry("Array", Current.path)),
                                 Set(Current.path, Arr(<<>>)))
                  \/ \E simple \in parseSimpleValue(text, p) :
                        IF simple.outcome = "value"
                        THEN Continue(p + simple.length, popState, Set(Current.path, simple.value))
                        ELSE Finish(simple.outcome)
  BY Zenon DEF handleValue
<1>2. /\ text \in Seq(Byte) /\ Len(text) \in Nat /\ p \in 1 .. Len(text)
      /\ stack # <<>> /\ Current.context = "Value" /\ StackOK(stack) /\ TreeOK(result, stack)
  BY <1>1, Iteration
<1>3. CASE Continue(p + 1, Append(stack, Entry("Object", Current.path)),
                    Set(Current.path, Obj(EmptyMap)))
  BY <1>1, <1>3, EmptyNodes, Opened
<1>4. CASE Continue(p + 1, Append(stack, Entry("Array", Current.path)),
                    Set(Current.path, Arr(<<>>)))
  BY <1>1, <1>4, EmptyNodes, Opened
<1>5. ASSUME NEW simple \in parseSimpleValue(text, p), simple.outcome = "value",
             Continue(p + simple.length, popState, Set(Current.path, simple.value))
      PROVE  IInv'
  <2>1. simple.length \in 1 .. Len(text) + 1 - p
    BY <1>2, <1>5, SimpleIs DEF Takes
  <2>2. p + simple.length \in 1 .. Len(text) + 1
    BY <1>2, <2>1
  <2>3. PICK K : TopOK(K)
    BY <1>2, TopIs
  <2>4. PICK T : T = Set(Current.path, simple.value)
    OBVIOUS
  <2>5. TreeOK(T, stack)
    BY <1>2, <2>3, <2>4, SetOnTop DEF TopOK, Set
  <2>6. StackOK(popState) /\ TreeOK(T, popState)
    BY <1>2, <2>5, PopStack, Popped DEF popState
  <2>. QED BY <1>5, <2>2, <2>4, <2>6, Continues
<1>6. ASSUME NEW simple \in parseSimpleValue(text, p), simple.outcome # "value",
             Finish(simple.outcome)
      PROVE  IInv'
  <2>1. simple.outcome \in Outcomes
    BY <1>2, <1>6, SimpleIs DEF Takes, Outcomes
  <2>. QED BY <1>6, <2>1, Finishes
<1>. QED BY <1>1, <1>3, <1>4, <1>5, <1>6

LEMMA CloseStep ==
  ASSUME IInv, NEW context \in {"Object", "Array"}, NEW p, p = SkipFrom(pos), Handles(context, p), Close(p)
  PROVE  IInv'
<1>1. p + 1 \in 1 .. Len(text) + 1 /\ stack # <<>> /\ Current.context = context
      /\ StackOK(stack) /\ TreeOK(result, stack)
  BY Iteration
<1>2. PICK K : TopOK(K)
  BY <1>1, TopIs
<1>3. StackOK(popState) /\ TreeOK(result, popState) /\ Len(popState) = Len(stack) - 1
  BY <1>1, PopStack, Popped DEF popState
<1>4. Len(stack) # 1
  <2>1. stack[1] = Entry("Value", <<>>)
    BY <1>1 DEF StackOK
  <2>2. stack[1].context # context
    BY <2>1 DEF Entry
  <2>. QED BY <1>1, <1>2, <2>2 DEF TopOK
<1>5. popState # <<>>
  <2>1. Len(popState) # 0
    BY <1>2, <1>3, <1>4 DEF TopOK
  <2>2. Len(<<>>) = 0
    OBVIOUS
  <2>. QED BY <2>1, <2>2
<1>6. StackOK(Front(popState)) /\ TreeOK(result, Front(popState))
  BY <1>3, <1>5, PopStack, Popped
<1>. QED BY <1>1, <1>6, Continues DEF Close

\* Where handleObject and handleArray go on is in the text, or at its end.
LEMMA ElementIs ==
  ASSUME text \in Seq(Byte), NEW p \in 1 .. Len(text), NEW closing, NEW next,
         next = ElementAt(p, closing), next # 0
  PROVE  next \in p .. Len(text) + 1
<1>1. p + 1 \in 1 .. Len(text) + 1 /\ p \in p .. Len(text) + 1 /\ Len(text) \in Nat
  OBVIOUS
<1>2. SkipFrom(p + 1) \in p + 1 .. Len(text) + 1
  BY <1>1, SkipIs
<1>3. next = p \/ next = SkipFrom(p + 1)
  BY Zenon DEF ElementAt
<1>. QED BY <1>1, <1>2, <1>3

LEMMA ObjectStep ==
  ASSUME IInv, handleObject PROVE IInv'
<1>1. PICK p : /\ p = SkipFrom(pos) /\ Handles("Object", p)
               /\ \/ Close(p)
                  \/ Finish("error")
                  \/ \E next : /\ next = ElementAt(p, RBrace) /\ next # 0
                               /\ Continue(next, Append(stack, Entry("ObjectKey", Current.path)), result)
  BY Zenon DEF handleObject
<1>2. /\ text \in Seq(Byte) /\ Len(text) \in Nat /\ p \in 1 .. Len(text)
      /\ stack # <<>> /\ Current.context = "Object" /\ StackOK(stack) /\ TreeOK(result, stack)
  BY <1>1, Iteration
<1>3. CASE Close(p)
  BY <1>1, <1>3, CloseStep
<1>4. CASE Finish("error")
  BY <1>4, Finishes DEF Outcomes
<1>5. ASSUME NEW next, next = ElementAt(p, RBrace), next # 0,
             Continue(next, Append(stack, Entry("ObjectKey", Current.path)), result)
      PROVE  IInv'
  <2>1. next \in 1 .. Len(text) + 1
    <3>1. next \in p .. Len(text) + 1
      BY <1>2, <1>5, ElementIs
    <3>. QED BY <1>2, <3>1
  <2>2. PICK K : TopOK(K)
    BY <1>2, TopIs
  <2>3. PICK e : e = Entry("ObjectKey", Current.path)
    OBVIOUS
  <2>4. e.context = "ObjectKey" /\ e.path = Current.path /\ EntryOK(e) /\ Above(stack[Len(stack)], e)
    BY <1>2, <2>2, <2>3 DEF TopOK, EntryOK, Entry, Contexts, Above
  <2>5. NodeOK("ObjectKey", NodeAt(result, e.path))
    BY <1>2, <2>2, <2>4 DEF TopOK, NodeOK, At
  <2>6. StackOK(Append(stack, e))
    BY <1>2, <2>4, PushStack
  <2>7. TreeOK(result, Append(stack, e))
    BY <1>2, <2>2, <2>4, <2>5, Pushed DEF TopOK
  <2>. QED BY <1>5, <2>1, <2>3, <2>6, <2>7, Continues
<1>. QED BY <1>1, <1>3, <1>4, <1>5

\* The stack and the tree when a value on top of the stack points to a member k of the value of
\* the entry below it, and k is set.
LEMMA Entered ==
  ASSUME IInv, NEW s, StackOK(s), s # <<>>, TreeOK(result, s), s[Len(s)].context \in {"Object", "Array"},
         NEW k, Settable(NodeAt(result, s[Len(s)].path), k),
         NEW path, path = Append(s[Len(s)].path, k), NEW next, next \in 1 .. Len(text) + 1,
         Continue(next, Append(s, Entry("Value", path)), Set(path, Null))
  PROVE  IInv'
<1>1. PICK n \in Nat \ {0} : n = Len(s)
  <2>1. \E E : s \in Seq(E)
    BY DEF StackOK
  <2>. QED BY <2>1
<1>2. PICK K : s[n].path \in Seq(K)
  <2>1. n \in 1 .. Len(s)
    BY <1>1
  <2>. QED BY <1>1, <2>1, PathAt
<1>3. PICK e : e = Entry("Value", path)
  OBVIOUS
<1>4. e.context = "Value" /\ e.path = path /\ EntryOK(e) /\ Above(s[Len(s)], e)
  <2>1. path \in Seq(K \union {k})
    BY <1>1, <1>2
  <2>. QED BY <1>3, <2>1 DEF EntryOK, Entry, IsPath, Contexts, Above
<1>5. PICK a : a = Append(s, e)
  OBVIOUS
<1>6. /\ StackOK(a) /\ Len(a) = n + 1 /\ a[n + 1] = e
      /\ \A i \in 1 .. n : a[i] = s[i]
  BY <1>1, <1>4, <1>5, PushStack
<1>7. LowerOK(result, a)
  <2>1. Len(a) - 1 = n
    BY <1>6
  <2>. QED BY <1>1, <1>6, <2>1 DEF LowerOK, TreeOK
<1>8. OnWaySettable(result, path)
  <2>1. PathOK(result, s[n].path)
    BY <1>1 DEF TreeOK
  <2>. QED BY <1>1, <1>2, <2>1, MemberSettable
<1>9. PICK T : T = Set(path, Null)
  OBVIOUS
<1>10. TreeOK(T, a)
  <2>1. ValueOnTop(a, path)
    <3>1. Len(<<>>) = 0 /\ Len(a) # 0
      BY <1>6
    <3>. QED BY <1>4, <1>6, <3>1 DEF ValueOnTop
  <2>2. T = With(result, path, Null)
    BY <1>9 DEF Set
  <2>. QED BY <1>6, <1>7, <1>8, <2>1, <2>2, Rewritten
<1>. QED BY <1>3, <1>5, <1>6, <1>9, <1>10, Continues

LEMMA KeyStep ==
  ASSUME IInv, handleObjectKey PROVE IInv'
<1>1. PICK p : /\ p = SkipFrom(pos) /\ Handles("ObjectKey", p)
               /\ \/ Finish("error")
                  \/ \E key, colon, path :
                        /\ key = parseString(text, p) /\ key.outcome = "value"
                        /\ colon = SkipFrom(p + key.length) /\ HasCharAt(text, colon, Colon)
                        /\ path = Append(Current.path, key.value.v)
                        /\ Continue(colon + 1, Append(popState, Entry("Value", path)), Set(path, Null))
  BY Zenon DEF handleObjectKey
<1>2. /\ text \in Seq(Byte) /\ Len(text) \in Nat /\ p \in 1 .. Len(text)
      /\ stack # <<>> /\ Current.context = "ObjectKey" /\ StackOK(stack) /\ TreeOK(result, stack)
  BY <1>1, Iteration
<1>3. CASE Finish("error")
  BY <1>3, Finishes DEF Outcomes
<1>4. ASSUME NEW key, NEW colon, NEW path,
             key = parseString(text, p), key.outcome = "value",
             colon = SkipFrom(p + key.length), HasCharAt(text, colon, Colon),
             path = Append(Current.path, key.value.v),
             Continue(colon + 1, Append(popState, Entry("Value", path)), Set(path, Null))
      PROVE  IInv'
  <2>1. key.length \in 1 .. Len(text) + 1 - p
    BY <1>2, <1>4, StringIs DEF Takes
  <2>2. p + key.length \in 1 .. Len(text) + 1
    BY <1>2, <2>1
  <2>3. colon \in 1 .. Len(text) + 1
    <3>1. colon \in p + key.length .. Len(text) + 1
      BY <1>2, <1>4, <2>2, SkipIs
    <3>. QED BY <2>2, <3>1
  <2>4. colon + 1 \in 1 .. Len(text) + 1
    BY <1>2, <1>4, <2>3 DEF HasCharAt
  <2>5. PICK n \in Nat \ {0} : n = Len(stack) /\ Current = stack[n]
    BY <1>2, TopIs DEF TopOK
  <2>6. n # 1
    <3>1. stack[1] = Entry("Value", <<>>)
      BY <1>2 DEF StackOK
    <3>2. stack[1].context # "ObjectKey"
      BY <3>1 DEF Entry
    <3>. QED BY <1>2, <2>5, <3>2
  <2>7. stack[n - 1].context = "Object" /\ stack[n - 1].path = Current.path
    <3>1. n \in 2 .. Len(stack)
      BY <2>5, <2>6
    <3>2. Above(stack[n - 1], stack[n])
      BY <1>2, <3>1 DEF StackOK
    <3>. QED BY <1>2, <2>5, <3>2 DEF Above
  <2>8. PICK s : s = popState
    OBVIOUS
  <2>9. StackOK(s) /\ TreeOK(result, s) /\ Len(s) = n - 1 /\ s[n - 1] = stack[n - 1]
    <3>1. n - 1 \in 1 .. Len(stack) - 1
      BY <2>5, <2>6
    <3>. QED BY <1>2, <2>5, <2>8, <3>1, PopStack, Popped DEF popState
  <2>10. s # <<>>
    <3>1. Len(<<>>) = 0 /\ Len(s) # 0
      BY <2>5, <2>6, <2>9
    <3>. QED BY <3>1
  <2>11. Settable(NodeAt(result, s[Len(s)].path), key.value.v)
    <3>1. NodeOK("Object", NodeAt(result, s[Len(s)].path))
      <4>1. Len(s) \in 1 .. Len(s)
        BY <2>5, <2>6, <2>9
      <4>. QED BY <2>7, <2>9, <4>1 DEF TreeOK
    <3>. QED BY <3>1 DEF NodeOK, Settable
  <2>. QED BY <1>4, <2>4, <2>7, <2>8, <2>9, <2>10, <2>11, Entered
<1>. QED BY <1>1, <1>3, <1>4

LEMMA ArrayStep ==
  ASSUME IInv, handleArray PROVE IInv'
<1>1. PICK p : /\ p = SkipFrom(pos) /\ Handles("Array", p)
               /\ \/ Close(p)
                  \/ Finish("error")
                  \/ \E next, path :
                        /\ next = ElementAt(p, RBracket) /\ next # 0
                        /\ path = Append(Current.path, Len(At(Current.path).v) + 1)
                        /\ Continue(next, Append(stack, Entry("Value", path)), Set(path, Null))
  BY Zenon DEF handleArray
<1>2. /\ text \in Seq(Byte) /\ Len(text) \in Nat /\ p \in 1 .. Len(text)
      /\ stack # <<>> /\ Current.context = "Array" /\ StackOK(stack) /\ TreeOK(result, stack)
  BY <1>1, Iteration
<1>3. CASE Close(p)
  BY <1>1, <1>3, CloseStep
<1>4. CASE Finish("error")
  BY <1>4, Finishes DEF Outcomes
<1>5. ASSUME NEW next, NEW path, next = ElementAt(p, RBracket), next # 0,
             path = Append(Current.path, Len(At(Current.path).v) + 1),
             Continue(next, Append(stack, Entry("Value", path)), Set(path, Null))
      PROVE  IInv'
  <2>1. next \in 1 .. Len(text) + 1
    <3>1. next \in p .. Len(text) + 1
      BY <1>2, <1>5, ElementIs
    <3>. QED BY <1>2, <3>1
  <2>2. PICK K : TopOK(K)
    BY <1>2, TopIs
  <2>3. PICK o : o = At(Current.path) /\ IsNode(o)
    BY <1>2, <2>2 DEF TopOK, NodeOK
  <2>4. PICK m \in Nat : IsArray(o, m)
    BY <1>2, <2>2, <2>3 DEF TopOK, NodeOK
  <2>5. Len(o.v) = m
    BY <2>4, ArrayLength
  <2>6. Settable(o, m + 1)
    <3>1. (m + 1) - 1 = m /\ m + 1 \in Nat \ {0}
      OBVIOUS
    <3>. QED BY <2>3, <2>4, <3>1 DEF Settable
  <2>7. Settable(NodeAt(result, stack[Len(stack)].path), m + 1) /\ path = Append(stack[Len(stack)].path, m + 1)
    BY <1>5, <2>2, <2>3, <2>5, <2>6 DEF TopOK, At
  <2>8. stack[Len(stack)].context \in {"Object", "Array"}
    BY <1>2, <2>2 DEF TopOK
  <2>. QED BY <1>2, <1>5, <2>1, <2>7, <2>8, Entered
<1>. QED BY <1>1, <1>3, <1>4, <1>5

LEMMA StepHolds ==
  ASSUME IInv, [Parse]_parserVars PROVE IInv'
<1>1. CASE UnexpectedEnd
  BY <1>1, Finishes DEF UnexpectedEnd, Outcomes
<1>2. CASE handleValue
  BY <1>2, ValueStep
<1>3. CASE handleObject
  BY <1>3, ObjectStep
<1>4. CASE handleObjectKey
  BY <1>4, KeyStep
<1>5. CASE handleArray
  BY <1>5, ArrayStep
<1>6. CASE EndOfText
  <2>1. Finish("value") \/ Finish("error")
    BY <1>6, Zenon DEF EndOfText
  <2>. QED BY <2>1, Finishes DEF Outcomes
<1>7. CASE UNCHANGED parserVars
  BY <1>7 DEF parserVars, IInv
<1>. QED BY <1>1, <1>2, <1>3, <1>4, <1>5, <1>6, <1>7 DEF Parse

\* At every iteration the stack is a path through the tree from the result to what is parsed, one
\* entry for each thing that is open, and every node on that path is what its handler expects.
THEOREM Invariance == ParserSpec => []IInv
<1>1. (\E t \in Inputs : ParserInit(t)) => IInv
  BY InitHolds
<1>2. IInv /\ [Parse]_parserVars => IInv'
  BY StepHolds
<1>. QED BY <1>1, <1>2, PTL DEF ParserSpec

-----------------------------------------------------------------------------
(* What follows from the invariant. *)

\* The front of a sequence to which k was appended is that sequence.
LEMMA FrontOfAppend ==
  ASSUME NEW K, NEW u \in Seq(K), NEW k
  PROVE  Append(u, k) # <<>> /\ Front(Append(u, k)) = u
<1>1. PICK v : v = Append(u, k)
  OBVIOUS
<1>2. PICK n \in Nat : n = Len(u)
  OBVIOUS
<1>3. v \in Seq(K \union {k}) /\ Len(v) = n + 1 /\ \A i \in 1 .. n : v[i] = u[i]
  BY <1>1, <1>2
<1>4. PICK f : f = SubSeq(v, 1, n)
  OBVIOUS
<1>5. f \in Seq(K \union {k}) /\ u \in Seq(K \union {k}) /\ Len(f) = n /\ \A i \in 1 .. n : f[i] = u[i]
  BY <1>2, <1>3, <1>4
<1>6. f = u
  BY <1>2, <1>5, SeqEqual
<1>7. v # <<>>
  BY <1>2, <1>3
<1>8. Front(v) = f
  <2>1. Len(v) - 1 = n
    BY <1>2, <1>3
  <2>. QED BY <1>4, <2>1 DEF Front
<1>. QED BY <1>1, <1>6, <1>7, <1>8

LEMMA TypesHold ==
  ASSUME IInv PROVE ParserTypeOK
<1>1. PICK n \in Nat : n = Len(stack) /\ DOMAIN stack = 1 .. n /\ (stack # <<>> => n # 0)
  <2>1. \E E : stack \in Seq(E)
    BY DEF IInv, StackOK
  <2>. QED BY <2>1
<1>2. ASSUME NEW i \in DOMAIN stack
      PROVE  /\ stack[i].context \in Contexts
             /\ stack[i].context \in {"Object", "ObjectKey"} => At(stack[i].path).t = "obj"
             /\ stack[i].context = "Array" => At(stack[i].path).t = "arr"
  <2>1. EntryOK(stack[i]) /\ NodeOK(stack[i].context, At(stack[i].path))
    BY <1>1 DEF IInv, StackOK, TreeOK, At
  <2>. QED BY <2>1 DEF EntryOK, NodeOK, IsArray
<1>3. stack # <<>> => stack[1] = Entry("Value", <<>>)
  BY DEF IInv, StackOK
<1>4. ASSUME NEW i \in 2 .. Len(stack)
      PROVE  CASE stack[i].context = "Value" ->
                     /\ stack[i - 1].context \in {"Object", "Array"}
                     /\ stack[i].path # <<>>
                     /\ Front(stack[i].path) = stack[i - 1].path
               [] stack[i].context = "ObjectKey" -> stack[i - 1] = Entry("Object", stack[i].path)
               [] OTHER -> stack[i - 1] = Entry("Value", stack[i].path)
  <2>1. PICK a : a = stack[i - 1]
    OBVIOUS
  <2>2. PICK b : b = stack[i]
    OBVIOUS
  <2>3. i - 1 \in 1 .. Len(stack) /\ i \in 1 .. Len(stack)
    BY <1>1
  <2>4. EntryOK(a) /\ EntryOK(b) /\ Above(a, b)
    BY <2>1, <2>2, <2>3 DEF IInv, StackOK
  <2>5. CASE b.context = "Value"
    <3>1. PICK k : b.path = Append(a.path, k) /\ a.context \in {"Object", "Array"}
      BY <2>4, <2>5 DEF Above
    <3>2. PICK K : a.path \in Seq(K)
      BY <2>4 DEF EntryOK, IsPath
    <3>3. PICK u, v : u = a.path /\ v = b.path /\ u \in Seq(K) /\ v = Append(u, k)
      BY <3>1, <3>2
    <3>4. v # <<>> /\ Front(v) = u
      BY <3>3, FrontOfAppend
    <3>. QED BY <2>1, <2>2, <2>5, <3>1, <3>3, <3>4
  <2>6. CASE b.context = "ObjectKey"
    <3>1. a = Entry("Object", b.path)
      BY <2>4, <2>6 DEF Above, EntryOK
    <3>. QED BY <2>1, <2>2, <2>6, <3>1
  <2>7. CASE b.context \notin {"Value", "ObjectKey"}
    <3>1. a = Entry("Value", b.path)
      BY <2>4, <2>7 DEF Above, EntryOK
    <3>. QED BY <2>1, <2>2, <2>7, <3>1
  <2>. QED BY <2>5, <2>6, <2>7
<1>. QED BY <1>2, <1>3, <1>4 DEF ParserTypeOK, IInv

\* Class Parser: m_pos never passes m_end, every handler finds the alternative that it asks for,
\* and the stack is as deep as what has been opened.
THEOREM TypeCorrect == ParserSpec => []ParserTypeOK
<1>1. IInv => ParserTypeOK
  BY TypesHold
<1>. QED BY <1>1, Invariance, PTL

LEMMA PointersHold ==
  ASSUME IInv PROVE PointersStable
<1>1. PICK n \in Nat : n = Len(stack) /\ DOMAIN stack = 1 .. n /\ (stack # <<>> => n # 0)
  <2>1. \E E : stack \in Seq(E)
    BY DEF IInv, StackOK
  <2>. QED BY <2>1
<1>2. ASSUME NEW i \in DOMAIN stack, NEW p, p = stack[i].path, p # <<>>,
             NEW outer, outer = At(Front(p)), outer.t = "arr"
      PROVE  Last(p) = Len(outer.v)
  <2>1. PICK q : q = stack[n].path
    OBVIOUS
  <2>2. i \in 1 .. Len(stack) /\ n \in 1 .. Len(stack) /\ i <= n
    BY <1>1
  <2>3. IsPrefixOf(p, q) /\ StackOK(stack)
    BY <1>2, <2>1, <2>2 DEF IInv, StackOK
  <2>4. PICK K : p \in Seq(K)
    BY <1>2, <2>2, <2>3, PathAt
  <2>5. PICK L : q \in Seq(L)
    BY <2>1, <2>2, <2>3, PathAt
  <2>6. PICK m \in Nat \ {0} : m = Len(p) /\ Last(p) = p[m] /\ Front(p) = SubSeq(p, 1, m - 1)
    BY <1>2, <2>4 DEF Last, Front
  <2>7. m \in 0 .. Len(p) /\ m - 1 \in 0 .. Len(p) /\ m > 0 /\ m \in 1 .. Len(q)
    <3>1. Len(q) \in Nat /\ m <= Len(q)
      BY <2>3, <2>5, <2>6 DEF IsPrefixOf
    <3>. QED BY <2>6, <3>1
  <2>8. SubSeq(p, 1, m - 1) = SubSeq(q, 1, m - 1) /\ p[m] = q[m]
    BY <2>3, <2>5, <2>7, PrefixIs
  <2>9. PathOK(result, q)
    <3>1. stack # <<>>
      BY <1>1, <2>2
    <3>. QED BY <1>1, <2>1, <3>1 DEF IInv, TreeOK
  <2>10. Inside(NodeAt(result, SubSeq(q, 1, m - 1)), q[m])
    BY <2>7, <2>9 DEF PathOK
  <2>11. IsArray(outer, p[m])
    BY <1>2, <2>6, <2>8, <2>10 DEF Inside, At
  <2>. QED BY <2>6, <2>11, ArrayLength
<1>. QED BY <1>2 DEF PointersStable

\* json.cpp:105: no element is added to an array while a pointer to an older one is on the stack.
THEOREM PointersAreStable == ParserSpec => []PointersStable
<1>1. IInv => PointersStable
  BY PointersHold
<1>. QED BY <1>1, Invariance, PTL

-----------------------------------------------------------------------------
(* Every iteration progresses. *)

\* The part of Remaining that the stack decides.
Bonus(s) == IF s # <<>> /\ Last(s).context \in {"Object", "Array"} THEN 1 ELSE 0

LEMMA RemainingIs ==
  /\ Remaining = 2 * (Len(text) + 1 - pos) + Bonus(stack)
  /\ Remaining' = 2 * (Len(text') + 1 - pos') + Bonus(stack')
BY Zenon DEF Remaining, Bonus, Current

LEMMA BonusIs ==
  ASSUME NEW s PROVE Bonus(s) \in {0, 1}
BY DEF Bonus

\* Characters are taken, or what was opened is entered.
LEMMA Shrinks ==
  ASSUME IInv, NEW next \in Nat, NEW s, NEW T, Continue(next, s, T),
         next >= pos + 1 \/ (next >= pos /\ Bonus(stack) = 1 /\ Bonus(s) = 0)
  PROVE  Remaining' < Remaining
<1>1. Len(text) \in Nat /\ pos \in Nat
  BY DEF IInv
<1>2. text' = text /\ pos' = next /\ stack' = s
  BY DEF Continue
<1>3. PICK b \in {0, 1} : b = Bonus(stack)
  BY BonusIs
<1>4. PICK c \in {0, 1} : c = Bonus(s)
  BY BonusIs
<1>5. Remaining = 2 * (Len(text) + 1 - pos) + b /\ Remaining' = 2 * (Len(text) + 1 - next) + c
  BY <1>2, <1>3, <1>4, RemainingIs
<1>6. next >= pos + 1 \/ (next >= pos /\ b = 1 /\ c = 0)
  BY <1>3, <1>4
<1>. QED BY <1>1, <1>5, <1>6

LEMMA Enters ==
  ASSUME IInv, NEW context \in {"Object", "Array"}, NEW p, p = SkipFrom(pos), Handles(context, p),
         NEW s, (\E E : s \in Seq(E)), NEW e, e.context \in {"Value", "ObjectKey"},
         NEW closing, NEW next, next = ElementAt(p, closing), next # 0, NEW T,
         Continue(next, Append(s, e), T)
  PROVE  Remaining' < Remaining
<1>1. text \in Seq(Byte) /\ p \in 1 .. Len(text) /\ p >= pos /\ stack # <<>> /\ Current.context = context
  BY Iteration
<1>2. next \in p .. Len(text) + 1
  BY <1>1, ElementIs
<1>3. pos \in Nat /\ next \in Nat /\ next >= pos
  BY <1>1, <1>2 DEF IInv
<1>4. Bonus(stack) = 1
  BY <1>1 DEF Bonus, Current
<1>5. Bonus(Append(s, e)) = 0
  <2>1. PICK E : s \in Seq(E)
    OBVIOUS
  <2>2. Last(Append(s, e)) = e
    BY <2>1 DEF Last
  <2>. QED BY <2>2 DEF Bonus
<1>. QED BY <1>3, <1>4, <1>5, Shrinks

LEMMA Takes1 ==
  ASSUME IInv, NEW context, NEW p, p = SkipFrom(pos), Handles(context, p),
         NEW length \in Nat, NEW s, NEW T, Continue(p + length + 1, s, T)
  PROVE  Remaining' < Remaining
<1>1. p \in Nat /\ p >= pos /\ pos \in Nat
  BY Iteration DEF IInv
<1>2. p + length + 1 \in Nat /\ p + length + 1 >= pos + 1
  BY <1>1
<1>. QED BY <1>2, Shrinks

LEMMA IterationProgresses ==
  ASSUME IInv, Parse, outcome' = "none" PROVE Remaining' < Remaining
<1>1. ASSUME NEW how, how # "none", Finish(how) PROVE FALSE
  BY <1>1 DEF Finish
<1>2. ASSUME NEW context, NEW p, p = SkipFrom(pos), Handles(context, p), NEW s, NEW T, Continue(p + 1, s, T)
      PROVE  Remaining' < Remaining
  <2>1. p + 0 + 1 = p + 1
    <3>1. p \in Nat
      BY <1>2, Iteration
    <3>. QED BY <3>1
  <2>. QED BY <1>2, <2>1, Takes1
<1>3. CASE UnexpectedEnd
  BY <1>1, <1>3 DEF UnexpectedEnd
<1>4. CASE handleValue
  <2>1. PICK p : p = SkipFrom(pos) /\ Handles("Value", p)
                 /\ \/ \E s, T : Continue(p + 1, s, T)
                    \/ \E simple \in parseSimpleValue(text, p) :
                          IF simple.outcome = "value"
                          THEN Continue(p + simple.length, popState, Set(Current.path, simple.value))
                          ELSE Finish(simple.outcome)
    BY <1>4, Zenon DEF handleValue
  <2>2. text \in Seq(Byte) /\ p \in 1 .. Len(text)
    BY <2>1, Iteration
  <2>3. ASSUME NEW simple \in parseSimpleValue(text, p), simple.outcome = "value", NEW s, NEW T,
               Continue(p + simple.length, s, T)
        PROVE  Remaining' < Remaining
    <3>1. simple.length \in 1 .. Len(text) + 1 - p
      BY <2>2, <2>3, SimpleIs DEF Takes
    <3>2. PICK length \in Nat : simple.length = length + 1
      <4>1. simple.length - 1 \in Nat /\ simple.length = (simple.length - 1) + 1
        BY <2>2, <3>1
      <4>. QED BY <4>1
    <3>3. p + simple.length = p + length + 1
      BY <2>2, <3>2
    <3>. QED BY <2>1, <2>3, <3>3, Takes1
  <2>4. ASSUME NEW simple \in parseSimpleValue(text, p), Finish(simple.outcome) PROVE FALSE
    <3>1. simple.outcome # "none"
      BY <2>2, SimpleIs DEF Takes
    <3>. QED BY <1>1, <2>4, <3>1
  <2>. QED BY <1>2, <2>1, <2>3, <2>4
<1>5. CASE handleObject
  <2>1. PICK p : /\ p = SkipFrom(pos) /\ Handles("Object", p)
                 /\ \/ Close(p)
                    \/ Finish("error")
                    \/ \E next : /\ next = ElementAt(p, RBrace) /\ next # 0
                                 /\ Continue(next, Append(stack, Entry("ObjectKey", Current.path)), result)
    BY <1>5, Zenon DEF handleObject
  <2>2. \E E : stack \in Seq(E)
    BY DEF IInv, StackOK
  <2>3. ASSUME NEW next, next = ElementAt(p, RBrace), next # 0,
               NEW e, e = Entry("ObjectKey", Current.path), Continue(next, Append(stack, e), result)
        PROVE  Remaining' < Remaining
    <3>1. e.context \in {"Value", "ObjectKey"}
      BY <2>3 DEF Entry
    <3>. QED BY <2>1, <2>2, <2>3, <3>1, Enters
  <2>4. CASE Close(p)
    BY <1>2, <2>1, <2>4 DEF Close
  <2>. QED BY <1>1, <2>1, <2>3, <2>4
<1>6. CASE handleObjectKey
  <2>1. PICK p : /\ p = SkipFrom(pos) /\ Handles("ObjectKey", p)
                 /\ \/ Finish("error")
                    \/ \E key, s, T :
                          /\ key = parseString(text, p) /\ key.outcome = "value"
                          /\ HasCharAt(text, SkipFrom(p + key.length), Colon)
                          /\ Continue(SkipFrom(p + key.length) + 1, s, T)
    BY <1>6, Zenon DEF handleObjectKey
  <2>2. text \in Seq(Byte) /\ p \in 1 .. Len(text) /\ Len(text) \in Nat
    BY <2>1, Iteration
  <2>3. ASSUME NEW key, key = parseString(text, p), key.outcome = "value",
               NEW colon, colon = SkipFrom(p + key.length), NEW s, NEW T, Continue(colon + 1, s, T)
        PROVE  Remaining' < Remaining
    <3>1. key.length \in 1 .. Len(text) + 1 - p
      BY <2>2, <2>3, StringIs DEF Takes
    <3>2. p + key.length \in 1 .. Len(text) + 1
      BY <2>2, <3>1
    <3>3. colon \in p + key.length .. Len(text) + 1
      BY <2>2, <2>3, <3>2, SkipIs
    <3>4. PICK length \in Nat : colon = p + length
      <4>1. colon - p \in Nat /\ colon = p + (colon - p)
        BY <2>2, <3>1, <3>3
      <4>. QED BY <4>1
    <3>. QED BY <2>1, <2>3, <3>4, Takes1
  <2>. QED BY <1>1, <2>1, <2>3
<1>7. CASE handleArray
  <2>1. PICK p : /\ p = SkipFrom(pos) /\ Handles("Array", p)
                 /\ \/ Close(p)
                    \/ Finish("error")
                    \/ \E next, path, T : /\ next = ElementAt(p, RBracket) /\ next # 0
                                          /\ Continue(next, Append(stack, Entry("Value", path)), T)
    BY <1>7, Zenon DEF handleArray
  <2>2. \E E : stack \in Seq(E)
    BY DEF IInv, StackOK
  <2>3. ASSUME NEW next, next = ElementAt(p, RBracket), next # 0, NEW path, NEW T,
               NEW e, e = Entry("Value", path), Continue(next, Append(stack, e), T)
        PROVE  Remaining' < Remaining
    <3>1. e.context \in {"Value", "ObjectKey"}
      BY <2>3 DEF Entry
    <3>. QED BY <2>1, <2>2, <2>3, <3>1, Enters
  <2>4. CASE Close(p)
    BY <1>2, <2>1, <2>4 DEF Close
  <2>. QED BY <1>1, <2>1, <2>3, <2>4
<1>8. CASE EndOfText
  <2>1. Finish("value") \/ Finish("error")
    BY <1>8, Zenon DEF EndOfText
  <2>. QED BY <1>1, <2>1
<1>. QED BY <1>3, <1>4, <1>5, <1>6, <1>7, <1>8 DEF Parse

\* json.cpp:53: every iteration ends the loop, takes characters or enters what was just opened,
\* so that there are at most two iterations for a character whatever the text is.
THEOREM Progress == ParserSpec => ParsingProgresses
<1>1. IInv /\ [Parse]_parserVars => [Parse /\ outcome' = "none" => Remaining' < Remaining]_parserVars
  BY IterationProgresses
<1>. QED BY <1>1, Invariance, PTL DEF ParserSpec, ParsingProgresses

-----------------------------------------------------------------------------
(* Texts made of pieces, as FlattenSeq joins them.                          *)

\* Two texts one behind the other.
LEMMA Joined ==
  ASSUME NEW a \in Seq(Byte), NEW b \in Seq(Byte)
  PROVE  /\ a \o b \in Seq(Byte) /\ Len(a \o b) = Len(a) + Len(b)
         /\ Len(a) \in Nat /\ Len(b) \in Nat
         /\ \A i \in 1 .. Len(a) : (a \o b)[i] = a[i]
         /\ \A i \in 1 .. Len(b) : (a \o b)[Len(a) + i] = b[i]
<1>0. PICK t : t = a \o b
  OBVIOUS
<1>1. /\ t \in Seq(Byte) /\ Len(t) = Len(a) + Len(b)
      /\ \A i \in 1 .. Len(a) + Len(b) : t[i] = IF i <= Len(a) THEN a[i] ELSE b[i - Len(a)]
  BY <1>0, ConcatProperties
<1>2. Len(a) \in Nat /\ Len(b) \in Nat /\ Len(t) \in Nat
  BY <1>1, LenProperties
<1>3. ASSUME NEW i \in 1 .. Len(a) PROVE t[i] = a[i]
  <2>1. i \in 1 .. Len(a) + Len(b) /\ i <= Len(a)
    BY <1>2
  <2>. QED BY <1>1, <2>1
<1>4. ASSUME NEW i \in 1 .. Len(b) PROVE t[Len(a) + i] = b[i]
  <2>1. Len(a) + i \in 1 .. Len(a) + Len(b) /\ ~(Len(a) + i <= Len(a)) /\ Len(a) + i - Len(a) = i
    BY <1>2
  <2>2. t[Len(a) + i] = b[Len(a) + i - Len(a)]
    BY <1>1, <2>1
  <2>. QED BY <2>1, <2>2
<1>. QED BY <1>0, <1>1, <1>2, <1>3, <1>4

IsFlat(f, w, n) == f = [i \in 1 .. n |-> IF i = 1 THEN w[i] ELSE f[i - 1] \o w[i]]

\* The text of some pieces is the last text of the function that FlattenSeq defines.
LEMMA FlatIs == \A w : Len(w) # 0 => FlattenSeq(w) = (CHOOSE f : IsFlat(f, w, Len(w)))[Len(w)]
BY Zenon DEF FlattenSeq, IsFlat

\* There is a function such as FlattenSeq defines.
LEMMA FlatExists ==
  ASSUME NEW w, NEW n \in Nat PROVE \E f : IsFlat(f, w, n)
<1>. DEFINE S == {k \in Nat : \E f : IsFlat(f, w, k)}
<1>1. 0 \in S
  <2>1. PICK f : f = [i \in 1 .. 0 |-> <<>>]
    OBVIOUS
  <2>2. IsFlat(f, w, 0)
    BY <2>1 DEF IsFlat
  <2>. QED BY <2>2
<1>2. ASSUME NEW k \in Nat, k \in S PROVE k + 1 \in S
  <2>1. PICK f : IsFlat(f, w, k)
    BY <1>2
  <2>2. PICK x : x = IF k = 0 THEN w[k + 1] ELSE f[k] \o w[k + 1]
    OBVIOUS
  <2>3. PICK g : g = [i \in 1 .. k + 1 |-> IF i = k + 1 THEN x ELSE f[i]]
    OBVIOUS
  <2>4. \A i \in 1 .. k : g[i] = f[i]
    BY <2>3
  <2>5. ASSUME NEW i \in 1 .. k + 1 PROVE g[i] = IF i = 1 THEN w[i] ELSE g[i - 1] \o w[i]
    <3>1. CASE i = k + 1
      <4>1. (k = 0 <=> i = 1) /\ i - 1 = k /\ (k # 0 => k \in 1 .. k)
        BY <3>1
      <4>. QED BY <2>2, <2>3, <2>4, <3>1, <4>1
    <3>2. CASE i # k + 1
      <4>1. i \in 1 .. k /\ (i # 1 => i - 1 \in 1 .. k)
        BY <3>2
      <4>2. f[i] = IF i = 1 THEN w[i] ELSE f[i - 1] \o w[i]
        BY <2>1, <4>1 DEF IsFlat
      <4>. QED BY <2>4, <4>1, <4>2
    <3>. QED BY <3>1, <3>2
  <2>6. IsFlat(g, w, k + 1)
    BY <2>3, <2>5 DEF IsFlat
  <2>. QED BY <2>6
<1>3. Nat \subseteq S
  <2>. HIDE DEF S
  <2>. QED BY <1>1, <1>2, SetInduction
<1>. QED BY <1>3

\* f is the text behind each piece.
PieceSteps(f, w) ==
    /\ f[0] = <<>> /\ FlattenSeq(w) = f[Len(w)]
    /\ \A i \in 1 .. Len(w) : f[i] = f[i - 1] \o w[i]

\* FlattenSeq joins the pieces one after the other.
LEMMA FlatSteps ==
  ASSUME NEW w \in Seq(Seq(Byte)) PROVE \E f : PieceSteps(f, w)
<1>0. Len(w) \in Nat
  BY LenProperties
<1>1. CASE Len(w) = 0
  <2>1. PICK f : f = [i \in 0 .. 0 |-> <<>>]
    OBVIOUS
  <2>2. w = <<>> /\ FlattenSeq(w) = w
    BY <1>1, EmptySeq, Zenon DEF FlattenSeq
  <2>3. PieceSteps(f, w)
    BY <1>1, <2>1, <2>2 DEF PieceSteps
  <2>. QED BY <2>3
<1>2. CASE Len(w) # 0
  <2>1. PICK g : IsFlat(g, w, Len(w)) /\ FlattenSeq(w) = g[Len(w)]
    BY <1>0, <1>2, FlatExists, FlatIs
  <2>2. PICK f : f = [i \in 0 .. Len(w) |-> IF i = 0 THEN <<>> ELSE g[i]]
    OBVIOUS
  <2>3. f[0] = <<>> /\ \A i \in 1 .. Len(w) : f[i] = g[i]
    BY <1>0, <2>2
  <2>4. ASSUME NEW i \in 1 .. Len(w) PROVE f[i] = f[i - 1] \o w[i]
    <3>1. g[i] = IF i = 1 THEN w[i] ELSE g[i - 1] \o w[i]
      BY <2>1 DEF IsFlat
    <3>2. CASE i = 1
      <4>1. w[i] \in Seq(Byte) /\ i - 1 = 0
        BY <3>2, ElementOfSeq
      <4>2. <<>> \o w[i] = w[i]
        BY <4>1, ConcatEmptySeq
      <4>. QED BY <2>3, <3>1, <3>2, <4>1, <4>2
    <3>3. CASE i # 1
      <4>1. i - 1 \in 1 .. Len(w)
        BY <1>0, <3>3
      <4>. QED BY <2>3, <3>1, <3>3, <4>1
    <3>. QED BY <3>2, <3>3
  <2>5. Len(w) \in 1 .. Len(w)
    BY <1>0, <1>2
  <2>6. PieceSteps(f, w)
    BY <2>1, <2>3, <2>4, <2>5 DEF PieceSteps
  <2>. QED BY <2>6
<1>. QED BY <1>1, <1>2

\* What is behind each piece is a text.
LEMMA StepsAreTexts ==
  ASSUME NEW w \in Seq(Seq(Byte)), NEW f, PieceSteps(f, w), NEW n \in 0 .. Len(w)
  PROVE  f[n] \in Seq(Byte)
<1>. DEFINE S == {k \in Nat : k <= Len(w) => f[k] \in Seq(Byte)}
<1>1. Len(w) \in Nat
  BY LenProperties
<1>2. 0 \in S
  BY EmptySeq DEF PieceSteps
<1>3. ASSUME NEW k \in Nat, k \in S PROVE k + 1 \in S
  <2>. SUFFICES ASSUME k + 1 <= Len(w) PROVE f[k + 1] \in Seq(Byte)
    OBVIOUS
  <2>1. PICK i \in 1 .. Len(w) : i = k + 1 /\ i - 1 = k
    BY <1>1
  <2>2. w[i] \in Seq(Byte) /\ f[i - 1] \in Seq(Byte)
    BY <1>1, <1>3, <2>1, ElementOfSeq
  <2>3. f[i - 1] \o w[i] \in Seq(Byte)
    BY <2>2, ConcatProperties
  <2>. QED BY <2>1, <2>3 DEF PieceSteps
<1>4. Nat \subseteq S
  <2>. HIDE DEF S
  <2>. QED BY <1>2, <1>3, SetInduction
<1>. QED BY <1>1, <1>4

BeginsWith(b, a) == Len(a) <= Len(b) /\ \A k \in 1 .. Len(a) : b[k] = a[k]

\* What is behind a piece stays where it is.
LEMMA StepsStay ==
  ASSUME NEW w \in Seq(Seq(Byte)), NEW f, PieceSteps(f, w), NEW n \in 0 .. Len(w)
  PROVE  BeginsWith(FlattenSeq(w), f[n])
<1>. DEFINE S == {d \in Nat : d <= Len(w) => BeginsWith(FlattenSeq(w), f[Len(w) - d])}
<1>1. Len(w) \in Nat
  BY LenProperties
<1>a. FlattenSeq(w) \in Seq(Byte) /\ Len(FlattenSeq(w)) \in Nat /\ FlattenSeq(w) = f[Len(w)]
  <2>1. Len(w) \in 0 .. Len(w)
    BY <1>1
  <2>2. f[Len(w)] \in Seq(Byte) /\ FlattenSeq(w) = f[Len(w)]
    BY <2>1, StepsAreTexts DEF PieceSteps
  <2>. QED BY <2>2, LenProperties
<1>2. 0 \in S
  <2>1. Len(w) - 0 = Len(w)
    BY <1>1
  <2>. QED BY <1>a, <2>1 DEF BeginsWith
<1>3. ASSUME NEW d \in Nat, d \in S PROVE d + 1 \in S
  <2>. SUFFICES ASSUME d + 1 <= Len(w) PROVE BeginsWith(FlattenSeq(w), f[Len(w) - (d + 1)])
    OBVIOUS
  <2>0. Len(w) - d \in 1 .. Len(w)
    BY <1>1
  <2>1. PICK i \in 1 .. Len(w) : i = Len(w) - d
    BY <2>0
  <2>a. i - 1 = Len(w) - (d + 1) /\ i - 1 \in 0 .. Len(w) /\ d <= Len(w)
    BY <1>1, <2>1
  <2>2. PICK a, b, t : a = f[i - 1] /\ b = w[i] /\ t = f[i] /\ t = a \o b
    BY DEF PieceSteps
  <2>3. a \in Seq(Byte) /\ b \in Seq(Byte)
    BY <2>a, <2>2, StepsAreTexts, ElementOfSeq
  <2>4. /\ Len(t) = Len(a) + Len(b) /\ (\A k \in 1 .. Len(a) : t[k] = a[k])
        /\ Len(a) \in Nat /\ Len(b) \in Nat
    <3>1. /\ Len(a \o b) = Len(a) + Len(b) /\ \A k \in 1 .. Len(a) : (a \o b)[k] = a[k]
          /\ Len(a) \in Nat /\ Len(b) \in Nat
      BY <2>3, Joined
    <3>. QED BY <2>2, <3>1
  <2>5. BeginsWith(FlattenSeq(w), t)
    BY <1>3, <2>a, <2>1, <2>2
  <2>6. BeginsWith(FlattenSeq(w), a)
    BY <1>a, <2>4, <2>5, SMTT(30) DEF BeginsWith
  <2>. QED BY <2>a, <2>2, <2>6
<1>4. Nat \subseteq S
  <2>. HIDE DEF S
  <2>. QED BY <1>2, <1>3, SetInduction
<1>5. Len(w) - n \in Nat /\ Len(w) - n <= Len(w) /\ Len(w) - (Len(w) - n) = n
  BY <1>1, SMT
<1>6. Len(w) - n \in S
  BY <1>4, <1>5
<1>. QED BY <1>5, <1>6

\* From behind the p-th character of t to the q-th, it is b.
Placed(t, p, b, q) ==
    p \in Nat /\ q \in Nat /\ q = p + Len(b) /\ q <= Len(t) /\ \A k \in 1 .. Len(b) : t[p + k] = b[k]

\* Where a piece is in the text.
LEMMA PieceAt ==
  ASSUME NEW w \in Seq(Seq(Byte)), NEW f, PieceSteps(f, w), NEW i \in 1 .. Len(w)
  PROVE  Placed(FlattenSeq(w), Len(f[i - 1]), w[i], Len(f[i]))
<1>0. PICK b, e, p : b = w[i] /\ e = FlattenSeq(w) /\ p = Len(f[i - 1])
  OBVIOUS
<1>1. Len(w) \in Nat /\ i \in 0 .. Len(w) /\ i - 1 \in 0 .. Len(w) /\ Len(w) \in 0 .. Len(w)
  BY LenProperties
<1>2. PICK a, t : a = f[i - 1] /\ t = f[i] /\ t = a \o b
  BY <1>0 DEF PieceSteps
<1>3. a \in Seq(Byte) /\ b \in Seq(Byte)
  BY <1>0, <1>1, <1>2, StepsAreTexts, ElementOfSeq
<1>4. /\ Len(t) = Len(a) + Len(b) /\ Len(a) \in Nat /\ Len(b) \in Nat
      /\ \A k \in 1 .. Len(b) : t[Len(a) + k] = b[k]
  <2>1. /\ Len(a \o b) = Len(a) + Len(b) /\ Len(a) \in Nat /\ Len(b) \in Nat
        /\ \A k \in 1 .. Len(b) : (a \o b)[Len(a) + k] = b[k]
    BY <1>3, Joined
  <2>. QED BY <1>2, <2>1
<1>5. BeginsWith(e, t)
  BY <1>0, <1>1, <1>2, StepsStay
<1>6. ASSUME NEW k \in 1 .. Len(b) PROVE e[p + k] = b[k]
  <2>1. Len(a) + k \in 1 .. Len(t)
    BY <1>4
  <2>. QED BY <1>0, <1>2, <1>4, <1>5, <2>1 DEF BeginsWith
<1>7. Placed(e, p, b, Len(t))
  <2>0. p = Len(a)
    BY <1>0, <1>2
  <2>1. p \in Nat /\ Len(t) = p + Len(b) /\ Len(t) \in Nat
    BY <1>4, <2>0
  <2>2. Len(t) <= Len(e)
    BY <1>5 DEF BeginsWith
  <2>. QED BY <1>6, <2>1, <2>2, Zenon DEF Placed
<1>. QED BY <1>0, <1>2, <1>7

-----------------------------------------------------------------------------
(* What toStringLiteral writes for one character.                          *)

\* The value of a hexadecimal digit that is written.
LEMMA DigitWritten ==
  ASSUME NEW n \in 0 .. 15
  PROVE  /\ HexDigit(n) \in Byte /\ IsHex(HexDigit(n)) /\ HexValue(HexDigit(n)) = n
         /\ HexDigit(n) \notin {Quote, Backslash, LF}
BY SMT DEF HexDigit, Byte, IsHex, HexValue, IsDigit, ToUpper, IsLower, Quote, Backslash, LF

\* What the letter behind a backslash stands for.
ReadLetter(x) ==
    IF \E e \in ReadEscapes : e[2] = x THEN <<(CHOOSE e \in ReadEscapes : e[2] = x)[1]>> ELSE <<x>>

\* A character written as a backslash and a letter, which is not that of \u, is read as itself.
LetterFor(c, x) == x \in Byte /\ x \notin {117, LF} /\ EscapedByte(c) = <<Backslash, x>> /\ ReadLetter(x) = <<c>>

LEMMA LetterWritten ==
  ASSUME NEW c \in Byte, \E e \in WrittenEscapes : e[1] = c
  PROVE  \E x : LetterFor(c, x)
<1>. DEFINE pair == CHOOSE e \in WrittenEscapes : e[1] = c
<1>1. pair \in WrittenEscapes /\ pair[1] = c
  BY Zenon
<1>2. EscapedByte(c) = <<Backslash, pair[2]>>
  BY Zenon DEF EscapedByte
<1>. HIDE DEF pair
<1>3. PICK a, x : a = pair[1] /\ x = pair[2] /\ a = c /\ EscapedByte(c) = <<Backslash, x>>
  BY <1>1, <1>2
<1>4. <<a, x>> \in {<<8, 98>>, <<9, 116>>, <<10, 110>>, <<12, 102>>, <<13, 114>>, <<34, 34>>, <<92, 92>>}
  BY <1>1, <1>3 DEF WrittenEscapes, Quote, Backslash
<1>5. x \in Byte /\ x \notin {117, LF}
  BY <1>4, SMT DEF Byte, LF
<1>6. ReadLetter(x) = <<c>>
  <2>1. CASE x \in {34, 92}
    <3>1. ~\E e \in ReadEscapes : e[2] = x
      BY <2>1 DEF ReadEscapes
    <3>2. c = x
      BY <1>3, <1>4, <2>1
    <3>. QED BY <3>1, <3>2, Zenon DEF ReadLetter
  <2>2. CASE x \notin {34, 92}
    <3>1. <<c, x>> \in ReadEscapes /\ <<c, x>>[1] = c /\ <<c, x>>[2] = x
      BY <1>3, <1>4, <2>2 DEF ReadEscapes
    <3>2. \A e \in ReadEscapes : e[2] = x => e[1] = c
      BY <1>3, <1>4, <2>2 DEF ReadEscapes
    <3>3. \E e \in ReadEscapes : e[2] = x
      BY <3>1
    <3>4. (CHOOSE e \in ReadEscapes : e[2] = x)[1] = c
      BY <3>2, <3>3, Zenon
    <3>. QED BY <3>3, <3>4, Zenon DEF ReadLetter
  <2>. QED BY <2>1, <2>2
<1>7. LetterFor(c, x)
  BY <1>3, <1>5, <1>6 DEF LetterFor
<1>. QED BY <1>7

\* A control character written with four digits.
DigitsFor(c, h, l) ==
    /\ EscapedByte(c) = <<Backslash, 117, Zero, Zero, h, l>>
    /\ c \in 0 .. 31 /\ h \in Byte /\ l \in Byte /\ IsHex(h) /\ IsHex(l)
    /\ {h, l} \intersect {Quote, Backslash, LF} = {}
    /\ HexValue(h) \in Nat /\ HexValue(l) \in Nat /\ 16 * HexValue(h) + HexValue(l) = c

LEMMA DigitsWritten ==
  ASSUME NEW c \in Byte, ~\E e \in WrittenEscapes : e[1] = c, c < 32
  PROVE  \E h, l : DigitsFor(c, h, l)
<1>1. PICK a, b : a = c \div 16 /\ b = c % 16 /\ a \in 0 .. 15 /\ b \in 0 .. 15 /\ 16 * a + b = c
                  /\ a \in Nat /\ b \in Nat
  BY SMT DEF Byte
<1>2. PICK h, l : h = HexDigit(a) /\ l = HexDigit(b)
  OBVIOUS
<1>3. EscapedByte(c) = <<Backslash, 117, Zero, Zero, h, l>>
  BY <1>1, <1>2, Zenon DEF EscapedByte
<1>4. /\ h \in Byte /\ l \in Byte /\ IsHex(h) /\ IsHex(l) /\ HexValue(h) = a /\ HexValue(l) = b
      /\ h \notin {Quote, Backslash, LF} /\ l \notin {Quote, Backslash, LF}
  BY <1>1, <1>2, DigitWritten
<1>5. {h, l} \intersect {Quote, Backslash, LF} = {}
  BY <1>4
<1>6. c \in 0 .. 31
  BY DEF Byte
<1>7. 16 * HexValue(h) + HexValue(l) = c
  BY <1>1, <1>4, Zenon
<1>8. DigitsFor(c, h, l)
  BY <1>1, <1>3, <1>4, <1>5, <1>6, <1>7, Zenon DEF DigitsFor
<1>. QED BY <1>8

\* A character written as it is.
ItselfFor(c) == EscapedByte(c) = <<c>> /\ c \notin {Quote, Backslash, LF}

LEMMA ItselfWritten ==
  ASSUME NEW c \in Byte, ~\E e \in WrittenEscapes : e[1] = c, ~(c < 32)
  PROVE  ItselfFor(c)
<1>1. EscapedByte(c) = <<c>>
  BY Zenon DEF EscapedByte
<1>2. \A e \in WrittenEscapes : e[1] # c
  OBVIOUS
<1>3. <<34, 34>>[1] # c /\ <<92, 92>>[1] # c
  BY <1>2, Zenon DEF WrittenEscapes, Quote, Backslash
<1>4. c \notin {Quote, Backslash, LF}
  BY <1>3 DEF Quote, Backslash, LF, Byte
<1>. QED BY <1>1, <1>4 DEF ItselfFor

\* The three ways to write a character.
LEMMA WaysToWrite ==
  ASSUME NEW c \in Byte
  PROVE  (\E x : LetterFor(c, x)) \/ (\E h, l : DigitsFor(c, h, l)) \/ ItselfFor(c)
BY LetterWritten, DigitsWritten, ItselfWritten

\* What is written for a character is a text, not an empty one.
LEMMA WrittenIsText ==
  ASSUME NEW c \in Byte PROVE EscapedByte(c) \in Seq(Byte)
<1>0. Backslash \in Byte /\ Zero \in Byte /\ 117 \in Byte
  BY DEF Backslash, Zero, Byte
<1>1. ASSUME NEW x, LetterFor(c, x) PROVE EscapedByte(c) \in Seq(Byte)
  <2>1. EscapedByte(c) = <<Backslash, x>> /\ x \in Byte
    BY <1>1, Zenon DEF LetterFor
  <2>. QED BY <1>0, <2>1
<1>2. ASSUME NEW h, NEW l, DigitsFor(c, h, l) PROVE EscapedByte(c) \in Seq(Byte)
  <2>1. EscapedByte(c) = <<Backslash, 117, Zero, Zero, h, l>> /\ h \in Byte /\ l \in Byte
    BY <1>2, Zenon DEF DigitsFor
  <2>. QED BY <1>0, <2>1
<1>3. ItselfFor(c) => EscapedByte(c) \in Seq(Byte)
  <2>1. ItselfFor(c) => EscapedByte(c) = <<c>>
    BY Zenon DEF ItselfFor
  <2>2. <<c>> \in Seq(Byte)
    OBVIOUS
  <2>. QED BY <2>1, <2>2
<1>. QED BY <1>1, <1>2, <1>3, WaysToWrite

\* The pieces of a string literal between its quotation marks.
Pieces(s) == [i \in DOMAIN s |-> EscapedByte(s[i])]

LEMMA PiecesAre ==
  ASSUME NEW s \in Seq(Byte)
  PROVE  Pieces(s) \in Seq(Seq(Byte)) /\ Len(Pieces(s)) = Len(s) /\ Len(s) \in Nat
         /\ \A i \in 1 .. Len(s) : s[i] \in Byte /\ Pieces(s)[i] = EscapedByte(s[i])
<1>1. Len(s) \in Nat /\ DOMAIN s = 1 .. Len(s) /\ \A i \in 1 .. Len(s) : s[i] \in Byte
  BY LenProperties, ElementOfSeq
<1>2. PICK w : w = [i \in 1 .. Len(s) |-> EscapedByte(s[i])]
  OBVIOUS
<1>3. w = Pieces(s)
  BY <1>1, <1>2 DEF Pieces
<1>4. \A i \in 1 .. Len(s) : w[i] = EscapedByte(s[i]) /\ w[i] \in Seq(Byte)
  BY <1>1, <1>2, WrittenIsText
<1>5. w \in [1 .. Len(s) -> Seq(Byte)]
  BY <1>2, <1>4
<1>6. w \in Seq(Seq(Byte)) /\ Len(w) = Len(s)
  <2>1. w \in Seq(Seq(Byte))
    BY <1>1, <1>5, IsASeq
  <2>2. Len(w) \in Nat /\ DOMAIN w = 1 .. Len(w) /\ DOMAIN w = 1 .. Len(s)
    BY <1>5, <2>1, LenProperties
  <2>3. Len(w) = Len(s)
    BY <1>1, <1>5, SMT
  <2>. QED BY <2>1, <2>3
<1>. QED BY <1>1, <1>3, <1>4, <1>6

-----------------------------------------------------------------------------
(* What fromStringLiteral reads.                                           *)

NumberUpTo(v, d, base) == v = [i \in 0 .. Len(d) |-> IF i = 0 THEN 0 ELSE base * v[i - 1] + HexValue(d[i])]

\* A number is the last value of the function that it defines.
LEMMA NumberIsLast == \A d, base : Number(d, base) = (CHOOSE v : NumberUpTo(v, d, base))[Len(d)]
BY Zenon DEF Number, NumberUpTo

\* Four digits in base 16 of which the first two are zero.
LEMMA NumberOfFour ==
  ASSUME NEW d, Len(d) = 4, HexValue(d[1]) = 0, HexValue(d[2]) = 0, HexValue(d[3]) \in Nat, HexValue(d[4]) \in Nat
  PROVE  Number(d, 16) = 16 * HexValue(d[3]) + HexValue(d[4])
<1>1. PICK a, b : a = HexValue(d[3]) /\ b = HexValue(d[4]) /\ a \in Nat /\ b \in Nat
  OBVIOUS
<1>2. PICK v : v = [i \in 0 .. 4 |-> IF i = 3 THEN a ELSE IF i = 4 THEN 16 * a + b ELSE 0]
  OBVIOUS
<1>3. v[0] = 0 /\ v[1] = 0 /\ v[2] = 0 /\ v[3] = a /\ v[4] = 16 * a + b
  BY <1>2
<1>a. 16 * 0 + 0 = 0 /\ 16 * 0 + a = a
  BY <1>1
<1>4. ASSUME NEW i \in 0 .. 4 PROVE v[i] = IF i = 0 THEN 0 ELSE 16 * v[i - 1] + HexValue(d[i])
  <2>1. CASE i = 0
    BY <1>3, <2>1
  <2>2. CASE i = 1
    <3>1. i - 1 = 0 /\ i # 0
      BY <2>2
    <3>. QED BY <1>a, <1>3, <2>2, <3>1, Zenon
  <2>3. CASE i = 2
    <3>1. i - 1 = 1 /\ i # 0
      BY <2>3
    <3>. QED BY <1>a, <1>3, <2>3, <3>1, Zenon
  <2>4. CASE i = 3
    <3>1. i - 1 = 2 /\ i # 0
      BY <2>4
    <3>. QED BY <1>a, <1>1, <1>3, <2>4, <3>1, Zenon
  <2>5. CASE i = 4
    <3>1. i - 1 = 3 /\ i # 0
      BY <2>5
    <3>. QED BY <1>1, <1>3, <2>5, <3>1, Zenon
  <2>. QED BY <2>1, <2>2, <2>3, <2>4, <2>5
<1>5. v = [i \in 0 .. 4 |-> v[i]]
  BY <1>2
<1>6. v = [i \in 0 .. 4 |-> IF i = 0 THEN 0 ELSE 16 * v[i - 1] + HexValue(d[i])]
  BY <1>4, <1>5, Zenon
<1>7. NumberUpTo(v, d, 16)
  BY <1>6, Zenon DEF NumberUpTo
<1>8. PICK w : NumberUpTo(w, d, 16) /\ Number(d, 16) = w[4]
  BY <1>7, NumberIsLast, Zenon
<1>9. \A i \in 0 .. 4 : w[i] = IF i = 0 THEN 0 ELSE 16 * w[i - 1] + HexValue(d[i])
  BY <1>8, Zenon DEF NumberUpTo
<1>10. w[0] = 0
  BY <1>9
<1>11. ASSUME NEW i \in 1 .. 4 PROVE w[i] = 16 * w[i - 1] + HexValue(d[i])
  <2>1. i \in 0 .. 4 /\ i # 0
    OBVIOUS
  <2>. QED BY <1>9, <2>1, Zenon
<1>12. w[1] = 0
  <2>1. 1 \in 1 .. 4 /\ 1 - 1 = 0
    OBVIOUS
  <2>2. w[1] = 16 * w[1 - 1] + HexValue(d[1])
    BY <1>11, <2>1, Zenon
  <2>. QED BY <1>a, <1>10, <2>1, <2>2, Zenon
<1>13. w[2] = 0
  <2>1. 2 \in 1 .. 4 /\ 2 - 1 = 1
    OBVIOUS
  <2>2. w[2] = 16 * w[2 - 1] + HexValue(d[2])
    BY <1>11, <2>1, Zenon
  <2>. QED BY <1>a, <1>12, <2>1, <2>2, Zenon
<1>14. w[3] = a
  <2>1. 3 \in 1 .. 4 /\ 3 - 1 = 2
    OBVIOUS
  <2>2. w[3] = 16 * w[3 - 1] + HexValue(d[3])
    BY <1>11, <2>1, Zenon
  <2>. QED BY <1>a, <1>1, <1>13, <2>1, <2>2, Zenon
<1>15. w[4] = 16 * a + b
  <2>1. 4 \in 1 .. 4 /\ 4 - 1 = 3
    OBVIOUS
  <2>2. w[4] = 16 * w[4 - 1] + HexValue(d[4])
    BY <1>11, <2>1, Zenon
  <2>. QED BY <1>1, <1>14, <2>1, <2>2, Zenon
<1>. QED BY <1>1, <1>8, <1>15, Zenon

\* How many hexadecimal digits a text begins with.
LEMMA HexSpan ==
  ASSUME NEW d, Len(d) \in Nat
  PROVE  /\ Span(d, IsHex) \in 0 .. Len(d)
         /\ (\A i \in 1 .. Len(d) : IsHex(d[i])) => Span(d, IsHex) = Len(d)
<1>. DEFINE S == {i \in 1 .. Len(d) : ~IsHex(d[i])}
<1>1. PICK k \in 0 .. Len(d) : (\A i \in 1 .. k : i \notin S) /\ (k < Len(d) => k + 1 \in S)
  <2>. HIDE DEF S
  <2>. QED BY LongestPrefix
<1>2. (\A i \in 1 .. k : IsHex(d[i])) /\ (k < Len(d) => ~IsHex(d[k + 1]))
  BY <1>1
<1>. HIDE DEF S
<1>3. PICK n : n = Span(d, IsHex) /\ n \in 0 .. Len(d) /\ (n < Len(d) => ~IsHex(d[n + 1]))
  BY <1>2, Zenon DEF Span
<1>4. ASSUME \A i \in 1 .. Len(d) : IsHex(d[i]) PROVE n = Len(d)
  <2>1. CASE n < Len(d)
    <3>1. n + 1 \in 1 .. Len(d)
      BY <1>3, <2>1
    <3>. QED BY <1>3, <1>4, <2>1, <3>1
  <2>. QED BY <1>3, <2>1
<1>. QED BY <1>3, <1>4

\* An escape takes at least one character, and no more than there are.
LEMMA EscapeLength ==
  ASSUME NEW u \in Seq(Byte), Len(u) >= 2
  PROVE  Unescaped(u).len \in 1 .. Len(u)
<1>. DEFINE code == SubSeq(u, 3, 6)
<1>. DEFINE hex == Span(code, IsHex)
<1>0. Len(u) \in Nat
  BY LenProperties
<1>1. CASE u[2] # 117
  <2>1. \E o : Unescaped(u) = [out |-> o, len |-> 2]
    BY <1>1, Zenon DEF Unescaped
  <2>. QED BY <1>0, <2>1
<1>2. CASE u[2] = 117 /\ Len(u) < 6
  <2>1. Unescaped(u) = [out |-> u, len |-> Len(u)]
    BY <1>2, Zenon DEF Unescaped
  <2>. QED BY <1>0, <2>1
<1>3. CASE u[2] = 117 /\ ~(Len(u) < 6)
  <2>1. Len(code) = 4
    BY <1>0, <1>3, SMT
  <2>2. hex \in 0 .. 4
    <3>. HIDE DEF code
    <3>1. PICK d : d = code /\ Len(d) \in Nat /\ Len(d) = 4
      BY <2>1
    <3>2. Span(d, IsHex) \in 0 .. Len(d)
      BY <3>1, HexSpan
    <3>. QED BY <3>1, <3>2, Zenon
  <2>3. (\E o : Unescaped(u) = [out |-> o, len |-> 6]) \/ (\E o : Unescaped(u) = [out |-> o, len |-> 2 + hex])
    BY <1>3, Zenon DEF Unescaped
  <2>4. 2 + hex \in 1 .. Len(u) /\ 6 \in 1 .. Len(u)
    <3>. HIDE DEF hex
    <3>. QED BY <1>0, <1>3, <2>2
  <2>. HIDE DEF hex, code
  <2>5. \A o, n : [out |-> o, len |-> n].len = n
    OBVIOUS
  <2>. QED BY <2>3, <2>4, <2>5, ZenonT(40)
<1>. QED BY <1>1, <1>2, <1>3

\* What fromStringLiteral makes of the characters from the i-th on.
ReadAt(g, s, i) ==
    IF i > Len(s) THEN <<>>
    ELSE IF s[i] = Backslash /\ i # Len(s)
         THEN Unescaped(From(s, i)).out \o g[i + Unescaped(From(s, i)).len]
         ELSE <<s[i]>> \o g[i + 1]
IsReadFrom(g, s, m) == g = [i \in m .. Len(s) + 1 |-> ReadAt(g, s, i)]

\* fromStringLiteral is the first text of the function that it defines.
LEMMA LiteralIsRead ==
  \A t : fromStringLiteral(t) = (CHOOSE g : IsReadFrom(g, Unquote(t), 1))[1]
BY Zenon DEF fromStringLiteral, IsReadFrom, ReadAt

\* There is a function such as fromStringLiteral defines.
LEMMA ReadExists ==
  ASSUME NEW s \in Seq(Byte) PROVE \E g : IsReadFrom(g, s, 1)
<1>. DEFINE S == {k \in Nat : k <= Len(s) => \E g : IsReadFrom(g, s, Len(s) + 1 - k)}
<1>0. Len(s) \in Nat
  BY LenProperties
<1>1. 0 \in S
  <2>1. PICK g : g = [i \in Len(s) + 1 .. Len(s) + 1 |-> <<>>]
    OBVIOUS
  <2>2. \A i \in Len(s) + 1 .. Len(s) + 1 : i > Len(s)
    BY <1>0
  <2>3. g = [i \in Len(s) + 1 .. Len(s) + 1 |-> ReadAt(g, s, i)]
    BY <2>1, <2>2 DEF ReadAt
  <2>4. Len(s) + 1 - 0 = Len(s) + 1
    BY <1>0
  <2>5. IsReadFrom(g, s, Len(s) + 1 - 0)
    BY <2>3, <2>4, Zenon DEF IsReadFrom
  <2>. QED BY <2>5
<1>2. ASSUME NEW k \in Nat, k \in S PROVE k + 1 \in S
  <2>. SUFFICES ASSUME k + 1 <= Len(s) PROVE \E g : IsReadFrom(g, s, Len(s) + 1 - (k + 1))
    OBVIOUS
  <2>1. k <= Len(s)
    BY <1>0
  <2>2. PICK m : m = Len(s) + 1 - k /\ m \in Nat /\ m - 1 = Len(s) + 1 - (k + 1) /\ m <= Len(s) + 1 /\ m - 1 >= 1
    BY <1>0
  <2>3. PICK f : IsReadFrom(f, s, m)
    BY <1>2, <2>1, <2>2
  <2>4. PICK x : x = ReadAt(f, s, m - 1)
    OBVIOUS
  <2>5. PICK g : g = [i \in m - 1 .. Len(s) + 1 |-> IF i = m - 1 THEN x ELSE f[i]]
    OBVIOUS
  <2>6. \A i \in m .. Len(s) + 1 : g[i] = f[i]
    BY <1>0, <2>2, <2>5
  <2>7. ASSUME NEW i \in m - 1 .. Len(s) + 1 PROVE ReadAt(g, s, i) = ReadAt(f, s, i)
    <3>1. CASE i > Len(s)
      BY <3>1 DEF ReadAt
    <3>2. CASE i <= Len(s)
      <4>1. i + 1 \in m .. Len(s) + 1
        BY <1>0, <2>2, <3>2
      <4>2. PICK n : n = Unescaped(From(s, i)).len
        OBVIOUS
      <4>3. i # Len(s) => i + n \in m .. Len(s) + 1
        <5>. SUFFICES ASSUME i # Len(s) PROVE i + n \in m .. Len(s) + 1
          OBVIOUS
        <5>1. i \in 1 .. Len(s) + 1 /\ Len(s) + 1 - i >= 2 /\ Len(s) + 1 - i \in Nat
          BY <1>0, <2>2, <3>2
        <5>2. From(s, i) \in Seq(Byte) /\ Len(From(s, i)) = Len(s) + 1 - i
          BY <5>1, FromIs
        <5>3. n \in 1 .. Len(s) + 1 - i
          BY <4>2, <5>1, <5>2, EscapeLength
        <5>. QED BY <1>0, <2>2, <3>2, <5>3
      <4>4. g[i + 1] = f[i + 1] /\ (i # Len(s) => g[i + n] = f[i + n])
        BY <2>6, <4>1, <4>3
      <4>. QED BY <4>2, <4>4, Zenon DEF ReadAt
    <3>. QED BY <1>0, <2>2, <3>1, <3>2
  <2>8. ASSUME NEW i \in m - 1 .. Len(s) + 1 PROVE g[i] = ReadAt(f, s, i)
    <3>1. CASE i = m - 1
      BY <2>4, <2>5, <3>1
    <3>2. CASE i # m - 1
      <4>1. i \in m .. Len(s) + 1
        BY <1>0, <2>2, <3>2
      <4>2. f[i] = ReadAt(f, s, i)
        BY <2>3, <4>1, Zenon DEF IsReadFrom
      <4>. QED BY <2>6, <4>1, <4>2
    <3>. QED BY <3>1, <3>2
  <2>9. IsReadFrom(g, s, m - 1)
    <3>1. g = [i \in m - 1 .. Len(s) + 1 |-> g[i]]
      BY <2>5
    <3>2. \A i \in m - 1 .. Len(s) + 1 : g[i] = ReadAt(g, s, i)
      BY <2>7, <2>8
    <3>. QED BY <3>1, <3>2, Zenon DEF IsReadFrom
  <2>. QED BY <2>2, <2>9
<1>3. Nat \subseteq S
  <2>. HIDE DEF S
  <2>. QED BY <1>1, <1>2, SetInduction
<1>4. Len(s) \in S
  BY <1>0, <1>3
<1>5. Len(s) + 1 - Len(s) = 1
  BY <1>0
<1>. QED BY <1>0, <1>4, <1>5

\* What is read from where the character c is written: c, and what is read from behind it.
LEMMA CharacterRead ==
  ASSUME NEW e \in Seq(Byte), NEW c \in Byte, NEW p, NEW q, Placed(e, p, EscapedByte(c), q),
         NEW g, IsReadFrom(g, e, 1)
  PROVE  g[p + 1] = <<c>> \o g[q + 1]
<1>0. Len(e) \in Nat
  BY LenProperties
<1>1. PICK b : /\ b = EscapedByte(c) /\ p \in Nat /\ q \in Nat /\ q = p + Len(b) /\ q <= Len(e)
               /\ \A k \in 1 .. Len(b) : e[p + k] = b[k]
  BY DEF Placed
<1>a. ASSUME p + 1 <= Len(e)
      PROVE  p + 1 \in 1 .. Len(e) /\ g[p + 1] = ReadAt(g, e, p + 1) /\ ~(p + 1 > Len(e))
  <2>1. PICK i : i = p + 1 /\ i \in 1 .. Len(e) + 1 /\ i \in 1 .. Len(e) /\ ~(i > Len(e))
    BY <1>0, <1>1, <1>a
  <2>2. g[i] = ReadAt(g, e, i)
    BY <2>1, Zenon DEF IsReadFrom
  <2>. QED BY <2>1, <2>2
<1>2. ASSUME NEW x, LetterFor(c, x) PROVE g[p + 1] = <<c>> \o g[q + 1]
  <2>1. b = <<Backslash, x>> /\ x # 117 /\ ReadLetter(x) = <<c>>
    BY <1>1, <1>2, Zenon DEF LetterFor
  <2>2. Len(b) = 2 /\ b[1] = Backslash /\ b[2] = x
    BY <2>1
  <2>3. PICK i : i = p + 1 /\ i \in 1 .. Len(e) /\ i # Len(e) /\ i + 1 = p + 2 /\ i + 2 = q + 1 /\ ~(i > Len(e)) /\ i + 1 <= Len(e)
    BY <1>0, <1>1, <2>2
  <2>4. e[i] = Backslash /\ e[i + 1] = x
    BY <1>1, <2>2, <2>3
  <2>5. PICK u : u = From(e, i) /\ u[2] = x
    <3>1. SubSeq(e, i, Len(e))[2] = e[i + 1]
      BY <1>0, <2>3, SMT
    <3>. QED BY <2>4, <3>1 DEF From
  <2>6. Unescaped(u) = [out |-> ReadLetter(x), len |-> 2]
    BY <2>1, <2>5, Zenon DEF Unescaped, ReadLetter
  <2>7. Unescaped(u).out = <<c>> /\ Unescaped(u).len = 2
    BY <2>1, <2>6
  <2>8. g[i] = ReadAt(g, e, i)
    BY <1>a, <2>3
  <2>9. g[i] = Unescaped(u).out \o g[i + Unescaped(u).len]
    BY <2>3, <2>4, <2>5, <2>8, Zenon DEF ReadAt
  <2>. QED BY <2>3, <2>7, <2>9, Zenon
<1>3. ASSUME NEW h, NEW l, DigitsFor(c, h, l) PROVE g[p + 1] = <<c>> \o g[q + 1]
  <2>1. /\ b = <<Backslash, 117, Zero, Zero, h, l>> /\ IsHex(h) /\ IsHex(l)
        /\ HexValue(h) \in Nat /\ HexValue(l) \in Nat /\ 16 * HexValue(h) + HexValue(l) = c
    BY <1>1, <1>3, Zenon DEF DigitsFor
  <2>2. Len(b) = 6 /\ b[1] = Backslash /\ b[2] = 117 /\ b[3] = Zero /\ b[4] = Zero /\ b[5] = h /\ b[6] = l
    BY <2>1
  <2>3. PICK i : /\ i = p + 1 /\ i \in 1 .. Len(e) /\ i # Len(e) /\ i + 6 = q + 1 /\ ~(i > Len(e)) /\ i + 5 <= Len(e)
                 /\ p + 2 = i + 1 /\ p + 3 = i + 2 /\ p + 4 = i + 3 /\ p + 5 = i + 4 /\ p + 6 = i + 5
    <3>1. p \in Nat /\ q = p + 6 /\ q <= Len(e)
      BY <1>1, <2>2
    <3>. QED BY <1>0, <3>1
  <2>4. /\ e[i] = Backslash /\ e[i + 1] = 117 /\ e[i + 2] = Zero /\ e[i + 3] = Zero
        /\ e[i + 4] = h /\ e[i + 5] = l
    <3>1. \A k \in 1 .. 6 : e[p + k] = b[k]
      BY <1>1, <2>2
    <3>2. /\ e[p + 1] = b[1] /\ e[p + 2] = b[2] /\ e[p + 3] = b[3]
          /\ e[p + 4] = b[4] /\ e[p + 5] = b[5] /\ e[p + 6] = b[6]
      BY <3>1
    <3>. QED BY <2>2, <2>3, <3>2, Zenon
  <2>5. PICK u \in Seq(Byte) : /\ u = From(e, i) /\ u[2] = 117 /\ Len(u) \in Nat /\ Len(u) >= 6
                               /\ u[3] = Zero /\ u[4] = Zero /\ u[5] = h /\ u[6] = l
    <3>1. i \in 1 .. Len(e) + 1 /\ Len(e) + 1 - i >= 6 /\ Len(e) + 1 - i \in Nat
      BY <1>0, <2>3, SMTT(30)
    <3>2. From(e, i) \in Seq(Byte) /\ Len(From(e, i)) = Len(e) + 1 - i
      BY <3>1, FromIs
    <3>3. \A k \in 1 .. 6 : From(e, i)[k] = e[i + k - 1]
      <4>1. /\ i \in Int /\ Len(e) \in Int /\ i <= Len(e) /\ \A k \in 1 .. 6 : k \in 1 .. Len(e) - i + 1
            /\ \A k \in i .. Len(e) : k \in 1 .. Len(e)
        BY <1>0, <2>3, SMTT(30)
      <4>2. \A k \in i .. Len(e) : e[k] \in Byte
        BY <4>1, ElementOfSeq
      <4>3. \A k \in 1 .. Len(e) - i + 1 : SubSeq(e, i, Len(e))[k] = e[i + k - 1]
        BY <4>1, <4>2, SubSeqProperties
      <4>. QED BY <4>1, <4>3 DEF From
    <3>4. /\ From(e, i)[2] = e[i + 1] /\ From(e, i)[3] = e[i + 2] /\ From(e, i)[4] = e[i + 3]
          /\ From(e, i)[5] = e[i + 4] /\ From(e, i)[6] = e[i + 5]
      <4>1. i + 2 - 1 = i + 1 /\ i + 3 - 1 = i + 2 /\ i + 4 - 1 = i + 3 /\ i + 5 - 1 = i + 4 /\ i + 6 - 1 = i + 5
        BY <2>3
      <4>. QED BY <3>3, <4>1
    <3>. QED BY <2>4, <3>1, <3>2, <3>4, SMTT(30)
  <2>6. PICK d : /\ d = SubSeq(u, 3, 6) /\ Len(d) = 4 /\ d[1] = Zero /\ d[2] = Zero /\ d[3] = h /\ d[4] = l
    <3>1. Len(SubSeq(u, 3, 6)) = 4 /\ \A k \in 1 .. 4 : SubSeq(u, 3, 6)[k] = u[k + 2]
      BY <2>5, SMT
    <3>2. /\ SubSeq(u, 3, 6)[1] = u[3] /\ SubSeq(u, 3, 6)[2] = u[4]
          /\ SubSeq(u, 3, 6)[3] = u[5] /\ SubSeq(u, 3, 6)[4] = u[6]
      BY <3>1
    <3>. QED BY <2>5, <3>1, <3>2
  <2>7. HexValue(Zero) = 0 /\ IsHex(Zero)
    BY DEF HexValue, Zero, IsDigit, IsHex
  <2>8. Number(d, 16) = c
    <3>1. HexValue(d[1]) = 0 /\ HexValue(d[2]) = 0 /\ HexValue(d[3]) = HexValue(h) /\ HexValue(d[4]) = HexValue(l)
      BY <2>6, <2>7, Zenon
    <3>2. Number(d, 16) = 16 * HexValue(d[3]) + HexValue(d[4])
      BY <2>1, <2>6, <3>1, NumberOfFour
    <3>. QED BY <2>1, <3>1, <3>2, Zenon
  <2>9. Span(d, IsHex) = 4
    <3>1. ASSUME NEW k \in 1 .. Len(d) PROVE IsHex(d[k])
      <4>1. d[k] \in {Zero, h, l}
        BY <2>6
      <4>. QED BY <2>1, <2>7, <4>1
    <3>2. Len(d) \in Nat
      BY <2>6
    <3>3. Span(d, IsHex) = Len(d)
      BY <3>1, <3>2, HexSpan
    <3>. QED BY <2>6, <3>3
  <2>10. Unescaped(u) = [out |-> Utf8(c), len |-> 6]
    <3>1. ~(Len(u) < 6) /\ ~(u[2] # 117)
      BY <2>5
    <3>. QED BY <2>6, <2>8, <2>9, <3>1, Zenon DEF Unescaped
  <2>11. Utf8(c) = <<c>>
    <3>1. c < 128
      BY <1>3 DEF DigitsFor
    <3>. QED BY <3>1, Zenon DEF Utf8
  <2>12. Unescaped(u).out = <<c>> /\ Unescaped(u).len = 6
    BY <2>10, <2>11
  <2>13. g[i] = ReadAt(g, e, i)
    <3>1. p + 1 <= Len(e)
      BY <1>0, <2>3
    <3>. QED BY <1>a, <2>3, <3>1
  <2>14. g[i] = Unescaped(u).out \o g[i + Unescaped(u).len]
    BY <2>3, <2>4, <2>5, <2>13, Zenon DEF ReadAt
  <2>. QED BY <2>3, <2>12, <2>14, Zenon
<1>4. ASSUME ItselfFor(c) PROVE g[p + 1] = <<c>> \o g[q + 1]
  <2>1. b = <<c>> /\ c # Backslash
    BY <1>1, <1>4 DEF ItselfFor
  <2>2. Len(b) = 1 /\ b[1] = c
    BY <2>1
  <2>3. PICK i : i = p + 1 /\ i = q /\ i \in 1 .. Len(e) /\ ~(i > Len(e)) /\ e[i] = c
    BY <1>0, <1>1, <2>2
  <2>4. g[i] = ReadAt(g, e, i)
    BY <1>a, <2>3
  <2>5. g[i] = <<c>> \o g[i + 1]
    BY <2>1, <2>3, <2>4, Zenon DEF ReadAt
  <2>. QED BY <2>3, <2>5
<1>. QED BY <1>2, <1>3, <1>4, WaysToWrite

\* A string literal: a quotation mark, the pieces, and a quotation mark.
LEMMA LiteralIs ==
  ASSUME NEW s \in Seq(Byte), NEW e, e = FlattenSeq(Pieces(s)), NEW t, t = toStringLiteral(s)
  PROVE  /\ e \in Seq(Byte) /\ t \in Seq(Byte) /\ Len(e) \in Nat /\ Len(t) = Len(e) + 2
         /\ t[1] = Quote /\ t[Len(e) + 2] = Quote /\ \A i \in 1 .. Len(e) : t[i + 1] = e[i]
<1>1. PICK w : w = Pieces(s) /\ w \in Seq(Seq(Byte)) /\ Len(w) \in Nat
  BY PiecesAre
<1>2. PICK f : PieceSteps(f, w)
  BY <1>1, FlatSteps
<1>3. e \in Seq(Byte) /\ Len(e) \in Nat
  <2>1. Len(w) \in 0 .. Len(w)
    BY <1>1
  <2>2. f[Len(w)] \in Seq(Byte)
    BY <1>1, <1>2, <2>1, StepsAreTexts
  <2>3. e = f[Len(w)]
    BY <1>1, <1>2 DEF PieceSteps
  <2>. QED BY <2>2, <2>3, LenProperties
<1>4. PICK y \in Seq(Byte) : y = <<Quote>> /\ Len(y) = 1 /\ y[1] = Quote
  <2>1. <<Quote>> \in Seq(Byte) /\ Len(<<Quote>>) = 1 /\ <<Quote>>[1] = Quote
    BY DEF Quote, Byte
  <2>. QED BY <2>1
<1>5. PICK z : /\ z = y \o e /\ z \in Seq(Byte) /\ Len(z) = 1 + Len(e)
               /\ z[1] = Quote /\ \A i \in 1 .. Len(e) : z[1 + i] = e[i]
  <2>1. /\ y \o e \in Seq(Byte) /\ Len(y \o e) = Len(y) + Len(e)
        /\ \A i \in 1 .. Len(y) : (y \o e)[i] = y[i]
        /\ \A i \in 1 .. Len(e) : (y \o e)[Len(y) + i] = e[i]
    BY <1>3, Joined
  <2>2. PICK x : x = y \o e
    OBVIOUS
  <2>3. 1 \in 1 .. Len(y)
    BY <1>4
  <2>4. x \in Seq(Byte) /\ Len(x) = Len(y) + Len(e) /\ x[1] = y[1] /\ \A i \in 1 .. Len(e) : x[Len(y) + i] = e[i]
    BY <2>1, <2>2, <2>3
  <2>. QED BY <1>4, <2>2, <2>4
<1>6. t = z \o y
  BY <1>4, <1>5, Zenon DEF toStringLiteral, Pieces
<1>7. /\ z \o y \in Seq(Byte) /\ Len(z \o y) = Len(z) + Len(y)
      /\ \A i \in 1 .. Len(z) : (z \o y)[i] = z[i]
      /\ \A i \in 1 .. Len(y) : (z \o y)[Len(z) + i] = y[i]
  BY <1>5, Joined
<1>8. t \in Seq(Byte) /\ Len(t) = Len(e) + 2
  BY <1>3, <1>4, <1>5, <1>6, <1>7
<1>9. \A i \in 1 .. Len(e) + 1 : t[i] = z[i]
  BY <1>3, <1>5, <1>6, <1>7
<1>10. t[Len(e) + 2] = Quote
  <2>1. Len(z) + 1 = Len(e) + 2 /\ 1 \in 1 .. Len(y)
    BY <1>3, <1>4, <1>5
  <2>2. t[Len(z) + 1] = y[1]
    BY <1>6, <1>7, <2>1
  <2>. QED BY <1>4, <2>1, <2>2
<1>11. ASSUME NEW i \in 1 .. Len(e) PROVE t[i + 1] = e[i]
  <2>1. i + 1 \in 1 .. Len(e) + 1 /\ 1 + i = i + 1
    BY <1>3
  <2>. QED BY <1>5, <1>9, <2>1
<1>12. t[1] = Quote
  <2>1. 1 \in 1 .. Len(e) + 1
    BY <1>3
  <2>. QED BY <1>5, <1>9, <2>1
<1>. QED BY <1>3, <1>8, <1>10, <1>11, <1>12

\* Without its quotation marks, a literal is the pieces.
LEMMA LiteralUnquoted ==
  ASSUME NEW s \in Seq(Byte) PROVE Unquote(toStringLiteral(s)) = FlattenSeq(Pieces(s))
<1>1. PICK e, t : e = FlattenSeq(Pieces(s)) /\ t = toStringLiteral(s)
  OBVIOUS
<1>2. /\ e \in Seq(Byte) /\ t \in Seq(Byte) /\ Len(e) \in Nat /\ Len(t) = Len(e) + 2
      /\ t[1] = Quote /\ t[Len(e) + 2] = Quote /\ \A i \in 1 .. Len(e) : t[i + 1] = e[i]
  BY <1>1, LiteralIs
<1>3. HasCharAt(t, 1, Quote)
  <2>1. 1 \in 1 .. Len(t) /\ DOMAIN t = 1 .. Len(t)
    BY <1>2, LenProperties
  <2>. QED BY <1>2, <2>1 DEF HasCharAt
<1>4. PICK u : u = Tail(t) /\ u \in Seq(Byte) /\ Len(u) = Len(e) + 1 /\ \A i \in 1 .. Len(e) + 1 : u[i] = t[i + 1]
  <2>1. t # <<>>
    BY <1>2
  <2>2. /\ Tail(t) \in Seq(Byte) /\ Len(Tail(t)) = Len(t) - 1
        /\ \A i \in 1 .. Len(Tail(t)) : Tail(t)[i] = t[i + 1]
    BY <1>2, <2>1, HeadTailProperties
  <2>3. Len(t) - 1 = Len(e) + 1
    BY <1>2
  <2>. QED BY <2>2, <2>3
<1>5. HasCharAt(u, Len(u), Quote)
  <2>1. Len(u) \in 1 .. Len(u) /\ DOMAIN u = 1 .. Len(u) /\ Len(u) \in 1 .. Len(e) + 1 /\ Len(u) + 1 = Len(e) + 2
    BY <1>2, <1>4, LenProperties
  <2>2. u[Len(u)] = Quote
    BY <1>2, <1>4, <2>1
  <2>. QED BY <2>1, <2>2 DEF HasCharAt
<1>6. Front(u) = e
  <2>1. Len(u) - 1 = Len(e) /\ Len(e) - 1 + 1 = Len(e) /\ Len(e) \in Int /\ 1 \in Int
        /\ (IF 1 <= Len(e) THEN Len(e) - 1 + 1 ELSE 0) = Len(e)
    BY <1>2, <1>4
  <2>2. \A i \in 1 .. Len(e) : u[i] \in Byte /\ u[i] = e[i] /\ u[1 + i - 1] = u[i]
    <3>1. \A i \in 1 .. Len(e) : i \in 1 .. Len(e) + 1 /\ i \in 1 .. Len(u) /\ 1 + i - 1 = i
      BY <1>2, <1>4
    <3>2. \A i \in 1 .. Len(u) : u[i] \in Byte
      BY <1>4, ElementOfSeq
    <3>. QED BY <1>2, <1>4, <3>1, <3>2
  <2>3. PICK v : v = SubSeq(u, 1, Len(e))
    OBVIOUS
  <2>4. /\ v \in Seq(Byte) /\ Len(v) = Len(e) /\ \A i \in 1 .. Len(e) : v[i] = u[i]
    <3>1. /\ v \in Seq(Byte) /\ Len(v) = (IF 1 <= Len(e) THEN Len(e) - 1 + 1 ELSE 0)
          /\ \A i \in 1 .. Len(e) - 1 + 1 : v[i] = u[1 + i - 1]
      BY <2>1, <2>2, <2>3, SubSeqProperties
    <3>. QED BY <2>1, <2>2, <3>1
  <2>5. v = e
    BY <1>2, <2>2, <2>4, SeqEqual
  <2>. QED BY <2>1, <2>3, <2>5 DEF Front
<1>7. Unquote(t) = Front(u)
  BY <1>3, <1>4, <1>5, Zenon DEF Unquote
<1>. QED BY <1>1, <1>6, <1>7

\* A string survives: fromStringLiteral(toStringLiteral(s)) is s.
THEOREM LiteralReadsWritten ==
  ASSUME NEW s \in Seq(Byte) PROVE fromStringLiteral(toStringLiteral(s)) = s
<1>. DEFINE n == Len(s)
<1>1. PICK w : /\ w = Pieces(s) /\ w \in Seq(Seq(Byte)) /\ Len(w) = n /\ n \in Nat
               /\ \A i \in 1 .. n : s[i] \in Byte /\ w[i] = EscapedByte(s[i])
  BY PiecesAre
<1>2. PICK f : PieceSteps(f, w)
  BY <1>1, FlatSteps
<1>3. PICK e \in Seq(Byte) : e = FlattenSeq(w) /\ e = f[n]
  <2>1. FlattenSeq(w) \in Seq(Byte)
    BY <1>1, LiteralIs
  <2>. QED BY <1>1, <1>2, <2>1 DEF PieceSteps
<1>4. PICK g : IsReadFrom(g, e, 1) /\ fromStringLiteral(toStringLiteral(s)) = g[1]
  <2>1. Unquote(toStringLiteral(s)) = e
    BY <1>1, <1>3, LiteralUnquoted
  <2>2. \E g : IsReadFrom(g, e, 1)
    BY ReadExists
  <2>3. fromStringLiteral(toStringLiteral(s)) = (CHOOSE g : IsReadFrom(g, e, 1))[1]
    BY <2>1, LiteralIsRead, Zenon
  <2>. QED BY <2>2, <2>3, Zenon
<1>. DEFINE S == {d \in Nat : d <= n => g[Len(f[n - d]) + 1] = SubSeq(s, n - d + 1, n)}
<1>5. 0 \in S
  <2>1. Len(e) \in Nat /\ Len(e) + 1 \in 1 .. Len(e) + 1 /\ Len(e) + 1 > Len(e) /\ n - 0 = n /\ n < n + 1
    BY <1>1, LenProperties
  <2>2. g[Len(e) + 1] = ReadAt(g, e, Len(e) + 1)
    BY <1>4, <2>1, Zenon DEF IsReadFrom
  <2>3. g[Len(e) + 1] = <<>>
    BY <2>1, <2>2, Zenon DEF ReadAt
  <2>4. SubSeq(s, n + 1, n) = <<>>
    BY <1>1, <2>1, SubSeqEmpty
  <2>. QED BY <1>3, <2>1, <2>3, <2>4
<1>6. ASSUME NEW d \in Nat, d \in S PROVE d + 1 \in S
  <2>. SUFFICES ASSUME d + 1 <= n PROVE g[Len(f[n - (d + 1)]) + 1] = SubSeq(s, n - (d + 1) + 1, n)
    OBVIOUS
  <2>1. PICK i : /\ i = n - d /\ i - 1 = n - (d + 1) /\ i \in 1 .. n /\ d <= n /\ n \in i .. n /\ i - 1 + 1 = i
                 /\ i \in 1 .. Len(w)
    BY <1>1
  <2>2. PICK c, p, q : c = s[i] /\ p = Len(f[i - 1]) /\ q = Len(f[i])
    OBVIOUS
  <2>3. c \in Byte /\ w[i] = EscapedByte(c)
    BY <1>1, <2>1, <2>2
  <2>4. Placed(e, p, EscapedByte(c), q)
    <3>1. Placed(FlattenSeq(w), Len(f[i - 1]), w[i], Len(f[i]))
      BY <1>1, <1>2, <2>1, PieceAt
    <3>. QED BY <1>3, <2>2, <2>3, <3>1
  <2>5. g[p + 1] = <<c>> \o g[q + 1]
    BY <1>4, <2>3, <2>4, CharacterRead
  <2>6. g[q + 1] = SubSeq(s, i + 1, n)
    BY <1>6, <2>1, <2>2
  <2>7. SubSeq(s, i, n) = <<s[i]>> \o SubSeq(s, i + 1, n)
    BY <2>1, SubSeqRecursiveFirst
  <2>. QED BY <2>1, <2>2, <2>5, <2>6, <2>7
<1>7. n \in S
  <2>1. Nat \subseteq S
    <3>. HIDE DEF S
    <3>. QED BY <1>5, <1>6, SetInduction
  <2>. QED BY <1>1, <2>1
<1>8. n - n = 0 /\ 0 + 1 = 1 /\ n <= n
  BY <1>1
<1>9. f[0] = <<>> /\ Len(f[0]) = 0
  BY <1>2 DEF PieceSteps
<1>10. g[1] = SubSeq(s, 1, n)
  BY <1>7, <1>8, <1>9
<1>11. SubSeq(s, 1, n) = s
  BY SubSeqFull
<1>. QED BY <1>4, <1>10, <1>11

-----------------------------------------------------------------------------
(* How far parseString goes.                                               *)

\* Which characters of the string that begins at p follow a backslash that counts.
EscapedAt(f, t, p, i) == i > p + 1 /\ t[i - 1] = Backslash /\ ~f[i - 1]
IsEscaped(f, t, p, n) == f = [i \in p + 1 .. n |-> EscapedAt(f, t, p, i)]

StopsOf(f, t, p) == {i \in p + 1 .. Len(t) : t[i] = LF \/ (t[i] = Quote /\ ~f[i])}

\* parseString ends at the stops of the function that it defines.
LEMMA StringParsed ==
  \A t, p : parseString(t, p) = StringEndingAt(t, p, StopsOf(CHOOSE f : IsEscaped(f, t, p, Len(t)), t, p))
BY Zenon DEF parseString, StopsOf, IsEscaped, EscapedAt

\* There is a function such as parseString defines.
LEMMA EscapedExists ==
  ASSUME NEW t, NEW p \in Nat, NEW n \in Nat PROVE \E f : IsEscaped(f, t, p, p + n)
<1>. DEFINE S == {k \in Nat : \E f : IsEscaped(f, t, p, p + k)}
<1>1. 0 \in S
  <2>1. PICK f : f = [i \in {} |-> <<>>]
    OBVIOUS
  <2>2. p + 1 .. p + 0 = {}
    OBVIOUS
  <2>3. IsEscaped(f, t, p, p + 0)
    BY <2>1, <2>2 DEF IsEscaped
  <2>. QED BY <2>3
<1>2. ASSUME NEW k \in Nat, k \in S PROVE k + 1 \in S
  <2>1. PICK f : IsEscaped(f, t, p, p + k)
    BY <1>2
  <2>2. PICK m : m = p + k /\ m \in Nat /\ p + (k + 1) = m + 1 /\ m + 1 >= p + 1
    OBVIOUS
  <2>3. PICK x : x = EscapedAt(f, t, p, m + 1)
    OBVIOUS
  <2>4. PICK g : g = [i \in p + 1 .. m + 1 |-> IF i = m + 1 THEN x ELSE f[i]]
    OBVIOUS
  <2>5. \A i \in p + 1 .. m : g[i] = f[i]
    BY <2>2, <2>4
  <2>6. ASSUME NEW i \in p + 1 .. m + 1 PROVE EscapedAt(g, t, p, i) = EscapedAt(f, t, p, i)
    <3>1. CASE i = p + 1
      <4>1. ~(i > p + 1)
        BY <3>1
      <4>. QED BY <4>1, Zenon DEF EscapedAt
    <3>2. CASE i # p + 1
      <4>1. i - 1 \in p + 1 .. m
        BY <2>2, <3>2
      <4>. QED BY <2>5, <4>1, Zenon DEF EscapedAt
    <3>. QED BY <3>1, <3>2
  <2>7. ASSUME NEW i \in p + 1 .. m + 1 PROVE g[i] = EscapedAt(f, t, p, i)
    <3>1. CASE i = m + 1
      BY <2>3, <2>4, <3>1
    <3>2. CASE i # m + 1
      <4>1. i \in p + 1 .. m
        BY <2>2, <3>2
      <4>2. f[i] = EscapedAt(f, t, p, i)
        BY <2>1, <2>2, <4>1, Zenon DEF IsEscaped
      <4>. QED BY <2>5, <4>1, <4>2, Zenon
    <3>. QED BY <3>1, <3>2
  <2>8. IsEscaped(g, t, p, m + 1)
    <3>1. g = [i \in p + 1 .. m + 1 |-> g[i]]
      BY <2>4
    <3>2. \A i \in p + 1 .. m + 1 : g[i] = EscapedAt(g, t, p, i)
      BY <2>6, <2>7, Zenon
    <3>. QED BY <3>1, <3>2, Zenon DEF IsEscaped
  <2>. QED BY <2>2, <2>8
<1>3. Nat \subseteq S
  <2>. HIDE DEF S
  <2>. QED BY <1>1, <1>2, SetInduction
<1>. QED BY <1>3

\* Where the string could end.
Stops(f, t, j) == t[j] = LF \/ (t[j] = Quote /\ ~f[j])

\* What an entry of the function says.
LEMMA EscapedIs ==
  ASSUME NEW t, NEW p \in Nat, NEW n \in Nat, NEW f, IsEscaped(f, t, p, n), NEW j \in p + 1 .. n, NEW i, i = j - 1
  PROVE  f[j] <=> j > p + 1 /\ t[i] = Backslash /\ ~f[i]
<1>1. f[j] = EscapedAt(f, t, p, j)
  BY Zenon DEF IsEscaped
<1>2. EscapedAt(f, t, p, j) <=> j > p + 1 /\ t[i] = Backslash /\ ~f[i]
  BY Zenon DEF EscapedAt
<1>. QED BY <1>1, <1>2, Zenon

\* The string does not end in what is written for a character, and what follows is not escaped.
LEMMA CharacterScanned ==
  ASSUME NEW t \in Seq(Byte), NEW p \in Nat, NEW f, IsEscaped(f, t, p, Len(t)),
         NEW c \in Byte, NEW a, NEW b, Placed(t, a, EscapedByte(c), b), a >= p, b + 1 <= Len(t), ~f[a + 1]
  PROVE  ~f[b + 1] /\ \A j \in a + 1 .. b : ~Stops(f, t, j)
<1>0. Len(t) \in Nat
  BY LenProperties
<1>1. PICK w : /\ w = EscapedByte(c) /\ a \in Nat /\ b \in Nat /\ b = a + Len(w)
               /\ \A k \in 1 .. Len(w) : t[a + k] = w[k]
  BY DEF Placed
<1>a. Backslash \notin {Quote, LF}
  BY DEF Backslash, Quote, LF
<1>2. ASSUME NEW x, LetterFor(c, x) PROVE ~f[b + 1] /\ \A j \in a + 1 .. b : ~Stops(f, t, j)
  <2>1. w = <<Backslash, x>> /\ x # LF
    BY <1>1, <1>2, Zenon DEF LetterFor
  <2>2. Len(w) = 2 /\ w[1] = Backslash /\ w[2] = x
    BY <2>1
  <2>3. PICK i, j, k : /\ i = a + 1 /\ j = a + 2 /\ k = b + 1 /\ k = a + 3
                       /\ i = j - 1 /\ j = k - 1 /\ j \in p + 1 .. Len(t) /\ k \in p + 1 .. Len(t) /\ j > p + 1
                       /\ \A m \in a + 1 .. b : m = i \/ m = j
    BY <1>0, <1>1, <2>2
  <2>4. t[i] = Backslash /\ t[j] = x
    BY <1>1, <2>2, <2>3
  <2>5. ~f[i]
    BY <2>3
  <2>6. f[j]
    <3>1. f[j] <=> j > p + 1 /\ t[i] = Backslash /\ ~f[i]
      BY <1>0, <2>3, EscapedIs
    <3>. QED BY <2>3, <2>4, <2>5, <3>1, Zenon
  <2>7. ~f[k]
    <3>1. f[k] <=> k > p + 1 /\ t[j] = Backslash /\ ~f[j]
      BY <1>0, <2>3, EscapedIs
    <3>. QED BY <2>6, <3>1, Zenon
  <2>8. ~Stops(f, t, i) /\ ~Stops(f, t, j)
    <3>1. t[i] # LF /\ t[i] # Quote
      BY <1>a, <2>4
    <3>2. t[j] # LF
      BY <2>1, <2>4
    <3>. QED BY <2>6, <3>1, <3>2, Zenon DEF Stops
  <2>. QED BY <2>3, <2>7, <2>8, Zenon
<1>3. ASSUME NEW h, NEW l, DigitsFor(c, h, l) PROVE ~f[b + 1] /\ \A j \in a + 1 .. b : ~Stops(f, t, j)
  <2>1. w = <<Backslash, 117, Zero, Zero, h, l>> /\ {h, l} \intersect {Quote, Backslash, LF} = {}
    BY <1>1, <1>3, Zenon DEF DigitsFor
  <2>2. Len(w) = 6 /\ w[1] = Backslash /\ w[2] = 117 /\ w[3] = Zero /\ w[4] = Zero /\ w[5] = h /\ w[6] = l
    BY <2>1
  <2>3. 117 \notin {Quote, LF} /\ Zero \notin {Quote, LF} /\ h \notin {Quote, LF} /\ l \notin {Quote, LF, Backslash}
    <3>1. 117 \notin {Quote, LF} /\ Zero \notin {Quote, LF}
      BY DEF Zero, Quote, LF
    <3>2. h \notin {Quote, LF} /\ l \notin {Quote, LF, Backslash}
      BY <2>1, Zenon
    <3>. QED BY <3>1, <3>2
  <2>4. ASSUME NEW m \in 1 .. 6 PROVE w[m] \notin {Quote, LF}
    BY <1>a, <2>2, <2>3
  <2>5. ASSUME NEW j \in a + 1 .. b PROVE ~Stops(f, t, j)
    <3>1. PICK m : m = j - a /\ m \in 1 .. 6 /\ a + m = j
      BY <1>1, <2>2, SMTT(30)
    <3>2. t[j] = w[m]
      BY <1>1, <2>2, <3>1, SMTT(30)
    <3>3. t[j] # LF /\ t[j] # Quote
      BY <2>4, <3>1, <3>2
    <3>. QED BY <3>3, Zenon DEF Stops
  <2>6. PICK i, k : i = a + 6 /\ k = b + 1 /\ i = k - 1 /\ k \in p + 1 .. Len(t)
    <3>1. a \in Nat /\ b = a + 6
      BY <1>1, <2>2, Zenon
    <3>. QED BY <1>0, <3>1
  <2>7. t[i] # Backslash
    <3>1. t[i] = w[6]
      <4>1. 6 \in 1 .. Len(w)
        BY <2>2
      <4>. QED BY <1>1, <2>6, <4>1, Zenon
    <3>. QED BY <2>2, <2>3, <3>1
  <2>8. f[k] <=> k > p + 1 /\ t[i] = Backslash /\ ~f[i]
    BY <1>0, <2>6, EscapedIs
  <2>. QED BY <2>5, <2>6, <2>7, <2>8, Zenon
<1>4. ASSUME ItselfFor(c) PROVE ~f[b + 1] /\ \A j \in a + 1 .. b : ~Stops(f, t, j)
  <2>1. w = <<c>> /\ c \notin {Quote, Backslash, LF}
    BY <1>1, <1>4 DEF ItselfFor
  <2>2. Len(w) = 1 /\ w[1] = c
    BY <2>1
  <2>3. PICK i, k : /\ i = a + 1 /\ k = b + 1 /\ i = k - 1 /\ k \in p + 1 .. Len(t)
                    /\ \A m \in a + 1 .. b : m = i
    BY <1>0, <1>1, <2>2
  <2>4. t[i] = c
    BY <1>1, <2>2, <2>3
  <2>5. f[k] <=> k > p + 1 /\ t[i] = Backslash /\ ~f[i]
    BY <1>0, <2>3, EscapedIs
  <2>6. t[i] # Backslash /\ t[i] # LF /\ t[i] # Quote
    BY <2>1, <2>4
  <2>7. ~Stops(f, t, i)
    BY <2>6, Zenon DEF Stops
  <2>. QED BY <2>3, <2>5, <2>6, <2>7, Zenon
<1>. QED BY <1>2, <1>3, <1>4, WaysToWrite

\* From the p-th character of t on, there is w.
TextAt(t, p, w) == p + Len(w) - 1 <= Len(t) /\ SubSeq(t, p, p + Len(w) - 1) = w
LiteralAt(t, p, s) == TextAt(t, p, toStringLiteral(s))

\* The characters of a literal in a text.
LEMMA LiteralPlaced ==
  ASSUME NEW t \in Seq(Byte), NEW p \in 1 .. Len(t), NEW s \in Seq(Byte), LiteralAt(t, p, s),
         NEW e, e = FlattenSeq(Pieces(s))
  PROVE  /\ Len(e) \in Nat /\ Len(toStringLiteral(s)) = Len(e) + 2 /\ p + Len(e) + 1 <= Len(t)
         /\ t[p] = Quote /\ t[p + Len(e) + 1] = Quote /\ \A k \in 1 .. Len(e) : t[p + k] = e[k]
<1>0. Len(t) \in Nat
  BY LenProperties
<1>1. PICK u : u = toStringLiteral(s)
  OBVIOUS
<1>2. /\ Len(e) \in Nat /\ Len(u) = Len(e) + 2
      /\ u[1] = Quote /\ u[Len(e) + 2] = Quote /\ \A i \in 1 .. Len(e) : u[i + 1] = e[i]
  BY <1>1, LiteralIs
<1>3. PICK m : m = p + Len(u) - 1 /\ m = p + Len(e) + 1 /\ m <= Len(t) /\ m - p + 1 = Len(e) + 2 /\ m \in Nat /\ SubSeq(t, p, m) = u
  <2>1. p + Len(u) - 1 <= Len(t) /\ SubSeq(t, p, p + Len(u) - 1) = u
    BY <1>1, Zenon DEF LiteralAt, TextAt
  <2>2. p + Len(u) - 1 = p + Len(e) + 1 /\ p + Len(e) + 1 \in Nat /\ (p + Len(e) + 1) - p + 1 = Len(e) + 2
    BY <1>2
  <2>. QED BY <2>1, <2>2
<1>4. \A k \in 1 .. Len(e) + 2 : u[k] = t[p + k - 1]
  <2>1. \A k \in p .. m : t[k] \in Byte
    <3>1. \A k \in p .. m : k \in 1 .. Len(t)
      BY <1>0, <1>3
    <3>. QED BY <3>1, ElementOfSeq
  <2>2. p \in Int /\ m \in Int
    BY <1>3
  <2>3. \A k \in 1 .. m - p + 1 : SubSeq(t, p, m)[k] = t[p + k - 1]
    BY <2>1, <2>2, SubSeqProperties
  <2>. QED BY <1>3, <2>3
<1>5. t[p] = Quote
  <2>1. 1 \in 1 .. Len(e) + 2 /\ p + 1 - 1 = p
    BY <1>2
  <2>2. u[1] = t[p + 1 - 1]
    BY <1>4, <2>1
  <2>. QED BY <1>2, <2>1, <2>2
<1>6. t[p + Len(e) + 1] = Quote
  <2>1. Len(e) + 2 \in 1 .. Len(e) + 2 /\ p + (Len(e) + 2) - 1 = p + Len(e) + 1
    BY <1>2
  <2>2. u[Len(e) + 2] = t[p + (Len(e) + 2) - 1]
    BY <1>4, <2>1
  <2>. QED BY <1>2, <2>1, <2>2
<1>7. ASSUME NEW k \in 1 .. Len(e) PROVE t[p + k] = e[k]
  <2>1. k + 1 \in 1 .. Len(e) + 2 /\ p + (k + 1) - 1 = p + k
    BY <1>2
  <2>2. u[k + 1] = t[p + (k + 1) - 1]
    BY <1>4, <2>1
  <2>. QED BY <1>2, <2>1, <2>2
<1>. QED BY <1>1, <1>2, <1>3, <1>5, <1>6, <1>7

\* The string does not end before its last quotation mark, which is not escaped.
LEMMA LiteralScanned ==
  ASSUME NEW t \in Seq(Byte), NEW p \in 1 .. Len(t), NEW s \in Seq(Byte), LiteralAt(t, p, s),
         NEW e, e = FlattenSeq(Pieces(s)), NEW f, IsEscaped(f, t, p, Len(t))
  PROVE  ~f[p + Len(e) + 1] /\ \A j \in p + 1 .. p + Len(e) : ~Stops(f, t, j)
<1>0. Len(t) \in Nat /\ p \in Nat
  BY LenProperties
<1>1. PICK w : /\ w = Pieces(s) /\ w \in Seq(Seq(Byte)) /\ Len(w) = Len(s) /\ Len(s) \in Nat
               /\ \A i \in 1 .. Len(s) : s[i] \in Byte /\ w[i] = EscapedByte(s[i])
  BY PiecesAre
<1>2. PICK g : PieceSteps(g, w)
  BY <1>1, FlatSteps
<1>3. /\ Len(e) \in Nat /\ p + Len(e) + 1 <= Len(t) /\ \A k \in 1 .. Len(e) : t[p + k] = e[k]
  BY LiteralPlaced
<1>. DEFINE S == {k \in Nat : k <= Len(w) =>
                     ~f[p + Len(g[k]) + 1] /\ \A j \in p + 1 .. p + Len(g[k]) : ~Stops(f, t, j)}
<1>4. 0 \in S
  <2>1. Len(g[0]) = 0 /\ p + 0 = p /\ p + 1 .. p = {}
    BY <1>0, <1>2 DEF PieceSteps
  <2>2. p + 1 \in p + 1 .. Len(t) /\ ~(p + 1 > p + 1) /\ p = (p + 1) - 1
    BY <1>0, <1>3
  <2>3. f[p + 1] <=> p + 1 > p + 1 /\ t[p] = Backslash /\ ~f[p]
    BY <1>0, <2>2, EscapedIs
  <2>4. ~f[p + 1]
    BY <2>2, <2>3, Zenon
  <2>. QED BY <2>1, <2>4
<1>5. ASSUME NEW k \in Nat, k \in S PROVE k + 1 \in S
  <2>. SUFFICES ASSUME k + 1 <= Len(w)
                PROVE  ~f[p + Len(g[k + 1]) + 1] /\ \A j \in p + 1 .. p + Len(g[k + 1]) : ~Stops(f, t, j)
    OBVIOUS
  <2>1. PICK i \in 1 .. Len(w) : i = k + 1 /\ i - 1 = k
    BY <1>1
  <2>2. PICK c, x, y, b : c = s[i] /\ x = Len(g[k]) /\ y = Len(g[k + 1]) /\ b = EscapedByte(c) /\ w[i] = b /\ c \in Byte
    BY <1>1, <2>1
  <2>3. x \in Nat /\ y \in Nat /\ y = x + Len(b) /\ y <= Len(e) /\ \A j \in 1 .. Len(b) : e[x + j] = b[j]
    <3>1. Placed(FlattenSeq(w), Len(g[i - 1]), w[i], Len(g[i]))
      BY <1>1, <1>2, PieceAt
    <3>2. Placed(e, x, b, y)
      BY <1>1, <2>1, <2>2, <3>1
    <3>. QED BY <3>2, Zenon DEF Placed
  <2>4. Len(b) \in Nat
    BY <2>2, WrittenIsText, LenProperties
  <2>5. PICK q, r : q = p + x /\ r = p + y /\ q \in Nat /\ r \in Nat /\ q >= p /\ r + 1 <= Len(t) /\ r = q + Len(b) /\ r <= Len(t)
    BY <1>0, <1>3, <2>3, <2>4, SMTT(30)
  <2>6. Placed(t, q, b, r)
    <3>1. ASSUME NEW j \in 1 .. Len(b) PROVE t[q + j] = b[j]
      <4>1. x + j \in 1 .. Len(e) /\ q + j = p + (x + j)
        BY <1>0, <1>3, <2>3, <2>4, <2>5
      <4>2. t[p + (x + j)] = e[x + j]
        BY <1>3, <4>1
      <4>. QED BY <2>3, <4>1, <4>2
    <3>. QED BY <2>5, <3>1, Zenon DEF Placed
  <2>7. ~f[q + 1] /\ \A j \in p + 1 .. q : ~Stops(f, t, j)
    <3>1. k <= Len(w)
      BY <1>1
    <3>. QED BY <1>5, <2>2, <2>5, <3>1
  <2>8. ~f[r + 1] /\ \A j \in q + 1 .. r : ~Stops(f, t, j)
    <3>1. Placed(t, q, EscapedByte(c), r)
      BY <2>2, <2>6
    <3>. QED BY <1>0, <2>2, <2>5, <2>7, <3>1, CharacterScanned
  <2>9. \A j \in p + 1 .. r : j \in p + 1 .. q \/ j \in q + 1 .. r
    BY <1>0, <2>5
  <2>. QED BY <2>2, <2>5, <2>7, <2>8, <2>9
<1>6. Len(w) \in S
  <2>1. Nat \subseteq S
    <3>. HIDE DEF S
    <3>. QED BY <1>4, <1>5, SetInduction
  <2>. QED BY <1>1, <2>1
<1>7. g[Len(w)] = e /\ Len(w) <= Len(w)
  BY <1>1, <1>2 DEF PieceSteps
<1>. QED BY <1>6, <1>7

\* Wherever the literal of a string is in a text, parseString takes the whole literal and nothing
\* behind it, and the value is the string.
THEOREM StringIsReadBack ==
  ASSUME NEW t \in Seq(Byte), NEW p \in 1 .. Len(t), NEW s \in Seq(Byte), LiteralAt(t, p, s)
  PROVE  parseString(t, p) = Parsed(Str(s), Len(toStringLiteral(s)))
<1>0. Len(t) \in Nat /\ p \in Nat
  BY LenProperties
<1>1. PICK e : e = FlattenSeq(Pieces(s))
  OBVIOUS
<1>2. /\ Len(e) \in Nat /\ Len(toStringLiteral(s)) = Len(e) + 2 /\ p + Len(e) + 1 <= Len(t)
      /\ t[p] = Quote /\ t[p + Len(e) + 1] = Quote
  BY <1>1, LiteralPlaced, SMTT(30)
<1>3. PICK f : IsEscaped(f, t, p, Len(t)) /\ parseString(t, p) = StringEndingAt(t, p, StopsOf(f, t, p))
  <2>1. Len(t) - p \in Nat /\ p + (Len(t) - p) = Len(t)
    BY <1>0
  <2>2. \E f : IsEscaped(f, t, p, p + (Len(t) - p))
    BY <1>0, <2>1, EscapedExists
  <2>3. \E f : IsEscaped(f, t, p, Len(t))
    BY <2>1, <2>2
  <2>. QED BY <2>3, StringParsed, Zenon
<1>4. ~f[p + Len(e) + 1] /\ \A j \in p + 1 .. p + Len(e) : ~Stops(f, t, j)
  BY <1>1, <1>3, LiteralScanned
<1>5. PICK m : m = p + Len(e) + 1 /\ m \in p + 1 .. Len(t) /\ m + 1 - p = Len(e) + 2 /\ m = p + (Len(e) + 2) - 1
  BY <1>0, <1>2
<1>6. PICK stops : stops = StopsOf(f, t, p)
  OBVIOUS
<1>7. m \in stops /\ \A j \in stops : m <= j
  <2>1. \A j \in p + 1 .. Len(t) : j \in stops <=> Stops(f, t, j)
    BY <1>6, Zenon DEF StopsOf, Stops
  <2>2. stops \subseteq p + 1 .. Len(t)
    BY <1>6, Zenon DEF StopsOf
  <2>3. Stops(f, t, m)
    BY <1>2, <1>4, <1>5, Zenon DEF Stops
  <2>4. ASSUME NEW j \in stops PROVE m <= j
    <3>1. j \in p + 1 .. Len(t) /\ j \notin p + 1 .. p + Len(e)
      BY <1>4, <2>1, <2>2, <2>4, Zenon
    <3>. QED BY <1>0, <1>2, <1>5, <3>1
  <2>. QED BY <1>5, <2>1, <2>3, <2>4
<1>8. (CHOOSE i \in stops : \A j \in stops : i <= j) = m
  <2>1. PICK i : i = CHOOSE x \in stops : \A j \in stops : x <= j
    OBVIOUS
  <2>2. i \in stops /\ \A j \in stops : i <= j
    BY <1>7, <2>1, Zenon
  <2>3. i \in Nat /\ m \in Nat /\ i <= m /\ m <= i
    <3>1. stops \subseteq Nat
      BY <1>0, <1>6 DEF StopsOf
    <3>. QED BY <1>7, <2>2, <3>1
  <2>. QED BY <2>1, <2>3
<1>9. t[m] # LF /\ HasCharAt(t, p, Quote) /\ stops # {}
  <2>1. DOMAIN t = 1 .. Len(t)
    BY LenProperties
  <2>2. Quote # LF
    BY DEF Quote, LF
  <2>. QED BY <1>2, <1>5, <1>7, <2>1, <2>2 DEF HasCharAt
<1>10. StringEndingAt(t, p, stops) = Parsed(Str(fromStringLiteral(SubSeq(t, p, m))), m + 1 - p)
  BY <1>8, <1>9, Zenon DEF StringEndingAt
<1>11. SubSeq(t, p, m) = toStringLiteral(s)
  BY <1>2, <1>5, Zenon DEF LiteralAt, TextAt
<1>12. fromStringLiteral(toStringLiteral(s)) = s
  BY LiteralReadsWritten
<1>. QED BY <1>2, <1>3, <1>5, <1>6, <1>10, <1>11, <1>12, Zenon

-----------------------------------------------------------------------------
(* Numbers in base 10.                                                     *)

\* What a digit is worth.
LEMMA DigitWorth == \A r \in 0 .. 9 : HexValue(48 + r) = r /\ IsDigit(48 + r) /\ 48 + r \in 48 .. 57
BY SMT DEF HexValue, IsDigit

NumberTo(v, d, n) == v = [i \in 0 .. n |-> IF i = 0 THEN 0 ELSE 10 * v[i - 1] + HexValue(d[i])]

\* There is a function such as Number defines.
LEMMA NumberExists ==
  ASSUME NEW d, NEW n \in Nat PROVE \E v : NumberTo(v, d, n)
<1>. DEFINE S == {k \in Nat : \E v : NumberTo(v, d, k)}
<1>1. 0 \in S
  <2>1. PICK v : v = [i \in 0 .. 0 |-> 0]
    OBVIOUS
  <2>2. NumberTo(v, d, 0)
    BY <2>1 DEF NumberTo
  <2>. QED BY <2>2
<1>2. ASSUME NEW k \in Nat, k \in S PROVE k + 1 \in S
  <2>1. PICK v : NumberTo(v, d, k)
    BY <1>2
  <2>2. PICK x : x = 10 * v[k] + HexValue(d[k + 1])
    OBVIOUS
  <2>3. PICK u : u = [i \in 0 .. k + 1 |-> IF i = k + 1 THEN x ELSE v[i]]
    OBVIOUS
  <2>4. \A i \in 0 .. k : u[i] = v[i]
    BY <2>3
  <2>5. ASSUME NEW i \in 0 .. k + 1 PROVE u[i] = IF i = 0 THEN 0 ELSE 10 * u[i - 1] + HexValue(d[i])
    <3>1. CASE i = k + 1
      <4>1. i # 0 /\ i - 1 = k /\ k \in 0 .. k
        BY <3>1
      <4>2. u[i] = x /\ u[i - 1] = v[k]
        BY <2>3, <2>4, <3>1, <4>1
      <4>. QED BY <2>2, <3>1, <4>1, <4>2, Zenon
    <3>2. CASE i # k + 1
      <4>1. i \in 0 .. k /\ (i # 0 => i - 1 \in 0 .. k)
        BY <3>2
      <4>2. v[i] = IF i = 0 THEN 0 ELSE 10 * v[i - 1] + HexValue(d[i])
        BY <2>1, <4>1, Zenon DEF NumberTo
      <4>. QED BY <2>4, <4>1, <4>2, Zenon
    <3>. QED BY <3>1, <3>2
  <2>6. u = [i \in 0 .. k + 1 |-> u[i]]
    BY <2>3
  <2>7. NumberTo(u, d, k + 1)
    BY <2>5, <2>6, Zenon DEF NumberTo
  <2>. QED BY <2>7
<1>3. Nat \subseteq S
  <2>. HIDE DEF S
  <2>. QED BY <1>1, <1>2, SetInduction
<1>. QED BY <1>3

\* The values of a number, one digit after the other.
WorthOf(v, d) ==
    /\ v[0] = 0 /\ Number(d, 10) = v[Len(d)]
    /\ \A i \in 1 .. Len(d) : v[i] = 10 * v[i - 1] + HexValue(d[i])

LEMMA NumberSteps ==
  ASSUME NEW d, Len(d) \in Nat PROVE \E v : WorthOf(v, d)
<1>1. PICK n : n = Len(d) /\ n \in Nat
  OBVIOUS
<1>2. PICK u : NumberTo(u, d, n)
  BY <1>1, NumberExists
<1>3. NumberUpTo(u, d, 10)
  BY <1>1, <1>2, Zenon DEF NumberTo, NumberUpTo
<1>4. PICK v : NumberUpTo(v, d, 10) /\ Number(d, 10) = v[n]
  BY <1>1, <1>3, NumberIsLast, Zenon
<1>5. \A i \in 0 .. n : v[i] = IF i = 0 THEN 0 ELSE 10 * v[i - 1] + HexValue(d[i])
  BY <1>1, <1>4, Zenon DEF NumberUpTo
<1>6. v[0] = 0
  BY <1>1, <1>5
<1>7. ASSUME NEW i \in 1 .. n PROVE v[i] = 10 * v[i - 1] + HexValue(d[i])
  <2>1. i \in 0 .. n /\ i # 0
    BY <1>1
  <2>. QED BY <1>5, <2>1, Zenon
<1>8. WorthOf(v, d)
  BY <1>1, <1>4, <1>6, <1>7, Zenon DEF WorthOf
<1>. QED BY <1>8

\* One more digit.
LEMMA NumberAppended ==
  ASSUME NEW w \in Seq(48 .. 57), NEW r \in 0 .. 9, Number(w, 10) \in Nat
  PROVE  Number(Append(w, 48 + r), 10) = 10 * Number(w, 10) + r
<1>1. PICK d, n : d = Append(w, 48 + r) /\ n = Len(w) /\ n \in Nat
  BY LenProperties
<1>2. Len(d) = n + 1 /\ d[n + 1] = 48 + r /\ \A i \in 1 .. n : d[i] = w[i]
  BY <1>1
<1>3. PICK u : WorthOf(u, w)
  BY <1>1, NumberSteps
<1>4. PICK v : WorthOf(v, d)
  <2>1. Len(d) \in Nat
    BY <1>1, <1>2
  <2>. QED BY <2>1, NumberSteps
<1>. DEFINE S == {k \in Nat : k <= n => v[k] = u[k]}
<1>5. 0 \in S
  BY <1>3, <1>4, Zenon DEF WorthOf
<1>6. ASSUME NEW k \in Nat, k \in S PROVE k + 1 \in S
  <2>. SUFFICES ASSUME k + 1 <= n PROVE v[k + 1] = u[k + 1]
    OBVIOUS
  <2>1. PICK i : i = k + 1 /\ i - 1 = k /\ i \in 1 .. n /\ i \in 1 .. n + 1 /\ k <= n
    BY <1>1
  <2>2. v[k] = u[k] /\ d[i] = w[i]
    BY <1>2, <1>6, <2>1
  <2>3. v[i] = 10 * v[k] + HexValue(d[i])
    <3>1. i \in 1 .. Len(d)
      BY <1>2, <2>1
    <3>. QED BY <1>4, <2>1, <3>1, Zenon DEF WorthOf
  <2>4. u[i] = 10 * u[k] + HexValue(w[i])
    BY <1>1, <1>3, <2>1, Zenon DEF WorthOf
  <2>. QED BY <2>1, <2>2, <2>3, <2>4, Zenon
<1>7. v[n] = u[n]
  <2>1. Nat \subseteq S
    <3>. HIDE DEF S
    <3>. QED BY <1>5, <1>6, SetInduction
  <2>. QED BY <1>1, <2>1
<1>8. v[n + 1] = 10 * v[n] + HexValue(48 + r)
  <2>1. PICK m : m = n + 1 /\ m \in 1 .. m /\ m - 1 = n
    BY <1>1
  <2>2. Len(d) = m /\ d[m] = 48 + r
    BY <1>2, <2>1
  <2>3. v[m] = 10 * v[m - 1] + HexValue(d[m])
    BY <1>4, <2>1, <2>2, Zenon DEF WorthOf
  <2>. QED BY <2>1, <2>2, <2>3, Zenon
<1>9. u[n] = Number(w, 10)
  BY <1>1, <1>3, Zenon DEF WorthOf
<1>10. v[n + 1] = Number(d, 10)
  BY <1>2, <1>4, Zenon DEF WorthOf
<1>11. HexValue(48 + r) = r
  BY DigitWorth
<1>. QED BY <1>1, <1>7, <1>8, <1>9, <1>10, <1>11, Zenon

\* One digit.
LEMMA NumberOfDigit ==
  ASSUME NEW r \in 0 .. 9 PROVE Number(<<48 + r>>, 10) = r
<1>0. PICK x : x = 48 + r
  OBVIOUS
<1>1. PICK d : d = <<x>> /\ d = <<48 + r>> /\ Len(d) = 1 /\ d[1] = 48 + r
  <2>1. Len(<<x>>) = 1 /\ <<x>>[1] = x
    OBVIOUS
  <2>. QED BY <1>0, <2>1
<1>2. PICK v : WorthOf(v, d)
  BY <1>1, NumberSteps
<1>d. 1 \in 1 .. 1
  BY SMT
<1>e. 1 - 1 = 0
  BY SMT
<1>a. 1 \in 1 .. 1 /\ 1 - 1 = 0
  BY <1>d, <1>e
<1>b. r \in Int
  OBVIOUS
<1>c. 10 * 0 + r = r
  BY <1>b, SMT
<1>3. 1 \in 1 .. 1 /\ 1 - 1 = 0 /\ 10 * 0 + r = r
  BY <1>a, <1>c
<1>4. v[1] = 10 * v[1 - 1] + HexValue(d[1]) /\ v[0] = 0 /\ Number(d, 10) = v[1]
  BY <1>1, <1>2, <1>3, Zenon DEF WorthOf
<1>5. HexValue(d[1]) = r
  BY <1>1, DigitWorth
<1>. QED BY <1>1, <1>3, <1>4, <1>5, Zenon

DigitsUpTo(d, n, m) == d = [k \in 0 .. m |-> IF k < 10 THEN <<48 + k>> ELSE Append(d[k \div 10], 48 + (k % 10))]

\* The digits of n are the last entry of the function that Digits defines.
LEMMA DigitsIs == \A n : Digits(n) = (CHOOSE d : DigitsUpTo(d, n, n))[n]
BY Zenon DEF Digits, DigitsUpTo

\* The digits before the last one, and the last one, of a number that has two.
LEMMA LastDigit ==
  ASSUME NEW k \in Nat, k >= 10
  PROVE  \E a, b : a = k \div 10 /\ b = k % 10 /\ a \in 1 .. k - 1 /\ b \in 0 .. 9 /\ 10 * a + b = k
<1>1. PICK a, b : a = k \div 10 /\ b = k % 10
  OBVIOUS
<1>2. a \in Int /\ b \in 0 .. 9 /\ 10 * a + b = k
  BY <1>1, SMT
<1>3. a \in 1 .. k - 1
  BY <1>2, SMT
<1>. QED BY <1>1, <1>2, <1>3, Zenon

\* There is a function such as Digits defines.
LEMMA DigitsExist ==
  ASSUME NEW n, NEW m \in Nat PROVE \E d : DigitsUpTo(d, n, m)
<1>. DEFINE S == {k \in Nat : \E d : DigitsUpTo(d, n, k)}
<1>1. 0 \in S
  <2>1. PICK d : d = [k \in 0 .. 0 |-> <<48 + k>>]
    OBVIOUS
  <2>2. \A k \in 0 .. 0 : k < 10
    OBVIOUS
  <2>3. DigitsUpTo(d, n, 0)
    BY <2>1, <2>2 DEF DigitsUpTo
  <2>. QED BY <2>3
<1>2. ASSUME NEW k \in Nat, k \in S PROVE k + 1 \in S
  <2>1. PICK d : DigitsUpTo(d, n, k)
    BY <1>2
  <2>2. PICK x : x = IF k + 1 < 10 THEN <<48 + (k + 1)>> ELSE Append(d[(k + 1) \div 10], 48 + ((k + 1) % 10))
    OBVIOUS
  <2>3. PICK g : g = [i \in 0 .. k + 1 |-> IF i = k + 1 THEN x ELSE d[i]]
    OBVIOUS
  <2>4. \A i \in 0 .. k : g[i] = d[i]
    BY <2>3
  <2>5. ASSUME NEW i \in 0 .. k + 1
        PROVE  g[i] = IF i < 10 THEN <<48 + i>> ELSE Append(g[i \div 10], 48 + (i % 10))
    <3>1. PICK j : j = i \div 10
      OBVIOUS
    <3>2. ~(i < 10) => j \in 0 .. k
      <4>. SUFFICES ASSUME ~(i < 10) PROVE j \in 0 .. k
        OBVIOUS
      <4>0. i \in Nat /\ i >= 10
        OBVIOUS
      <4>1. j \in 1 .. i - 1
        BY <3>1, <4>0, LastDigit, Zenon
      <4>. QED BY <4>1
    <3>3. ~(i < 10) => g[j] = d[j]
      BY <2>4, <3>2
    <3>4. CASE i = k + 1
      <4>1. g[i] = x
        BY <2>3, <3>4
      <4>. QED BY <2>2, <3>1, <3>3, <3>4, <4>1, Zenon
    <3>5. CASE i # k + 1
      <4>1. i \in 0 .. k
        BY <3>5
      <4>2. d[i] = IF i < 10 THEN <<48 + i>> ELSE Append(d[i \div 10], 48 + (i % 10))
        BY <2>1, <4>1, Zenon DEF DigitsUpTo
      <4>. QED BY <2>4, <3>1, <3>3, <4>1, <4>2, Zenon
    <3>. QED BY <3>4, <3>5
  <2>6. g = [i \in 0 .. k + 1 |-> g[i]]
    BY <2>3
  <2>7. DigitsUpTo(g, n, k + 1)
    BY <2>5, <2>6, Zenon DEF DigitsUpTo
  <2>. QED BY <2>7
<1>3. Nat \subseteq S
  <2>. HIDE DEF S
  <2>. QED BY <1>1, <1>2, SetInduction
<1>. QED BY <1>3

\* The digits w of a natural number k.
AreDigits(w, k) == w \in Seq(48 .. 57) /\ Len(w) \in Nat \ {0} /\ Number(w, 10) = k

\* The number that the digits of n stand for is n.
LEMMA DigitsRead ==
  ASSUME NEW n \in Nat PROVE AreDigits(Digits(n), n)
<1>1. PICK d : DigitsUpTo(d, n, n) /\ Digits(n) = d[n]
  BY DigitsExist, DigitsIs, Zenon
<1>. DEFINE Wrong == {k \in 0 .. n : ~AreDigits(d[k], k)}
<1>2. ASSUME Wrong # {} PROVE FALSE
  <2>1. Wrong \in SUBSET Nat
    OBVIOUS
  <2>2. PICK k \in Wrong : \A j \in Wrong : k <= j
    <3>. HIDE DEF Wrong
    <3>. QED BY <1>2, <2>1, Smallest
  <2>3. k \in 0 .. n /\ ~AreDigits(d[k], k) /\ \A j \in 0 .. n : j < k => AreDigits(d[j], j)
    BY <2>2
  <2>4. d[k] = IF k < 10 THEN <<48 + k>> ELSE Append(d[k \div 10], 48 + (k % 10))
    BY <1>1, <2>3, Zenon DEF DigitsUpTo
  <2>. HIDE DEF Wrong
  <2>5. CASE k < 10
    <3>1. k \in 0 .. 9
      BY <2>3, <2>5
    <3>2. d[k] = <<48 + k>>
      BY <2>4, <2>5
    <3>3. Number(<<48 + k>>, 10) = k
      BY <3>1, NumberOfDigit
    <3>4. <<48 + k>> \in Seq(48 .. 57) /\ Len(<<48 + k>>) = 1
      BY <3>1
    <3>. QED BY <2>3, <3>2, <3>3, <3>4 DEF AreDigits
  <2>6. CASE ~(k < 10)
    <3>1. PICK j, r : j = k \div 10 /\ r = k % 10 /\ j \in 1 .. k - 1 /\ r \in 0 .. 9 /\ 10 * j + r = k
      <4>1. k \in Nat /\ k >= 10
        BY <2>3, <2>6
      <4>. QED BY <4>1, LastDigit, Zenon
    <3>2. j \in 0 .. n /\ j < k /\ j \in Nat
      BY <2>3, <3>1
    <3>3. PICK w : w = d[j] /\ w \in Seq(48 .. 57) /\ Len(w) \in Nat /\ Number(w, 10) = j
      BY <2>3, <3>2 DEF AreDigits
    <3>4. d[k] = Append(w, 48 + r)
      BY <2>4, <2>6, <3>1, <3>3, Zenon
    <3>5. Number(Append(w, 48 + r), 10) = 10 * Number(w, 10) + r
      BY <3>1, <3>2, <3>3, NumberAppended
    <3>6. Append(w, 48 + r) \in Seq(48 .. 57) /\ Len(Append(w, 48 + r)) = Len(w) + 1
      <4>1. 48 + r \in 48 .. 57
        BY <3>1
      <4>. QED BY <3>3, <4>1, AppendProperties
    <3>7. Len(w) + 1 \in Nat \ {0}
      BY <3>3
    <3>8. Number(Append(w, 48 + r), 10) = k
      BY <3>1, <3>3, <3>5, Zenon
    <3>9. AreDigits(d[k], k)
      BY <3>4, <3>6, <3>7, <3>8, Zenon DEF AreDigits
    <3>. QED BY <2>3, <3>9
  <2>. QED BY <2>5, <2>6
<1>3. n \in 0 .. n
  OBVIOUS
<1>4. AreDigits(d[n], n)
  BY <1>2, <1>3
<1>. QED BY <1>1, <1>4

\* A minus is no digit.
LEMMA MinusIs == Minus \in Byte /\ Minus \notin 48 .. 57 /\ ~IsDigit(Minus) /\ ~IsAlpha(Minus) /\ Minus # Quote
                 /\ Minus # Dot /\ ~IsExponent(Minus)
BY SMT DEF Minus, Byte, IsDigit, IsAlpha, IsUpper, IsLower, Quote, Dot, IsExponent

\* An integer as text: digits, behind a minus when it is negative.
LEMMA IntegerIs ==
  ASSUME NEW n \in Int, NEW w, w = Signed(n, Digits(Abs(n)))
  PROVE  /\ w \in Seq(Byte) /\ Len(w) \in Nat \ {0} /\ w[1] \in {Minus} \union 48 .. 57
         /\ \A i \in 1 .. Len(w) : w[i] \in {Minus} \union 48 .. 57
         /\ IsInteger(w) /\ ValueOf(w) = n
<1>1. PICK a : a = Abs(n) /\ a \in Nat /\ (n < 0 => -a = n) /\ (~(n < 0) => a = n)
  <2>1. (n < 0 => Abs(n) = -n) /\ (~(n < 0) => Abs(n) = n)
    BY Zenon DEF Abs
  <2>2. n < 0 => -n \in Nat /\ -(-n) = n
    BY SMT
  <2>3. ~(n < 0) => n \in Nat
    BY SMT
  <2>. QED BY <2>1, <2>2, <2>3
<1>2. PICK d \in Seq(48 .. 57) : d = Digits(a) /\ Len(d) \in Nat \ {0} /\ Number(d, 10) = a
  BY <1>1, DigitsRead DEF AreDigits
<1>3. d \in Seq(Byte) /\ \A i \in 1 .. Len(d) : d[i] \in 48 .. 57 /\ IsDigit(d[i])
  <2>1. \A i \in 1 .. Len(d) : d[i] \in 48 .. 57 /\ IsDigit(d[i])
    BY ElementOfSeq DEF IsDigit
  <2>2. 48 .. 57 \subseteq Byte
    BY DEF Byte
  <2>3. d \in Seq(Byte)
    BY <2>2, SeqMonotonic
  <2>. QED BY <2>1, <2>3
<1>4. DOMAIN d = 1 .. Len(d)
  BY LenProperties
<1>5. CASE n < 0
  <2>1. w = <<Minus>> \o d
    BY <1>1, <1>2, <1>5 DEF Signed
  <2>2. PICK y \in Seq(Byte) : y = <<Minus>> /\ Len(y) = 1 /\ y[1] = Minus
    <3>1. <<Minus>> \in Seq(Byte) /\ Len(<<Minus>>) = 1 /\ <<Minus>>[1] = Minus
      BY MinusIs
    <3>. QED BY <3>1
  <2>3. /\ w \in Seq(Byte) /\ Len(w) = 1 + Len(d) /\ w[1] = Minus
        /\ \A i \in 1 .. Len(d) : w[1 + i] = d[i]
    <3>1. /\ y \o d \in Seq(Byte) /\ Len(y \o d) = Len(y) + Len(d)
          /\ \A i \in 1 .. Len(y) : (y \o d)[i] = y[i]
          /\ \A i \in 1 .. Len(d) : (y \o d)[Len(y) + i] = d[i]
      BY <1>3, Joined
    <3>2. w = y \o d /\ 1 \in 1 .. Len(y)
      BY <2>1, <2>2
    <3>3. w \in Seq(Byte) /\ Len(w) = Len(y) + Len(d) /\ w[1] = y[1] /\ \A i \in 1 .. Len(d) : w[Len(y) + i] = d[i]
      BY <3>1, <3>2
    <3>. QED BY <2>2, <3>3
  <2>4. Tail(w) = d
    <3>1. w # <<>>
      BY <1>2, <2>3
    <3>2. /\ Tail(w) \in Seq(Byte) /\ Len(Tail(w)) = Len(w) - 1
          /\ \A i \in 1 .. Len(Tail(w)) : Tail(w)[i] = w[i + 1]
      BY <2>3, <3>1, HeadTailProperties
    <3>3. Len(w) - 1 = Len(d) /\ \A i \in 1 .. Len(d) : w[i + 1] = d[i]
      <4>1. \A i \in 1 .. Len(d) : i + 1 = 1 + i
        BY <1>2
      <4>2. Len(w) - 1 = Len(d)
        BY <1>2, <2>3
      <4>. QED BY <2>3, <4>1, <4>2
    <3>4. Len(Tail(w)) = Len(d) /\ \A i \in 1 .. Len(d) : Tail(w)[i] = d[i]
      BY <3>2, <3>3
    <3>. QED BY <1>3, <3>2, <3>4, SeqEqual
  <2>5. HasCharAt(w, 1, Minus)
    <3>1. 1 \in 1 .. Len(w) /\ DOMAIN w = 1 .. Len(w)
      BY <1>2, <2>3, LenProperties
    <3>. QED BY <2>3, <3>1 DEF HasCharAt
  <2>6. Unsigned(w) = d
    BY <2>4, <2>5, Zenon DEF Unsigned
  <2>7. IsInteger(w)
    <3>1. d # <<>>
      BY <1>2
    <3>. QED BY <1>3, <1>4, <2>6, <3>1, Zenon DEF IsInteger
  <2>8. ValueOf(w) = n
    <3>1. ValueOf(w) = -Number(d, 10)
      BY <2>4, <2>5, Zenon DEF ValueOf
    <3>. QED BY <1>1, <1>2, <1>5, <3>1
  <2>9. ASSUME NEW i \in 1 .. Len(w) PROVE w[i] \in {Minus} \union 48 .. 57
    <3>1. CASE i = 1
      BY <2>3, <3>1
    <3>2. CASE i # 1
      <4>1. PICK k : k = i - 1 /\ k \in 1 .. Len(d) /\ 1 + k = i
        BY <1>2, <2>3, <3>2
      <4>2. w[i] = d[k]
        BY <2>3, <4>1
      <4>. QED BY <1>3, <4>1, <4>2
    <3>. QED BY <3>1, <3>2
  <2>10. Len(w) \in Nat \ {0} /\ 1 \in 1 .. Len(w)
    BY <1>2, <2>3
  <2>. QED BY <2>3, <2>7, <2>8, <2>9, <2>10
<1>6. CASE ~(n < 0)
  <2>1. w = d
    BY <1>1, <1>2, <1>6 DEF Signed
  <2>2. 1 \in 1 .. Len(d)
    BY <1>2
  <2>3. ~HasCharAt(w, 1, Minus)
    <3>1. d[1] # Minus
      BY <1>3, <2>2, MinusIs
    <3>. QED BY <2>1, <3>1 DEF HasCharAt
  <2>4. Unsigned(w) = d /\ ValueOf(w) = Number(d, 10)
    BY <2>1, <2>3, Zenon DEF Unsigned, ValueOf
  <2>5. IsInteger(w)
    <3>1. d # <<>>
      BY <1>2
    <3>. QED BY <1>3, <1>4, <2>4, <3>1, Zenon DEF IsInteger
  <2>. QED BY <1>1, <1>2, <1>3, <1>6, <2>1, <2>2, <2>4, <2>5
<1>. QED BY <1>5, <1>6

\* What parseNumber makes of the text of an integer.
LEMMA IntegerRead ==
  ASSUME NEW n \in Int, Fits(n), NEW w, w = Signed(n, Digits(Abs(n)))
  PROVE  parseNumber(w) = Parsed(Int32(n), Len(w))
<1>1. /\ w \in Seq(Byte) /\ IsInteger(w) /\ ValueOf(w) = n
      /\ \A i \in 1 .. Len(w) : w[i] \in {Minus} \union 48 .. 57
  BY IntegerIs
<1>2. ~\E i \in DOMAIN w : w[i] = Dot \/ IsExponent(w[i])
  <2>1. \A c \in 48 .. 57 : c # Dot /\ ~IsExponent(c)
    BY SMT DEF Dot, IsExponent
  <2>2. DOMAIN w = 1 .. Len(w)
    BY <1>1, LenProperties
  <2>. QED BY <1>1, <2>1, <2>2, MinusIs
<1>3. n \in (-LongMax - 1) .. LongMax
  BY WidthAssumption, JsonTextAssumption DEF Fits
<1>4. parseInteger(w) = Parsed(Int32(n), Len(w))
  BY <1>1, <1>3, Zenon DEF parseInteger
<1>. QED BY <1>2, <1>4, Zenon DEF parseNumber

-----------------------------------------------------------------------------
(* A scalar in a text.                                                     *)

InWordOf(first, c) == IsAlnum(c) \/ (~IsAlpha(first) /\ c \in {Minus, Dot})

\* No number or identifier goes on at q.
WordEnds(t, q) == q > Len(t) \/ (~IsAlnum(t[q]) /\ t[q] \notin {Minus, Dot})

\* The characters of a word in a text.
LEMMA TextPlaced ==
  ASSUME NEW t \in Seq(Byte), NEW p \in 1 .. Len(t), NEW w, Len(w) \in Nat \ {0}, TextAt(t, p, w)
  PROVE  p + Len(w) - 1 \in p .. Len(t) /\ \A k \in 1 .. Len(w) : w[k] = t[p + k - 1]
<1>0. Len(t) \in Nat /\ p \in Nat
  BY LenProperties
<1>1. PICK m : m = p + Len(w) - 1 /\ m <= Len(t) /\ m \in Nat /\ m >= p /\ m - p + 1 = Len(w) /\ SubSeq(t, p, m) = w
  <2>1. p + Len(w) - 1 <= Len(t) /\ SubSeq(t, p, p + Len(w) - 1) = w
    BY Zenon DEF TextAt
  <2>2. p + Len(w) - 1 \in Nat /\ p + Len(w) - 1 >= p /\ (p + Len(w) - 1) - p + 1 = Len(w)
    BY <1>0
  <2>. QED BY <2>1, <2>2
<1>2. \A k \in p .. m : t[k] \in Byte
  <2>1. \A k \in p .. m : k \in 1 .. Len(t)
    BY <1>0, <1>1
  <2>. QED BY <2>1, ElementOfSeq
<1>3. p \in Int /\ m \in Int
  BY <1>0, <1>1
<1>4. \A k \in 1 .. m - p + 1 : SubSeq(t, p, m)[k] = t[p + k - 1]
  BY <1>2, <1>3, SubSeqProperties
<1>5. \A k \in 1 .. Len(w) : w[k] = t[p + k - 1]
  <2>1. PICK l : l = Len(w) /\ m - p + 1 = l
    BY <1>1
  <2>. QED BY <1>1, <1>4, <2>1, Zenon
<1>6. m \in p .. Len(t)
  BY <1>0, <1>1
<1>. QED BY <1>1, <1>5, <1>6

\* A word that ends where the text goes on with something else is taken as it is.
LEMMA WordRead ==
  ASSUME NEW t \in Seq(Byte), NEW p \in 1 .. Len(t), NEW w, Len(w) \in Nat \ {0}, TextAt(t, p, w),
         \A i \in 1 .. Len(w) : InWordOf(t[p], w[i]), WordEnds(t, p + Len(w))
  PROVE  Word(t, p) = w
<1>. DEFINE InWord(c) == IsAlnum(c) \/ (~IsAlpha(t[p]) /\ c \in {Minus, Dot})
<1>. DEFINE s == From(t, p)
<1>0. Len(t) \in Nat /\ p \in Nat
  BY LenProperties
<1>1. PICK n : n = Len(w) /\ n \in Nat \ {0} /\ p + n - 1 \in p .. Len(t) /\ \A k \in 1 .. n : w[k] = t[p + k - 1]
  BY TextPlaced, ZenonT(40)
<1>2. Len(s) = Len(t) + 1 - p /\ Len(s) \in Nat /\ n <= Len(s)
  <2>1. p \in 1 .. Len(t) + 1
    BY <1>0
  <2>2. Len(s) = Len(t) + 1 - p
    BY <2>1, FromIs
  <2>. QED BY <1>0, <1>1, <2>2
<1>3. \A k \in 1 .. Len(s) : s[k] = t[p + k - 1]
  <2>1. \A k \in p .. Len(t) : t[k] \in Byte
    <3>1. \A k \in p .. Len(t) : k \in 1 .. Len(t)
      BY <1>0
    <3>. QED BY <3>1, ElementOfSeq
  <2>2. p \in Int /\ Len(t) \in Int /\ Len(t) - p + 1 = Len(t) + 1 - p
    BY <1>0
  <2>3. \A k \in 1 .. Len(t) - p + 1 : SubSeq(t, p, Len(t))[k] = t[p + k - 1]
    BY <2>1, <2>2, SubSeqProperties
  <2>. QED BY <1>2, <2>2, <2>3 DEF From
<1>. HIDE DEF s
<1>4. \A i \in 1 .. n : InWord(s[i])
  <2>1. \A i \in 1 .. n : InWord(w[i])
    BY <1>1, Zenon DEF InWordOf
  <2>2. \A i \in 1 .. n : i \in 1 .. Len(s) /\ w[i] = s[i]
    BY <1>1, <1>2, <1>3
  <2>. HIDE DEF InWord
  <2>. QED BY <2>1, <2>2, Zenon
<1>5. n < Len(s) => ~InWord(s[n + 1])
  <2>. SUFFICES ASSUME n < Len(s) PROVE ~InWord(s[n + 1])
    OBVIOUS
  <2>1. p + n <= Len(t) /\ n + 1 \in 1 .. Len(s) /\ p + (n + 1) - 1 = p + n
    BY <1>0, <1>1, <1>2
  <2>2. s[n + 1] = t[p + n]
    BY <1>3, <2>1
  <2>3. ~(p + n > Len(t))
    BY <1>0, <1>1, <2>1
  <2>4. ~IsAlnum(t[p + n]) /\ t[p + n] \notin {Minus, Dot}
    BY <1>1, <2>3, Zenon DEF WordEnds
  <2>. QED BY <2>2, <2>4
<1>. DEFINE spanned == Span(s, InWord)
<1>6. /\ spanned \in 0 .. Len(s) /\ (\A i \in 1 .. spanned : InWord(s[i]))
      /\ (spanned < Len(s) => ~InWord(s[spanned + 1]))
  <2>. HIDE DEF InWord
  <2>1. n \in 0 .. Len(s)
    BY <1>1, <1>2
  <2>. QED BY <1>4, <1>5, <2>1, Zenon DEF Span
<1>7. Word(t, p) = SubSeq(t, p, p + spanned - 1)
  BY Zenon DEF Word, s
<1>. HIDE DEF spanned, InWord
<1>8. spanned = n
  <2>1. CASE spanned < n
    <3>1. spanned + 1 \in 1 .. n /\ spanned < Len(s)
      BY <1>1, <1>2, <1>6, <2>1
    <3>. QED BY <1>4, <1>6, <3>1
  <2>2. CASE n < spanned
    <3>1. n + 1 \in 1 .. spanned /\ n < Len(s)
      BY <1>1, <1>2, <1>6, <2>2
    <3>. QED BY <1>5, <1>6, <3>1
  <2>3. spanned \in Int /\ n \in Int
    BY <1>1, <1>6
  <2>. QED BY <2>1, <2>2, <2>3
<1>. QED BY <1>1, <1>7, <1>8, Zenon DEF TextAt

\* The scalars that are not decimals.
IsScalar(x) ==
    \/ x = Null
    \/ \E b \in BOOLEAN : x = Bool(b)
    \/ \E n \in Int : Fits(n) /\ x = Int32(n)
    \/ \E s \in Seq(Byte) : x = Str(s)

\* A letter begins neither a string nor a number.
LEMMA LetterIs ==
  ASSUME NEW c, IsAlpha(c) PROVE c # Quote /\ ~IsDigit(c) /\ c # Minus
<1>1. c \in 65 .. 90 \/ c \in 97 .. 122
  BY Zenon DEF IsAlpha, IsUpper, IsLower
<1>2. c \in Int /\ c >= 65
  BY <1>1, SMT
<1>3. c # 34 /\ c \notin 48 .. 57 /\ c # 45
  BY <1>2, SMT
<1>. QED BY <1>3, Zenon DEF IsDigit, Quote, Minus

\* A word of letters is read as an identifier.
LEMMA LettersRead ==
  ASSUME NEW t \in Seq(Byte), NEW p \in 1 .. Len(t), NEW w, NEW x,
         w \in Seq(Byte), Len(w) \in Nat \ {0}, \A i \in 1 .. Len(w) : IsAlpha(w[i]),
         parseIdentifier(w) = x, TextAt(t, p, w), WordEnds(t, p + Len(w))
  PROVE  parseSimpleValue(t, p) = {x}
<1>1. t[p] = w[1] /\ IsAlpha(w[1])
  <2>1. 1 \in 1 .. Len(w) /\ p + 1 - 1 = p
    OBVIOUS
  <2>2. w[1] = t[p + 1 - 1]
    BY <2>1, TextPlaced
  <2>. QED BY <2>1, <2>2
<1>2. \A i \in 1 .. Len(w) : InWordOf(t[p], w[i])
  BY Zenon DEF InWordOf, IsAlnum
<1>3. Word(t, p) = w
  BY <1>2, WordRead
<1>4. t[p] # Quote /\ ~IsDigit(t[p]) /\ t[p] # Minus
  BY <1>1, LetterIs, Zenon
<1>5. parseSimpleValue(t, p) = {parseIdentifier(y) : y \in {Word(t, p)}}
  BY <1>1, <1>4, Zenon DEF parseSimpleValue
<1>. QED BY <1>3, <1>5

\* The words of the constants consist of letters.
LEMMA ConstantWords ==
  /\ NullText \in Seq(Byte) /\ Len(NullText) = 4 /\ \A i \in 1 .. 4 : IsAlpha(NullText[i])
  /\ TrueText \in Seq(Byte) /\ Len(TrueText) = 4 /\ \A i \in 1 .. 4 : IsAlpha(TrueText[i])
  /\ FalseText \in Seq(Byte) /\ Len(FalseText) = 5 /\ \A i \in 1 .. 5 : IsAlpha(FalseText[i])
  /\ NullText # TrueText /\ NullText # FalseText /\ TrueText # FalseText
<1>1. NullText \in Seq(Byte) /\ Len(NullText) = 4 /\ \A i \in 1 .. 4 : IsAlpha(NullText[i])
  <2>1. PICK w : w = NullText
    OBVIOUS
  <2>2. w \in Seq(Byte) /\ Len(w) = 4 /\ w[1] = 110 /\ w[2] = 117 /\ w[3] = 108 /\ w[4] = 108
    BY <2>1 DEF NullText, Byte
  <2>3. IsAlpha(110) /\ IsAlpha(117) /\ IsAlpha(108)
    BY SMT DEF IsAlpha, IsLower
  <2>4. \A i \in 1 .. 4 : w[i] \in {110, 117, 108}
    BY <2>2
  <2>5. \A i \in 1 .. 4 : IsAlpha(w[i])
    BY <2>3, <2>4
  <2>. QED BY <2>1, <2>2, <2>5
<1>2. TrueText \in Seq(Byte) /\ Len(TrueText) = 4 /\ \A i \in 1 .. 4 : IsAlpha(TrueText[i])
  <2>1. PICK w : w = TrueText
    OBVIOUS
  <2>2. w \in Seq(Byte) /\ Len(w) = 4 /\ w[1] = 116 /\ w[2] = 114 /\ w[3] = 117 /\ w[4] = 101
    BY <2>1 DEF TrueText, Byte
  <2>3. IsAlpha(116) /\ IsAlpha(114) /\ IsAlpha(117) /\ IsAlpha(101)
    BY SMT DEF IsAlpha, IsLower
  <2>4. \A i \in 1 .. 4 : w[i] \in {116, 114, 117, 101}
    BY <2>2
  <2>5. \A i \in 1 .. 4 : IsAlpha(w[i])
    BY <2>3, <2>4
  <2>. QED BY <2>1, <2>2, <2>5
<1>3. FalseText \in Seq(Byte) /\ Len(FalseText) = 5 /\ \A i \in 1 .. 5 : IsAlpha(FalseText[i])
  <2>1. PICK w : w = FalseText
    OBVIOUS
  <2>2. w \in Seq(Byte) /\ Len(w) = 5 /\ w[1] = 102 /\ w[2] = 97 /\ w[3] = 108 /\ w[4] = 115 /\ w[5] = 101
    BY <2>1 DEF FalseText, Byte
  <2>3. IsAlpha(102) /\ IsAlpha(97) /\ IsAlpha(108) /\ IsAlpha(115) /\ IsAlpha(101)
    BY SMT DEF IsAlpha, IsLower
  <2>4. \A i \in 1 .. 5 : w[i] \in {102, 97, 108, 115, 101}
    BY <2>2
  <2>5. \A i \in 1 .. 5 : IsAlpha(w[i])
    BY <2>3, <2>4
  <2>. QED BY <2>1, <2>2, <2>5
<1>4. NullText[1] = 110 /\ TrueText[1] = 116 /\ FalseText[1] = 102
  BY DEF NullText, TrueText, FalseText
<1>5. NullText # TrueText /\ NullText # FalseText /\ TrueText # FalseText
  BY <1>4
<1>. QED BY <1>1, <1>2, <1>3, <1>5

\* The text of a scalar is not empty.
LEMMA ScalarTexts ==
  /\ ScalarText(Null) = NullText
  /\ ScalarText(Bool(TRUE)) = TrueText /\ ScalarText(Bool(FALSE)) = FalseText
  /\ \A n : ScalarText(Int32(n)) = Signed(n, Digits(Abs(n)))
  /\ \A s : ScalarText(Str(s)) = toStringLiteral(s)
<1>1. ScalarText(Null) = NullText
  <2>1. Null.t = "null"
    BY DEF Null
  <2>2. PICK x : x = Null /\ x.t = "null"
    BY <2>1, Zenon
  <2>. QED BY <2>2 DEF ScalarText
<1>2. ScalarText(Bool(TRUE)) = TrueText /\ ScalarText(Bool(FALSE)) = FalseText
  <2>1. \A b : Bool(b).t = "bool" /\ Bool(b).v = b
    BY Zenon DEF Bool
  <2>2. PICK x : x = Bool(TRUE) /\ x.t = "bool" /\ x.v = TRUE
    BY <2>1, Zenon
  <2>3. PICK y : y = Bool(FALSE) /\ y.t = "bool" /\ y.v = FALSE
    BY <2>1, Zenon
  <2>4. "bool" # "null"
    OBVIOUS
  <2>5. ScalarText(x) = IF x.v THEN TrueText ELSE FalseText
    BY <2>2, <2>4 DEF ScalarText
  <2>6. ScalarText(y) = IF y.v THEN TrueText ELSE FalseText
    BY <2>3, <2>4 DEF ScalarText
  <2>. QED BY <2>2, <2>3, <2>5, <2>6, Zenon
<1>3. ASSUME NEW n PROVE ScalarText(Int32(n)) = Signed(n, Digits(Abs(n)))
  <2>1. Int32(n).t = "int" /\ Int32(n).v = n
    BY DEF Int32
  <2>2. PICK x : x = Int32(n) /\ x.t = "int" /\ x.v = n
    BY <2>1, Zenon
  <2>. QED BY <2>2 DEF ScalarText
<1>4. ASSUME NEW s PROVE ScalarText(Str(s)) = toStringLiteral(s)
  <2>1. Str(s).t = "str" /\ Str(s).v = s
    BY DEF Str
  <2>2. PICK x : x = Str(s) /\ x.t = "str" /\ x.v = s
    BY <2>1, Zenon
  <2>. QED BY <2>2 DEF ScalarText
<1>. QED BY <1>1, <1>2, <1>3, <1>4

\* Wherever the text of a scalar is in a text, and no word goes on behind it, the parser reads the
\* scalar, and takes its text and nothing behind it.
THEOREM ScalarIsReadBack ==
  ASSUME NEW x, IsScalar(x),
         NEW t \in Seq(Byte), NEW p \in 1 .. Len(t),
         TextAt(t, p, ScalarText(x)), WordEnds(t, p + Len(ScalarText(x)))
  PROVE  parseSimpleValue(t, p) = {Parsed(x, Len(ScalarText(x)))}
<1>1. CASE x = Null
  <2>1. PICK w : w = NullText /\ w = ScalarText(x)
    BY <1>1, ScalarTexts
  <2>2. w \in Seq(Byte) /\ Len(w) \in Nat \ {0} /\ \A i \in 1 .. Len(w) : IsAlpha(w[i])
    <3>1. w \in Seq(Byte) /\ Len(w) = 4 /\ \A i \in 1 .. 4 : IsAlpha(w[i])
      BY <2>1, ConstantWords, Zenon
    <3>. QED BY <3>1
  <2>3. parseIdentifier(w) = Parsed(x, Len(w))
    BY <1>1, <2>1, ConstantWords, Zenon DEF parseIdentifier
  <2>. QED BY <2>1, <2>2, <2>3, LettersRead
<1>2. ASSUME NEW b \in BOOLEAN, x = Bool(b) PROVE parseSimpleValue(t, p) = {Parsed(x, Len(ScalarText(x)))}
  <2>1. PICK w : /\ w = ScalarText(x)
                 /\ (b = TRUE /\ w = TrueText /\ x = Bool(TRUE)) \/ (b = FALSE /\ w = FalseText /\ x = Bool(FALSE))
    BY <1>2, ScalarTexts, Zenon
  <2>2. w \in Seq(Byte) /\ Len(w) \in Nat \ {0} /\ \A i \in 1 .. Len(w) : IsAlpha(w[i])
    <3>1. CASE w = TrueText
      <4>1. w \in Seq(Byte) /\ Len(w) = 4 /\ \A i \in 1 .. 4 : IsAlpha(w[i])
        BY <3>1, ConstantWords, Zenon
      <4>. QED BY <4>1
    <3>2. CASE w = FalseText
      <4>1. w \in Seq(Byte) /\ Len(w) = 5 /\ \A i \in 1 .. 5 : IsAlpha(w[i])
        BY <3>2, ConstantWords, Zenon
      <4>. QED BY <4>1
    <3>. QED BY <2>1, <3>1, <3>2, Zenon
  <2>3. parseIdentifier(w) = Parsed(x, Len(w))
    BY <2>1, ConstantWords, Zenon DEF parseIdentifier
  <2>. QED BY <2>1, <2>2, <2>3, LettersRead
<1>3. ASSUME NEW n \in Int, Fits(n), x = Int32(n) PROVE parseSimpleValue(t, p) = {Parsed(x, Len(ScalarText(x)))}
  <2>1. PICK w : w = ScalarText(x) /\ w = Signed(n, Digits(Abs(n)))
    BY <1>3, ScalarTexts, Zenon
  <2>2. /\ Len(w) \in Nat \ {0} /\ w[1] \in {Minus} \union 48 .. 57
        /\ \A i \in 1 .. Len(w) : w[i] \in {Minus} \union 48 .. 57
    BY <1>3, <2>1, IntegerIs
  <2>3. t[p] = w[1]
    <3>1. 1 \in 1 .. Len(w) /\ p + 1 - 1 = p
      BY <2>2
    <3>2. w[1] = t[p + 1 - 1]
      BY <2>1, <2>2, <3>1, TextPlaced
    <3>. QED BY <3>1, <3>2
  <2>4. \A c \in 48 .. 57 : IsDigit(c) /\ ~IsAlpha(c) /\ c # Quote
    BY SMT DEF IsDigit, IsAlpha, IsUpper, IsLower, Quote
  <2>5. t[p] # Quote /\ ~IsAlpha(t[p]) /\ (IsDigit(t[p]) \/ t[p] = Minus)
    BY <2>2, <2>3, <2>4, MinusIs
  <2>6. \A i \in 1 .. Len(w) : InWordOf(t[p], w[i])
    BY <2>2, <2>4, <2>5 DEF InWordOf, IsAlnum
  <2>7. Word(t, p) = w
    BY <2>1, <2>2, <2>6, WordRead
  <2>8. parseSimpleValue(t, p) = {parseNumber(y) : y \in {Word(t, p)}}
    BY <2>5, Zenon DEF parseSimpleValue
  <2>9. parseNumber(w) = Parsed(x, Len(w))
    BY <1>3, <2>1, IntegerRead
  <2>. QED BY <2>1, <2>7, <2>8, <2>9
<1>4. ASSUME NEW s \in Seq(Byte), x = Str(s) PROVE parseSimpleValue(t, p) = {Parsed(x, Len(ScalarText(x)))}
  <2>1. ScalarText(x) = toStringLiteral(s)
    BY <1>4, ScalarTexts, Zenon
  <2>2. LiteralAt(t, p, s)
    BY <2>1, Zenon DEF LiteralAt
  <2>3. parseString(t, p) = Parsed(x, Len(ScalarText(x)))
    BY <1>4, <2>1, <2>2, StringIsReadBack
  <2>4. t[p] = Quote
    <3>1. PICK e : e = FlattenSeq(Pieces(s))
      OBVIOUS
    <3>. QED BY <2>2, <3>1, LiteralPlaced
  <2>. QED BY <2>3, <2>4, Zenon DEF parseSimpleValue
<1>. QED BY <1>1, <1>2, <1>3, <1>4, Zenon DEF IsScalar

\* A bracket does not begin a scalar.
LEMMA NoBracket ==
  ASSUME NEW t, NEW p, NEW y, parseSimpleValue(t, p) = {y}, y.outcome = "value"
  PROVE  t[p] \notin {LBrace, LBracket}
<1>1. SUFFICES ASSUME t[p] \in {LBrace, LBracket} PROVE FALSE
  OBVIOUS
<1>2. \A c \in {LBrace, LBracket} : c # Quote /\ ~IsDigit(c) /\ c # Minus /\ ~IsAlpha(c)
  BY SMT DEF LBrace, LBracket, Quote, Minus, IsDigit, IsAlpha, IsUpper, IsLower
<1>3. parseSimpleValue(t, p) = {Failed("error")}
  BY <1>1, <1>2, Zenon DEF parseSimpleValue
<1>4. Failed("error").outcome = "error"
  BY DEF Failed
<1>5. y = Failed("error")
  BY <1>3
<1>. QED BY <1>4, <1>5

\* The text of the scalar x is where the parser expects a value.
ScalarAhead(x) ==
    /\ IsScalar(x)
    /\ Handles("Value", SkipFrom(pos))
    /\ TextAt(text, SkipFrom(pos), ScalarText(x))
    /\ WordEnds(text, SkipFrom(pos) + Len(ScalarText(x)))

\* The value is taken, and x is where its pointer points to.
ScalarStored(x) ==
    /\ outcome' = "none"
    /\ pos' = SkipFrom(pos) + Len(ScalarText(x))
    /\ stack' = popState
    /\ NodeAt(result', Current.path) = x

\* The only step of the parser is that of handleValue where the text of a scalar is a value.
LEMMA ScalarStep ==
  ASSUME IInv, Parse, NEW x, ScalarAhead(x)
  PROVE  ScalarStored(x)
<1>1. PICK p : p = SkipFrom(pos)
  OBVIOUS
<1>2. IsScalar(x) /\ Handles("Value", p) /\ TextAt(text, p, ScalarText(x)) /\ WordEnds(text, p + Len(ScalarText(x)))
  BY <1>1, Zenon DEF ScalarAhead
<1>3. /\ text \in Seq(Byte) /\ Len(text) \in Nat /\ p \in 1 .. Len(text)
      /\ stack # <<>> /\ Current.context = "Value" /\ StackOK(stack) /\ TreeOK(result, stack)
  BY <1>1, <1>2, Iteration
<1>4. PICK y : y = Parsed(x, Len(ScalarText(x)))
  OBVIOUS
<1>5. y.outcome = "value" /\ y.value = x /\ y.length = Len(ScalarText(x))
  BY <1>4 DEF Parsed
<1>6. parseSimpleValue(text, p) = {y}
  BY <1>2, <1>3, <1>4, ScalarIsReadBack
<1>7. text[p] \notin {LBrace, LBracket}
  BY <1>5, <1>6, NoBracket
<1>8. ~UnexpectedEnd
  <2>1. ~(p > Len(text))
    BY <1>3
  <2>. QED BY <1>1, <2>1, Zenon DEF UnexpectedEnd
<1>9. ~EndOfText
  BY <1>3, Zenon DEF EndOfText
<1>10. ~handleObject /\ ~handleObjectKey /\ ~handleArray
  <2>1. Current.context # "Object" /\ Current.context # "ObjectKey" /\ Current.context # "Array"
    BY <1>3
  <2>. QED BY <2>1, Zenon DEF handleObject, handleObjectKey, handleArray, Handles
<1>11. Continue(p + y.length, popState, Set(Current.path, y.value))
  <2>1. handleValue
    BY <1>8, <1>9, <1>10, Zenon DEF Parse
  <2>. QED BY <1>1, <1>5, <1>6, <1>7, <2>1, Zenon DEF handleValue
<1>12. PICK K : TopOK(K)
  BY <1>3, TopIs
<1>13. PICK T : T = Set(Current.path, x)
  OBVIOUS
<1>14. NodeAt(T, Current.path) = x
  BY <1>3, <1>12, <1>13, SetOnTop DEF TopOK, Set
<1>15. outcome = "none"
  BY <1>2 DEF Handles
<1>. QED BY <1>1, <1>5, <1>11, <1>13, <1>14, <1>15 DEF Continue, ScalarStored

ScalarsAreStored == [][\A x : ScalarAhead(x) => ScalarStored(x)]_parserVars

\* json.cpp:46, Parser::parse, and json.cpp:379, stringifyImplementation: wherever the parser
\* expects a value and finds the text that stringify writes for a scalar, the next iteration takes
\* that text and nothing else, and leaves the scalar where the pointer on the stack points to.
THEOREM ScalarsStored == ParserSpec => ScalarsAreStored
<1>1. IInv /\ [Parse]_parserVars => [\A x : ScalarAhead(x) => ScalarStored(x)]_parserVars
  BY ScalarStep
<1>. QED BY <1>1, Invariance, PTL DEF ParserSpec, ScalarsAreStored
=============================================================================
