----------------------------- MODULE JsonParser -----------------------------
(***************************************************************************)
(* The JSON parser (class Parser, src/lsp/json/json.cpp): a loop over a     *)
(* stack of what has been opened, one handler per state on the stack. The  *)
(* pointer of a stack entry is the path of its value in the result. The    *)
(* wording and the position of an error are left out.                      *)
(***************************************************************************)
EXTENDS JsonText

CONSTANTS
    LongMax,       \* the largest std::int64_t
    ExponentMax,   \* decimals of more digits than this are out of range for std::stod (308)
    Inputs         \* the texts to parse

ASSUME InputsAssumption == Inputs \subseteq Seq(Byte)
ASSUME WidthAssumption == LongMax \in Nat /\ IntMax <= LongMax

VARIABLES
    text,      \* m_start .. m_end
    pos,       \* m_pos, from 1
    stack,     \* m_stateStack
    result,    \* the value that is built
    outcome    \* "none" while parse runs, "value", "error", or "exception" thrown by std::stod

parserVars == <<text, pos, stack, result, outcome>>

Outcomes == {"none", "value", "error", "exception"}
Contexts == {"Value", "Object", "ObjectKey", "Array"}

-----------------------------------------------------------------------------
(* Scalars. A parse function gives the outcome, the value and how many      *)
(* characters it takes.                                                    *)

Parsed(x, length) == [outcome |-> "value", value |-> x, length |-> length]
Failed(how) == [outcome |-> how, value |-> Null, length |-> 0]

\* The first character after p that is a line feed or a quotation mark without a backslash
\* that counts. The check for a line feed does not ask for the backslash.
StringEndingAt_PastEnd(t, p, stops) ==    \* goes on behind the character after the string
    LET stop == CHOOSE i \in stops : \A j \in stops : i <= j
    IN  IF ~HasCharAt(t, p, Quote) \/ stops = {} \/ t[stop] = LF THEN Failed("error")
        ELSE Parsed(Str(fromStringLiteral(SubSeq(t, p, stop))), stop + 2 - p)
StringEndingAt(t, p, stops) ==
    LET stop == CHOOSE i \in stops : \A j \in stops : i <= j
    IN  IF ~HasCharAt(t, p, Quote) \/ stops = {} THEN Failed("error")
        ELSE IF t[stop] = LF THEN Failed("error")
        ELSE Parsed(Str(fromStringLiteral(SubSeq(t, p, stop))), stop + 1 - p)

parseString(t, p) ==
    LET escaped[i \in p + 1 .. Len(t)] ==
            i > p + 1 /\ t[i - 1] = Backslash /\ ~escaped[i - 1]
    IN  StringEndingAt(t, p, {i \in p + 1 .. Len(t) : t[i] = LF \/ (t[i] = Quote /\ ~escaped[i])})

IsExponent(c) == c \in {69, 101}
Unsigned(s) == IF HasCharAt(s, 1, Minus) THEN Tail(s) ELSE s
ValueOf(s) == IF HasCharAt(s, 1, Minus) THEN -Number(Tail(s), 10) ELSE Number(s, 10)

\* Decimal notation: digits with at most one point, and an exponent or none.
Mantissa(s) == SubSeq(s, 1, Span(s, LAMBDA c : ~IsExponent(c)))
Exponent(s) == From(s, Len(Mantissa(s)) + 2)
IsInteger(s) == Unsigned(s) # <<>> /\ \A i \in DOMAIN Unsigned(s) : IsDigit(Unsigned(s)[i])
IsMantissa(s) ==
    /\ \E i \in DOMAIN s : IsDigit(s[i])
    /\ \A i \in DOMAIN Unsigned(s) : IsDigit(Unsigned(s)[i]) \/ Unsigned(s)[i] = Dot
    /\ \A i, j \in DOMAIN s : s[i] = Dot /\ s[j] = Dot => i = j
IsDecimal(s) ==
    IsMantissa(Mantissa(s)) /\ (Len(Mantissa(s)) < Len(s) => IsInteger(Exponent(s)))

\* std::stod converts the longest prefix that is a number, <<m, e>>. It throws when there is
\* none, and when the number is too large or too small.
\* The hexadecimal numbers and the infinities that it converts too are left out.
Stod(s) ==
    LET m == SelectSeq(Mantissa(s), LAMBDA c : c # Dot)
        places == Len(Mantissa(s)) - Span(Mantissa(s), LAMBDA c : c # Dot)
    IN  <<ValueOf(m), ValueOf(Exponent(s)) - (IF places > 0 THEN places - 1 ELSE 0)>>
OutOfRange(d) == d[1] # 0 /\ Abs(d[2] + Len(Digits(Abs(d[1])))) > ExponentMax
Throws(s) ==
    \A d \in {d \in Prefixes(s) : IsDecimal(d)} :
        \/ \E o \in Prefixes(s) : IsDecimal(o) /\ Len(o) > Len(d)
        \/ \E number \in {Stod(d)} : OutOfRange(number)

parseDecimal(s) ==
    IF Throws(s) THEN Failed("exception")
    ELSE IF IsDecimal(s) THEN Parsed(Decimal(Normal(Stod(s)[1], Stod(s)[2])), Len(s))
    ELSE Failed("error")

\* std::from_chars reads an optional sign and digits.
parseInteger(s) ==
    IF ~IsInteger(s) \/ ValueOf(s) \notin (-LongMax - 1) .. LongMax THEN Failed("error")
    ELSE IF Fits(ValueOf(s)) THEN Parsed(Int32(ValueOf(s)), Len(s))
    ELSE Parsed(Decimal(Normal(ValueOf(s), 0)), Len(s))

parseNumber(s) ==
    IF \E i \in DOMAIN s : s[i] = Dot \/ IsExponent(s[i]) THEN parseDecimal(s) ELSE parseInteger(s)

parseIdentifier(s) ==
    IF s = TrueText THEN Parsed(Bool(TRUE), Len(s))
    ELSE IF s = FalseText THEN Parsed(Bool(FALSE), Len(s))
    ELSE IF s = NullText THEN Parsed(Null, Len(s))
    ELSE Failed("error")

\* The characters of the identifier or number at p.
Word(t, p) ==
    LET InWord(c) == IsAlnum(c) \/ (~IsAlpha(t[p]) /\ c \in {Minus, Dot})
    IN  SubSeq(t, p, p + Span(From(t, p), InWord) - 1)

\* As a set of one, so that what follows can bind it.
parseSimpleValue(t, p) ==
    IF t[p] = Quote THEN {parseString(t, p)}
    ELSE IF IsDigit(t[p]) \/ t[p] = Minus THEN {parseNumber(w) : w \in {Word(t, p)}}
    ELSE IF IsAlpha(t[p]) THEN {parseIdentifier(w) : w \in {Word(t, p)}}
    ELSE {Failed("error")}

-----------------------------------------------------------------------------
(* The tree under construction.                                            *)

\* The value at a path in a tree.
NodeAt(tree, path) ==
    LET node[i \in 0 .. Len(path)] == IF i = 0 THEN tree ELSE node[i - 1].v[path[i]]
    IN  node[Len(path)]

\* An array or object with the element or member k set to x, and a tree with x at a path.
WithMember(node, k, x) == [node EXCEPT !.v = Put(node.v, k, x)]

With(tree, path, x) ==
    LET with[i \in 1 .. Len(path) + 1] ==
            IF i > Len(path) THEN x
            ELSE WithMember(NodeAt(tree, SubSeq(path, 1, i - 1)), path[i], with[i + 1])
    IN  with[1]

At(path) == NodeAt(result, path)
Set(path, x) == With(result, path, x)

Entry(context, path) == [context |-> context, path |-> path]
Current == Last(stack)
popState == Front(stack)

\* skipWhitespace
SkipFrom(p) == p + Span(From(text, p), IsSpace)

-----------------------------------------------------------------------------
(* parse.                                                                  *)

ParserInit(t) ==
    /\ text = t
    /\ pos = 1
    /\ stack = <<Entry("Value", <<>>)>>
    /\ result = Null
    /\ outcome = "none"

Finish(how) ==
    /\ outcome' = how
    /\ UNCHANGED <<text, pos, stack, result>>

Continue(next, newStack, newResult) ==
    /\ pos' = next
    /\ stack' = newStack
    /\ result' = newResult
    /\ UNCHANGED <<text, outcome>>

\* An iteration of the loop at the character p, with the given state on top of the stack.
Handles(context, p) ==
    /\ outcome = "none"
    /\ stack # <<>>
    /\ p <= Len(text)
    /\ Current.context = context

UnexpectedEnd ==
    /\ outcome = "none"
    /\ stack # <<>>
    /\ SkipFrom(pos) > Len(text)
    /\ Finish("error")

handleValue ==
    \E p \in {SkipFrom(pos)} :
        /\ Handles("Value", p)
        /\ \/ /\ text[p] = LBrace
              /\ Continue(p + 1, Append(stack, Entry("Object", Current.path)),
                          Set(Current.path, Obj(EmptyMap)))
           \/ /\ text[p] = LBracket
              /\ Continue(p + 1, Append(stack, Entry("Array", Current.path)),
                          Set(Current.path, Arr(<<>>)))
           \/ /\ text[p] \notin {LBrace, LBracket}
              /\ \E simple \in parseSimpleValue(text, p) :
                    IF simple.outcome = "value"
                    THEN Continue(p + simple.length, popState, Set(Current.path, simple.value))
                    ELSE Finish(simple.outcome)

\* Where handleObject and handleArray go on: behind a comma unless nothing came before, and
\* nowhere (0) when the comma is missing or the closing bracket follows it.
ElementAt_NoComma(p, closing) ==    \* whether there is a comma or not
    IF text[p] = Comma THEN SkipFrom(p + 1) ELSE p
ElementAt(p, closing) ==
    IF DOMAIN At(Current.path).v = {} THEN p
    ELSE IF text[p] # Comma \/ HasCharAt(text, SkipFrom(p + 1), closing) THEN 0
    ELSE SkipFrom(p + 1)

Close_Unread(p) == Continue(p, Front(popState), result)    \* the bracket stays
Close(p) == Continue(p + 1, Front(popState), result)

handleObject ==
    \E p \in {SkipFrom(pos)} :
        /\ Handles("Object", p)
        /\ \E next \in {ElementAt(p, RBrace)} :
            IF text[p] = RBrace THEN Close(p)
            ELSE IF next = 0 THEN Finish("error")
            ELSE Continue(next, Append(stack, Entry("ObjectKey", Current.path)), result)

handleObjectKey ==
    \E p \in {SkipFrom(pos)} :
        /\ Handles("ObjectKey", p)
        /\ \E key \in {parseString(text, p)} :
            LET colon == SkipFrom(p + key.length)
                path == Append(Current.path, key.value.v)
            IN  IF \/ key.outcome # "value"
                   \/ key.value.v \in DOMAIN At(Current.path).v
                   \/ ~HasCharAt(text, colon, Colon)
                THEN Finish("error")
                ELSE Continue(colon + 1, Append(popState, Entry("Value", path)), Set(path, Null))

handleArray_PointerFirst ==    \* the pointer is that of the element before the new one
    \E p \in {SkipFrom(pos)} :
        /\ Handles("Array", p)
        /\ \E next \in {ElementAt(p, RBracket)} :
            LET last == Len(At(Current.path).v)
            IN  IF text[p] = RBracket THEN Close(p)
                ELSE IF next = 0 THEN Finish("error")
                ELSE Continue(next, Append(stack, Entry("Value", Append(Current.path, last))),
                              Set(Append(Current.path, last + 1), Null))
handleArray ==
    \E p \in {SkipFrom(pos)} :
        /\ Handles("Array", p)
        /\ \E next \in {ElementAt(p, RBracket)} :
            LET path == Append(Current.path, Len(At(Current.path).v) + 1)
            IN  IF text[p] = RBracket THEN Close(p)
                ELSE IF next = 0 THEN Finish("error")
                ELSE Continue(next, Append(stack, Entry("Value", path)), Set(path, Null))

EndOfText ==
    /\ outcome = "none"
    /\ stack = <<>>
    /\ Finish(IF SkipFrom(pos) > Len(text) THEN "value" ELSE "error")

Parse ==
    \/ UnexpectedEnd
    \/ handleValue
    \/ handleObject
    \/ handleObjectKey
    \/ handleArray
    \/ EndOfText

ParserSpec == (\E t \in Inputs : ParserInit(t)) /\ [][Parse]_parserVars

-----------------------------------------------------------------------------
(* Properties.                                                             *)

\* Class Parser: m_pos never passes m_end, currentValueAs finds the alternative it asks for, and
\* the stack is as deep as what has been opened: below a member or an element is its object or
\* array, below an object or array its value.
ParserTypeOK ==
    /\ outcome \in Outcomes
    /\ pos \in 1 .. Len(text) + 1
    /\ \A i \in DOMAIN stack :
          /\ stack[i].context \in Contexts
          /\ stack[i].context \in {"Object", "ObjectKey"} => At(stack[i].path).t = "obj"
          /\ stack[i].context = "Array" => At(stack[i].path).t = "arr"
    /\ stack # <<>> => stack[1] = Entry("Value", <<>>)
    /\ \A i \in 2 .. Len(stack) :
          CASE stack[i].context = "Value" ->
                  /\ stack[i - 1].context \in {"Object", "Array"}
                  /\ stack[i].path # <<>>
                  /\ Front(stack[i].path) = stack[i - 1].path
            [] stack[i].context = "ObjectKey" -> stack[i - 1] = Entry("Object", stack[i].path)
            [] OTHER -> stack[i - 1] = Entry("Value", stack[i].path)

\* json.cpp:105, StateStackEntry::value: a pointer on the stack that points into an array
\* points to its last element, so that no element is added (and the elements moved) while a
\* pointer to an older one is still there.
PointersStable ==
    \A i \in DOMAIN stack :
        LET path1 == stack[i].path
        IN  path1 # <<>> =>
                LET outer == At(Front(path1))
                IN  outer.t = "arr" => Last(path1) = Len(outer.v)

\* json.cpp:53: an iteration of the loop ends it, takes characters, or goes from an object or
\* array to what is in it, which cannot be done twice at a place. So whatever the text there
\* are at most two iterations for each of its characters, and the loop ends.
Remaining ==
    2 * (Len(text) + 1 - pos)
    + IF stack # <<>> /\ Current.context \in {"Object", "Array"} THEN 1 ELSE 0

ParsingProgresses == [][Parse /\ outcome' = "none" => Remaining' < Remaining]_parserVars
=============================================================================
