------------------------------- MODULE MCWire -------------------------------
(* Small instances of Wire: names of one letter, numbers of two digits.    *)
EXTENDS Wire

Word1(letter) == <<letter>>
MCK == [jsonrpc |-> <<106>>, id |-> <<105>>, method |-> <<109>>, params |-> <<112>>, result |-> <<114>>,
        error |-> <<101>>, code |-> <<99>>, message |-> <<115>>, data |-> <<100>>,
        uri |-> <<117>>, version |-> <<118>>, text |-> <<116>>, kind |-> <<107>>, items |-> <<97>>,
        related |-> <<98>>, range |-> <<110>>, parent |-> <<111>>, children |-> <<104>>,
        any |-> <<121>>, token |-> <<122>>, label |-> <<108>>, cells |-> <<102>>, location |-> <<113>>,
        provider |-> <<103>>, selector |-> <<120>>]
MCVersion == <<50>>
MCFile == <<102>>

\* Texts for the parts of a Uri: a letter, slashes, an escape, and what must be escaped: as a
\* path it has a text of nine characters, which are more than LengthCount.
MCUriTexts == {<<>>, <<70>>, <<Slash, Slash, 97>>, <<Percent, 97, 98>>, <<Question, Hash, Question>>}

FileA == [NewFileUri EXCEPT !.data = MCFile \o <<Slash, Space>>, !.pathLen = 2]
MCScalars ==
    [string |-> {<<>>, <<Quote, 1>>}, boolean |-> BOOLEAN, integer |-> {0, -100}, uinteger |-> {199},
     decimal |-> {<<25, -1>>}, DocumentUri |-> {FileA}, LSPAny |-> {Bool(TRUE), Arr(<<Null>>)}]

-----------------------------------------------------------------------------
(* Metamodels in the manner of the LSP's.                                  *)

B(kind) == [cat |-> "base", kind |-> kind]
Ref(name) == [cat |-> "reference", name |-> name]
ArrayType(t) == [cat |-> "array", element |-> t]
MapType(k, v) == [cat |-> "map", key |-> k, value |-> v]
Or(items) == [cat |-> "or", items |-> items]
TupleType(items) == [cat |-> "tuple", items |-> items]
LiteralType(properties) == [cat |-> "literal", properties |-> properties]
ConstantText(s) == [cat |-> "constant", kind |-> "string", json |-> Str(s)]
Property(name, type) == [name |-> name, type |-> type, optional |-> FALSE]
OptionalProperty(name, type) == [name |-> name, type |-> type, optional |-> TRUE]
StructureOf(properties, extends, mixins) ==
    [def |-> "structure", properties |-> properties, extends |-> extends, mixins |-> mixins]
Alias(t) == [def |-> "alias", type |-> t]

\* A document, its version, which may be null, and its location, with a range or without; an
\* array of a type that comes later.
Documents ==
    LET locations == Or(<<Ref("Location"), LiteralType(<<Property("uri", B("DocumentUri"))>>)>>)
    IN
    [names |-> <<"Edit", "Document", "Identifier", "Location">>,
     types |-> [Edit |-> StructureOf(<<OptionalProperty("items", ArrayType(Ref("Document"))),
                                       Property("version", B("uinteger"))>>, <<>>, <<>>),
                Location |-> StructureOf(<<Property("uri", B("DocumentUri")),
                                           Property("range", B("integer"))>>, <<>>, <<>>),
                Identifier |-> StructureOf(<<Property("uri", B("DocumentUri"))>>, <<>>, <<>>),
                Document |-> StructureOf(<<Property("version", Or(<<B("integer"), B("null")>>)),
                                           OptionalProperty("location", locations)>>,
                                         <<"Identifier">>, <<>>)]]

\* Reports of two kinds, and the same with what is related to them.
Reports ==
    LET kinds == Or(<<Ref("Full"), Ref("Unchanged")>>)
        related == OptionalProperty("related", MapType(B("DocumentUri"), kinds))
    IN  [names |-> <<"Report", "RelatedFull", "RelatedUnchanged", "Full", "Unchanged">>,
         types |-> [Full |-> StructureOf(<<Property("kind", ConstantText(<<70>>)),
                                           Property("items", ArrayType(B("string")))>>, <<>>, <<>>),
                    Unchanged |-> StructureOf(<<Property("kind", ConstantText(<<85>>)),
                                                Property("id", B("string"))>>, <<>>, <<>>),
                    RelatedFull |-> StructureOf(<<related>>, <<"Full">>, <<>>),
                    RelatedUnchanged |-> StructureOf(<<related>>, <<"Unchanged">>, <<>>),
                    Report |-> Alias(Or(<<Ref("RelatedFull"), Ref("RelatedUnchanged")>>))]]

\* A type that contains itself behind a pointer and in a vector, and a token.
Trees ==
    [names |-> <<"Kind", "Symbol", "Token">>,
     types |-> [Kind |-> [def |-> "enumeration", base |-> "integer", values |-> <<1, 0>>],
                Token |-> Alias(Or(<<B("integer"), B("string")>>)),
                Symbol |-> StructureOf(<<OptionalProperty("parent", Ref("Symbol")),
                                         Property("kind", Ref("Kind")),
                                         OptionalProperty("children", ArrayType(Ref("Symbol")))>>,
                                       <<>>, <<"Work">>),
                Work |-> StructureOf(<<OptionalProperty("token", Ref("Token"))>>, <<>>, <<>>)]]

\* Structure literals, the first two of which become one; a tuple; what may be anything.
Filters ==
    LET cells == ArrayType(LiteralType(<<Property("text", B("boolean"))>>))
        label == TupleType(<<B("uinteger"), B("decimal")>>)
    IN  [names |-> <<"Filter", "Any">>,
         types |-> [Filter |-> Alias(Or(<<LiteralType(<<Property("label", label), OptionalProperty("cells", cells)>>),
                                          LiteralType(<<Property("label", label), Property("cells", cells)>>),
                                          LiteralType(<<Property("any", Ref("LSPAny"))>>),
                                          B("null")>>)),
                    Any |-> StructureOf(<<OptionalProperty("any", Ref("LSPAny"))>>, <<>>, <<>>)]]

\* A provider as inlineValueProvider and declarationProvider are: what registers it is an
\* option with more members, and comes behind it.
Providers ==
    LET provider == Or(<<B("boolean"), Ref("Options"), Ref("RegistrationOptions")>>)
    IN  [names |-> <<"Server", "Options", "RegistrationOptions">>,
         types |-> [Options |-> StructureOf(<<>>, <<>>, <<"Work">>),
                    Work |-> StructureOf(<<OptionalProperty("token", B("boolean"))>>, <<>>, <<>>),
                    RegistrationOptions |->
                        StructureOf(<<Property("selector", Or(<<B("string"), B("null")>>))>>, <<"Options">>, <<>>),
                    Server |-> StructureOf(<<OptionalProperty("provider", provider)>>, <<>>, <<>>)]]

\* Two types that contain each other, behind a pointer and in a vector.
Graphs ==
    [names |-> <<"Edge", "Node", "Label">>,
     types |-> [Edge |-> StructureOf(<<Property("label", Ref("Label")), OptionalProperty("parent", Ref("Node"))>>,
                                     <<>>, <<>>),
                Node |-> StructureOf(<<Property("children", ArrayType(Ref("Edge")))>>, <<>>, <<>>),
                Label |-> Alias(B("string"))]]

MCMetaModels == {Documents, Reports, Trees, Filters, Providers, Graphs}

-----------------------------------------------------------------------------
(* Messages, and what other programs send.                                 *)

Ids == {Null, Int32(-1), Str(<<>>)}
Datas == {None, {Obj(EmptyMap)}, {Arr(<<Int32(7), Null>>)}}
MCMessages ==
    {createRequest(id, <<Slash>>, p) : id \in Ids, p \in Datas}
    \union {createNotification(<<97>>, p) : p \in Datas}
    \union {createResponse(id, x) : id \in Ids, x \in {Null, Str(<<Backslash>>), Decimal(<<-1, 2>>)}}
    \union {createErrorResponse(id, -32, <<Quote>>, d) : id \in Ids, d \in Datas}
MCBatches ==
    LET few == {createRequest(Int32(1), <<97>>, None), createNotification(<<97>>, {Obj(EmptyMap)}),
                createResponse(Null, Bool(TRUE))}
    IN  {<<m>> : m \in few} \union {<<m1, m2>> : m1, m2 \in few}

\* All short texts of punctuation, and longer ones that nest, with escapes and with numbers.
Punctuation == {LBrace, RBrace, LBracket, RBracket, Comma, Colon, Quote, 49, Space}
MemberTexts == {<<Quote, 97, Quote, Colon, 49>>, <<Quote, 97, Quote, Colon, LBracket, RBracket>>,
                <<Quote, Colon, Quote, Colon, LBrace, RBrace>>, <<Comma>>}
MCInputs ==
    UNION {[1 .. n -> Punctuation] : n \in 0 .. 4}
    \union [1 .. 5 -> Punctuation \ {49, Space}]
    \union {<<LBrace>> \o a \o b \o c \o <<RBrace>> : a, b, c \in MemberTexts}
    \union {<<LBracket>> \o a \o <<RBracket>> : a \in [1 .. 4 -> {LBracket, RBracket, Comma, Zero}]}
    \union {<<Quote>> \o s : s \in UNION {[1 .. n -> {Quote, Backslash, LF, 117}] : n \in 0 .. 4}}
    \union UNION {[1 .. n -> {Minus, 57, Dot, 101}] : n \in 1 .. 5}
    \union {<<116, 114>> \o s : s \in UNION {[1 .. n -> {117, 101, Space}] : n \in 0 .. 3}}

\* Members that are missing, of another type, or too many.
Shapes ==
    LET Absent == {}
        Version == {Absent, {Str(<<50>>)}, {Int32(2)}}
        Id == {Absent, {Null}, {Decimal(<<15, -1>>)}, {Bool(TRUE)}}
        Content == {[method |-> m, result |-> r, error |-> e] :
                       m \in {Absent, {Str(<<97>>)}, {Null}},
                       r \in {Absent, {Null}},
                       e \in {Absent, {Null}, {Obj(EmptyMap)},
                              {Obj(Put(Put(EmptyMap, <<99>>, Int32(1)), <<115>>, Str(<<>>)))},
                              {Obj(Put(Put(EmptyMap, <<99>>, Decimal(<<25, -1>>)), <<115>>, Null))}}}
    IN  {ObjectOf([jsonrpc |-> v, id |-> i, method |-> c.method, result |-> c.result, error |-> c.error]) :
            v \in Version, i \in Id, c \in Content}
MCForeignMessages ==
    Shapes \union {Str(<<Hash>>), Arr(<<>>), Arr(<<Null>>)}
    \union {Arr(<<messageToJson(createResponse(Null, Null)), Obj(EmptyMap)>>)}
MCForeignResults ==
    {Arr(<<>>), Arr(<<Obj(EmptyMap)>>), Arr(<<Null, Str(<<Percent>>)>>), Str(<<97, Colon>>), Decimal(<<3, 1>>)}
    \union {Arr(<<Int32(3), Int32(-4)>>), Arr(<<Int32(3)>>)}
    \union {ObjectOf([kind |-> k, items |-> {Arr(<<>>)}, id |-> {Str(<<>>)}, any |-> {Null},
                       uri |-> {Str(<<97, Colon>>)}]) :
               k \in {{}, {Str(<<70>>)}, {Str(<<85>>)}, {Int32(3)}}}
=============================================================================
