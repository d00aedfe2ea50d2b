-------------------------------- MODULE Wire --------------------------------
(***************************************************************************)
(* From a value in one program to the value in the other: the generator    *)
(* writes the types, a program edits a Uri or takes a value of a type, the *)
(* message is written as text (Connection::writeMessage), the other        *)
(* program parses it (Connection::readMessage, behind the header) and      *)
(* reads the value. The peer may also be any other program: then the text  *)
(* or the JSON is one that this library did not write.                     *)
(***************************************************************************)
EXTENDS Serialization, JsonGrammar, JsonStringify

CONSTANTS
    MetaModels,          \* metamodels
    Messages,            \* messages that a program sends, with no types
    Batches,             \* and batches of them
    Scalars,             \* for each base type some of its values
    Depth,               \* how deep the values are that a program sends
    ForeignMessages,     \* JSON from a peer that is another program; its texts are Inputs
    ForeignResults       \* and the result in a response from it

VARIABLES
    stage,       \* what the two programs do
    sent,        \* what is sent: nothing, a message, a batch, JSON, or a value with its type
    received,    \* what readMessage returns: nothing, a message, a batch, or Thrown
    values,      \* what fromJson makes of the result in it
    reply        \* the error that readMessage answers with

wireVars == <<stage, sent, received, values, reply>>
vars == <<generatorVars, uri, parserVars, wireVars>>

Nothing == [kind |-> "nothing"]

WireInit ==
    /\ Init
    /\ ParserInit(<<>>)
    /\ sent = Nothing
    /\ received = Nothing
    /\ values = {}
    /\ reply = "none"
    /\ \/ stage \in {"edit", "choose"} /\ GeneratorInit(NoModel)
       \/ stage = "generate" /\ \E m \in MetaModels : GeneratorInit(m)

-----------------------------------------------------------------------------
(* Before the message.                                                     *)

\* The program is built with the types, or the build fails.
RunGenerator ==
    /\ stage = "generate"
    /\ IF Generated THEN stage' = (IF Compiles THEN "choose" ELSE "done") /\ UNCHANGED generatorVars
       ELSE stage' = stage /\ Generate
    /\ UNCHANGED <<uri, parserVars, sent, received, values, reply>>

EditUri ==
    /\ stage = "edit"
    /\ Next
    /\ UNCHANGED <<generatorVars, parserVars, wireVars>>

\* writeMessage, and the text on the way to the parser of the other.
Write1(json) ==
    /\ \E t \in Stringified(json) : text' = t
    /\ stage' = "parse"
    /\ UNCHANGED <<generatorVars, uri, pos, stack, result, outcome, received, values, reply>>

\* A value with its type.
Value(cpp, x) == [kind |-> "value", typed |-> <<cpp, x>>]
InResult(json) == messageToJson(createResponse(Int32(1), json))

SendMessage ==
    /\ stage = "choose"
    /\ header = <<>>
    /\ \/ \E m \in Messages : sent' = m /\ Write1(messageToJson(m))
       \/ \E b \in Batches : sent' = Batch(b) /\ Write1(messageBatchToJson(b))

SendUri ==
    /\ stage = "edit"
    /\ sent' = Value(Cpp("URI"), uri)
    /\ Write1(InResult(toJson(Cpp("URI"), uri)))

\* Values of a type: a type that contains itself to a depth, up to two elements, the second
\* always the same, and structures that differ in one member from always the same.
RECURSIVE Samples(_, _)
Samples(cpp, depth) ==
    CASE cpp.t \in DOMAIN Scalars -> Scalars[cpp.t]
      [] cpp.t \in {"optional", "pointer", "nullable"} ->
            {None} \union IF depth = 0 THEN {} ELSE {{x} : x \in Samples(cpp.of, depth - 1)}
      [] cpp.t = "vector" ->
            {<<>>} \union IF depth = 0 THEN {}
                         ELSE LET elements == Samples(cpp.of, depth - 1)
                              IN  {<<x>> : x \in elements} \union {<<x, The(elements)>> : x \in elements}
      [] cpp.t = "tuple" -> Sequences([i \in DOMAIN cpp.of |-> Samples(cpp.of[i], depth)])
      [] cpp.t = "map" ->
            {EmptyMap} \union {Put(EmptyMap, k, x) : k \in Samples(cpp.key, 0), x \in Samples(cpp.of, depth)}
      [] cpp.t = "variant" ->
            UNION {{<<i, x>> : x \in Samples(cpp.of[i], depth)} : i \in DOMAIN cpp.of}
      [] cpp.t = "named" ->
            LET d == Def(cpp.name)
                fields == ToSet(AllFields(cpp.name))
                InField(n) == LET f == CHOOSE f \in fields : f.name = n
                              IN  IF f.constant = {} THEN Samples(f.cpp, depth) ELSE {Default(cpp)[n]}
                usual == [n \in {f.name : f \in fields} |-> The(InField(n))]
            IN  CASE d.def = "alias" -> Samples(d.cpp, depth)
                  [] d.def = "enumeration" ->
                        {[index |-> i - 1, custom |-> Default(Cpp(d.base))] : i \in DOMAIN d.values}
                        \union {[index |-> MaxValue(d), custom |-> x] : x \in Scalars[d.base] \ Range(d.values)}
                  [] OTHER -> {usual} \union UNION {{[usual EXCEPT ![n] = x] : x \in InField(n)} : n \in DOMAIN usual}

SendValue ==
    /\ stage = "choose"
    /\ \E i \in DOMAIN header : \E cpp \in {[t |-> "named", name |-> header[i].name]} :
          \E x \in Samples(cpp, Depth) :
              /\ sent' = Value(cpp, x)
              /\ Write1(InResult(toJson(cpp, x)))

\* A peer that is another program.
ReceiveForeign ==
    /\ stage = "choose"
    /\ \/ /\ header = <<>>
          /\ \E t \in Inputs :
                /\ text' = t
                /\ sent' = Nothing
                /\ stage' = "parse"
                /\ UNCHANGED <<generatorVars, uri, pos, stack, result, outcome, received, values, reply>>
       \/ /\ header = <<>>
          /\ sent' = Nothing
          /\ \E json \in ForeignMessages : Write1(json)
       \/ /\ header # <<>>
          /\ sent' = Nothing
          /\ \E json \in ForeignResults : Write1(InResult(json))

ParseText ==
    /\ stage = "parse"
    /\ Parse
    /\ UNCHANGED <<generatorVars, uri, wireVars>>

-----------------------------------------------------------------------------
(* Behind the parser.                                                      *)

\* What readMessage makes of the JSON: a set with what it can return, none for an error.
FromMessageJson(json) ==
    CASE json.t = "obj" -> messageFromJson(json)
      [] json.t = "arr" -> messageBatchFromJson(json)
      [] OTHER -> {}

\* The types as which the program may read a result: the one that was sent, or any.
ReadAs == IF sent.kind = "value" THEN {sent.typed[1]}
          ELSE {[t |-> "named", name |-> header[i].name] : i \in DOMAIN header}

ReadMessage ==
    /\ stage = "parse"
    /\ outcome # "none"
    /\ stage' = "done"
    /\ CASE outcome = "error" -> reply' = "ParseError" /\ UNCHANGED <<received, values>>
         [] outcome = "exception" -> received' = Thrown /\ UNCHANGED <<values, reply>>
         [] OTHER ->
            \E messages \in {FromMessageJson(result)} :
               IF messages = {} THEN reply' = "InvalidRequest" /\ UNCHANGED <<received, values>>
               ELSE /\ \E m \in messages :
                          /\ received' = m
                          /\ IF m.kind # "response" \/ ReadAs = {} THEN UNCHANGED values
                             ELSE \E cpp \in ReadAs, json \in m.result :
                                      values' = {<<cpp, x>> : x \in fromJson(cpp, json)}
                    /\ UNCHANGED reply
    /\ UNCHANGED <<generatorVars, uri, parserVars, sent>>

\* Any other state without a step is a parser or a generator that is stuck.
Ended ==
    /\ stage = "done"
    /\ UNCHANGED vars

WireNext ==
    \/ RunGenerator
    \/ EditUri
    \/ SendMessage
    \/ SendUri
    \/ SendValue
    \/ ReceiveForeign
    \/ ParseText
    \/ ReadMessage
    \/ Ended

WireSpec == WireInit /\ [][WireNext]_vars

-----------------------------------------------------------------------------
(* Properties.                                                             *)

\* A value that is lost: somewhere in it is an alternative whose JSON an earlier one accepts,
\* as the less specific one does that metaModel.json has first in some providers of a server;
\* or it is a Uri without a scheme, or one whose text is ambiguous or too long to count.
RECURSIVE IsLost(_, _)
IsLost(cpp, x) ==
    CASE cpp.t = "URI" -> x # NoUri /\ (IsAmbiguous(x) \/ ~PathIsCounted(x) \/ ~isValid(x))
      [] cpp.t \in {"optional", "pointer", "nullable"} -> \E y \in x : IsLost(cpp.of, y)
      [] cpp.t = "vector" -> \E i \in DOMAIN x : IsLost(cpp.of, x[i])
      [] cpp.t = "tuple" -> \E i \in DOMAIN x : IsLost(cpp.of[i], x[i])
      [] cpp.t = "map" -> \E k \in DOMAIN x : IsLost(cpp.of, x[k])
      [] cpp.t = "variant" -> \/ IsLost(cpp.of[x[1]], x[2])
                              \/ \E i \in 1 .. x[1] - 1 : canDeserialize(cpp.of[i], toJson(cpp, x))
      [] cpp.t = "named" ->
            LET d == Def(cpp.name)
            IN  CASE d.def = "alias" -> IsLost(d.cpp, x)
                  [] d.def = "structure" -> \E f \in ToSet(AllFields(cpp.name)) : IsLost(f.cpp, x[f.name])
                  [] OTHER -> FALSE
      [] OTHER -> FALSE

\* What one program sends is what the other receives: every message and batch, and every Uri
\* and value of a generated type but for those that are lost, which never arrive as they were.
SentIsReceived ==
    stage = "done" =>
        CASE sent.kind \in {"request", "response", "batch"} -> received = sent
          [] sent.kind = "value" ->
                IF IsLost(sent.typed[1], sent.typed[2]) THEN sent.typed \notin values
                ELSE values = {sent.typed}
          [] OTHER -> TRUE

\* A message or value that was received from any program can be sent on: what arrives then is
\* the same message or value, so nothing is lost after the first reading.
ForwardedUnchanged ==
    /\ received.kind \in {"request", "response"} => messageFromJson(messageToJson(received)) = {received}
    /\ \A v \in values :
          (v[1] = Cpp("URI") => ~IsAmbiguous(v[2]) /\ PathIsCounted(v[2])) => fromJson(v[1], toJson(v[1], v[2])) = {v[2]}

\* The names that a type contains, directly or not, beside those in names.
RECURSIVE Contained(_, _)
Contained(name, names) ==
    LET d == Def(name)
        new == (UsedBy(d, TRUE) \union UsedBy(d, FALSE)) \ names
    IN  FoldSet(LAMBDA n, found : IF n \in found THEN found ELSE Contained(n, found \union {n}), names, new)

\* The other types that contain the one called name and are contained in it.
ContainEachOther(name) ==
    {n \in Contained(name, {}) \ {name} : name \in Contained(n, {})}

\* lspgen.cpp: every type is written once, and complete before it is used, but for a pointer to
\* the structure itself or a vector of it. Only two types that contain each other are in no
\* order: then the header does not compile, as the generator declares no type in advance.
DefinedBeforeUse ==
    /\ \A i, j \in DOMAIN header : header[i].name = header[j].name => i = j
    /\ Generated => /\ \A i \in DOMAIN header : UsedTooEarly(i) \subseteq ContainEachOther(header[i].name)
                    /\ Compiles => \A i \in DOMAIN header : ContainEachOther(header[i].name) = {}
=============================================================================
