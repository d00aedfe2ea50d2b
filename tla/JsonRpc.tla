------------------------------ MODULE JsonRpc ------------------------------
(***************************************************************************)
(* JSON-RPC messages (src/lsp/jsonrpc/jsonrpc.h, jsonrpc.cpp) and their    *)
(* JSON. A message from JSON is given as a set: the message, none when     *)
(* there is a ProtocolError, and Thrown when an unchecked access throws.   *)
(* The names of the members are constants, one text for each.              *)
(***************************************************************************)
EXTENDS JsonText

CONSTANTS
    K,                 \* the texts of the names: K.jsonrpc, K.id, K.method, ...
    ProtocolVersion    \* "2.0"

ASSUME JsonRpcAssumption ==
    /\ {"jsonrpc", "id", "method", "params", "result", "error", "code", "message", "data"} \subseteq DOMAIN K
    /\ \A n1, n2 \in DOMAIN K : n1 # n2 => K[n1] # K[n2]

Thrown == [kind |-> "thrown"]

\* std::optional<T>: a set of one T or none.
None == {}
The(optional) == CHOOSE x \in optional : TRUE

Request(id, method, params) == [kind |-> "request", id |-> id, method |-> method, params |-> params]
\* The id of a response is not optional; a set here too, so that messages can be compared.
Response(id, result, error) == [kind |-> "response", id |-> {id}, result |-> result, error |-> error]
Batch(messages) == [kind |-> "batch", messages |-> messages]
ErrorOf(code, message, data) == [code |-> code, message |-> message, data |-> data]

createRequest(id, method, params) == Request({id}, method, params)
createNotification(method, params) == Request(None, method, params)
createResponse(id, value) == Response(id, {value}, None)
createErrorResponse(id, code, message, data) == Response(id, None, {ErrorOf(code, message, data)})

-----------------------------------------------------------------------------
(* To JSON. A MessageId is its JSON value: null, an integer or a string.   *)

\* The object with the members that there are; each is an optional.
ObjectOf(members) ==
    LET present == {n \in DOMAIN members : members[n] # None}
    IN  Obj([k \in {K[n] : n \in present} |-> The(members[CHOOSE n \in present : K[n] = k])])

ErrorJson(e) == ObjectOf([code |-> {Int32(e.code)}, message |-> {Str(e.message)}, data |-> e.data])

RequestJson(id, m) ==
    ObjectOf([jsonrpc |-> {Str(ProtocolVersion)}, id |-> id, method |-> {Str(m.method)}, params |-> m.params])
ResponseJson(id, m) ==
    ObjectOf([jsonrpc |-> {Str(ProtocolVersion)}, id |-> id,
              result |-> m.result, error |-> {ErrorJson(e) : e \in m.error}])

messageToJson_NoNullId(m) ==    \* an id that is null is left out
    IF m.kind = "request" THEN RequestJson(m.id \ {Null}, m) ELSE ResponseJson(m.id \ {Null}, m)
messageToJson(m) == IF m.kind = "request" THEN RequestJson(m.id, m) ELSE ResponseJson(m.id, m)

messageBatchToJson(batch) == Arr([i \in DOMAIN batch |-> messageToJson(batch[i])])

-----------------------------------------------------------------------------
(* From JSON.                                                              *)

\* The member with the name, as an optional, and what is in it if it is of type t.
Get(json, name) == {json.v[k] : k \in {K[name]} \intersect DOMAIN json.v}
Typed(values, t) == {x.v : x \in {x \in values : x.t = t}}
IsNumber(x) == x.t \in {"int", "dec"}

\* A double that is converted to an integer loses its fraction. One that is too large for it
\* is undefined behaviour: any integer.
Truncated(d) ==
    LET whole == IF d[2] >= 0 THEN Abs(d[1]) * 10^d[2] ELSE Abs(d[1]) \div 10^Abs(d[2])
    IN  IF d[1] < 0 THEN -whole ELSE whole
ToInteger(x) ==
    IF x.t = "int" THEN {x.v}
    ELSE IF Fits(Truncated(x.v)) THEN {Truncated(x.v)} ELSE (-IntMax - 1) .. IntMax

verifyProtocolVersion(json) == Get(json, "jsonrpc") = {Str(ProtocolVersion)}

messageIdFromJson(x) ==
    IF x.t \in {"str", "null"} THEN {x} ELSE IF IsNumber(x) THEN {Int32(n) : n \in ToInteger(x)} ELSE {}

\* The possible values of the member id: the default when there is none.
IdsOf(json, default) ==
    IF Get(json, "id") = {} THEN {default} ELSE messageIdFromJson(The(Get(json, "id")))

requestFromJson(json) ==
    LET params == Get(json, "params")
    IN  IF ~verifyProtocolVersion(json) THEN {}
        ELSE IF Typed(Get(json, "method"), "str") = {} THEN {Thrown}
        ELSE IF \E p \in params : p.t \notin {"obj", "arr", "null"} THEN {}
        ELSE {Request(IF Get(json, "id") = {} THEN None ELSE {id},
                      The(Typed(Get(json, "method"), "str")), {p \in params : p.t # "null"}) :
                 id \in IdsOf(json, Null)}

errorFromJson(e) ==
    IF Get(e, "code") = {} \/ Typed(Get(e, "message"), "str") = {} THEN {}
    ELSE IF ~IsNumber(The(Get(e, "code"))) THEN {}
    ELSE {ErrorOf(c, The(Typed(Get(e, "message"), "str")), Get(e, "data")) :
             c \in ToInteger(The(Get(e, "code")))}

responseFromJson(json) ==
    LET result == Get(json, "result")
        error == Get(json, "error")
    IN  IF ~verifyProtocolVersion(json) \/ IdsOf(json, Null) = {} THEN {}
        ELSE IF error = {}
        THEN {Response(id, result, None) : id \in {id \in IdsOf(json, Null) : result # {}}}
        ELSE IF The(error).t # "obj" THEN {Thrown}
        ELSE {Response(o[1], None, {o[2]}) :
                 o \in {o \in IdsOf(json, Null) \X errorFromJson(The(error)) : result = {}}}

messageFromJson(json) ==
    IF Get(json, "method") # {} THEN requestFromJson(json) ELSE responseFromJson(json)

Extended(sequences, elements) == {Append(s, x) : s \in sequences, x \in elements}

\* The sequences of which each element is in the set of its place: none if one set is empty.
Sequences(sets) ==
    LET upTo[i \in 0 .. Len(sets)] ==
            IF i = 0 THEN {<<>>} ELSE Extended(upTo[i - 1], sets[i])
    IN  upTo[Len(sets)]

\* The first element that is an error or throws ends the loop.
messageBatchFromJson(json) ==
    LET FromElement(x) == IF x.t = "obj" THEN messageFromJson(x) ELSE {Thrown}
        stops == {i \in DOMAIN json.v : FromElement(json.v[i]) \in {{}, {Thrown}}}
    IN  IF json.v = <<>> THEN {}
        ELSE IF stops # {} THEN FromElement(json.v[CHOOSE i \in stops : \A j \in stops : i <= j])
        ELSE {Batch(b) : b \in Sequences([i \in DOMAIN json.v |-> FromElement(json.v[i])])}
=============================================================================
