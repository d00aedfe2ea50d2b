---------------------------- MODULE JsonRpcProofs ----------------------------
(***************************************************************************)
(* Theorems about JsonRpc, for any ids, methods, parameters and results.   *)
(* SetInduction is that of JsonParserProofs.                               *)
(***************************************************************************)
EXTENDS JsonRpc, JsonParserProofs

-----------------------------------------------------------------------------
(* Messages that this library reads and writes.                            *)

IsId(x) == x.t \in {"null", "str"} \/ \E n : x = Int32(n)

\* A set of one value, or none.
IsOptional(o) == o = None \/ \E x : o = {x}

\* Null in place of the parameters is the same as none.
IsRequest(m) ==
    \E id, method, params :
        /\ m = Request(id, method, params)
        /\ id = None \/ \E x : IsId(x) /\ id = {x}
        /\ params = None \/ \E p : params = {p} /\ p.t \in {"obj", "arr"}

\* A result or an error.
IsResponse(m) ==
    \E id : /\ IsId(id)
            /\ \/ \E x : m = createResponse(id, x)
               \/ \E code, message, data : IsOptional(data) /\ m = createErrorResponse(id, code, message, data)

IsMessage(m) == IsRequest(m) \/ IsResponse(m)

-----------------------------------------------------------------------------
(* The members of an object. *)

MessageNames == {"jsonrpc", "id", "method", "params", "result", "error", "code", "message", "data"}

LEMMA NamesDiffer ==
  ASSUME NEW a \in MessageNames, NEW b \in MessageNames, K[a] = K[b] PROVE a = b
BY JsonRpcAssumption DEF MessageNames

\* What ObjectOf writes is what Get reads.
LEMMA ObjectIs ==
  ASSUME NEW members, DOMAIN members \subseteq MessageNames, NEW name \in MessageNames,
         name \in DOMAIN members => IsOptional(members[name])
  PROVE  /\ ObjectOf(members).t = "obj"
         /\ Get(ObjectOf(members), name) = IF name \in DOMAIN members THEN members[name] ELSE None
<1>. DEFINE present == {n \in DOMAIN members : members[n] # None}
<1>. DEFINE m == [k \in {K[n] : n \in present} |-> The(members[CHOOSE n \in present : K[n] = k])]
<1>1. ObjectOf(members) = Obj(m)
  BY Zenon DEF ObjectOf
<1>2. ObjectOf(members).t = "obj" /\ ObjectOf(members).v = m
  BY <1>1 DEF Obj
<1>3. ASSUME NEW n \in present, K[n] = K[name] PROVE n = name
  BY <1>3, NamesDiffer
<1>4. CASE name \in present
  <2>1. PICK x : members[name] = {x}
    BY <1>4 DEF IsOptional
  <2>2. (CHOOSE n \in present : K[n] = K[name]) = name
    <3>. HIDE DEF present
    <3>. QED BY <1>3, <1>4, Zenon
  <2>3. K[name] \in DOMAIN m /\ m[K[name]] = The(members[name])
    <3>. HIDE DEF present
    <3>. QED BY <1>4, <2>2
  <2>4. The({x}) = x
    BY DEF The
  <2>5. {K[name]} \intersect DOMAIN m = {K[name]}
    BY <2>3, Zenon
  <2>6. Get(ObjectOf(members), name) = {m[K[name]]}
    <3>. HIDE DEF m
    <3>. QED BY <1>2, <2>5 DEF Get
  <2>. HIDE DEF m
  <2>. QED BY <1>2, <1>4, <2>1, <2>3, <2>4, <2>6
<1>5. CASE name \notin present
  <2>1. K[name] \notin DOMAIN m
    <3>. HIDE DEF present
    <3>. QED BY <1>3, <1>5
  <2>2. Get(ObjectOf(members), name) = {}
    <3>. HIDE DEF m
    <3>. QED BY <1>2, <2>1 DEF Get
  <2>. QED BY <1>2, <1>5, <2>2 DEF None
<1>. QED BY <1>4, <1>5

-----------------------------------------------------------------------------
(* What is written is read. *)

LEMMA IdSurvives ==
  ASSUME NEW x, IsId(x) PROVE messageIdFromJson(x) = {x}
<1>1. CASE x.t \in {"null", "str"}
  BY <1>1 DEF messageIdFromJson
<1>2. ASSUME NEW n, x = Int32(n) PROVE messageIdFromJson(x) = {x}
  <2>1. x.t = "int" /\ x.v = n
    BY <1>2 DEF Int32
  <2>2. ToInteger(x) = {n}
    BY <2>1 DEF ToInteger
  <2>3. messageIdFromJson(x) = {Int32(k) : k \in {n}}
    BY <2>1, <2>2 DEF messageIdFromJson, IsNumber
  <2>. QED BY <1>2, <2>3
<1>. QED BY <1>1, <1>2 DEF IsId

LEMMA TextOf ==
  ASSUME NEW s PROVE Typed({Str(s)}, "str") = {s} /\ The({s}) = s
<1>1. Str(s).t = "str" /\ Str(s).v = s
  BY DEF Str
<1>2. {x \in {Str(s)} : x.t = "str"} = {Str(s)}
  BY <1>1, Zenon
<1>3. {x.v : x \in {Str(s)}} = {s}
  BY <1>1, Zenon
<1>4. The({s}) = s
  BY Zenon DEF The
<1>. QED BY <1>2, <1>3, <1>4, Zenon DEF Typed

LEMMA RequestSurvives ==
  ASSUME NEW m, IsRequest(m) PROVE messageFromJson(messageToJson(m)) = {m}
<1>1. PICK id, method, params :
         /\ m = Request(id, method, params)
         /\ id = None \/ \E x : IsId(x) /\ id = {x}
         /\ params = None \/ \E p : params = {p} /\ p.t \in {"obj", "arr"}
  BY DEF IsRequest
<1>2. m.kind = "request" /\ m.id = id /\ m.method = method /\ m.params = params
  BY <1>1 DEF Request
<1>3. PICK r : r = [jsonrpc |-> {Str(ProtocolVersion)}, id |-> id, method |-> {Str(method)}, params |-> params]
  OBVIOUS
<1>4. PICK json : json = messageToJson(m) /\ json = ObjectOf(r)
  BY <1>2, <1>3 DEF messageToJson, RequestJson
<1>5. /\ DOMAIN r = {"jsonrpc", "id", "method", "params"} /\ DOMAIN r \subseteq MessageNames
      /\ r["jsonrpc"] = {Str(ProtocolVersion)} /\ r["id"] = id
      /\ r["method"] = {Str(method)} /\ r["params"] = params
  BY <1>3 DEF MessageNames
<1>6. Get(json, "jsonrpc") = {Str(ProtocolVersion)}
  BY <1>4, <1>5, ObjectIs DEF MessageNames, IsOptional
<1>7. Get(json, "id") = id
  BY <1>1, <1>4, <1>5, ObjectIs DEF MessageNames, IsOptional
<1>8. Get(json, "method") = {Str(method)}
  BY <1>4, <1>5, ObjectIs DEF MessageNames, IsOptional
<1>9. Get(json, "params") = params
  BY <1>1, <1>4, <1>5, ObjectIs DEF MessageNames, IsOptional
<1>10. Typed(Get(json, "method"), "str") = {method} /\ The({method}) = method
  BY <1>8, TextOf
<1>11. {p \in params : p.t # "null"} = params /\ ~(\E p \in params : p.t \notin {"obj", "arr", "null"})
  BY <1>1 DEF None
<1>12. requestFromJson(json) =
         {Request(IF id = {} THEN None ELSE {i}, method, params) : i \in IdsOf(json, Null)}
  <2>1. verifyProtocolVersion(json) /\ {method} # {}
    BY <1>6 DEF verifyProtocolVersion
  <2>. QED BY <1>7, <1>9, <1>10, <1>11, <2>1 DEF requestFromJson
<1>13. requestFromJson(json) = {m}
  <2>1. CASE id = {}
    <3>1. IdsOf(json, Null) = {Null}
      BY <1>7, <2>1 DEF IdsOf
    <3>. QED BY <1>1, <1>12, <2>1, <3>1 DEF None
  <2>2. ASSUME NEW x, IsId(x), id = {x} PROVE requestFromJson(json) = {m}
    <3>1. IdsOf(json, Null) = {x}
      <4>1. The({x}) = x
        BY DEF The
      <4>. QED BY <1>7, <2>2, <4>1, IdSurvives DEF IdsOf
    <3>. QED BY <1>1, <1>12, <2>2, <3>1
  <2>. QED BY <1>1, <2>1, <2>2 DEF None
<1>14. messageFromJson(json) = requestFromJson(json)
  BY <1>8 DEF messageFromJson
<1>. QED BY <1>4, <1>13, <1>14

\* The members that responseFromJson reads.
HasMembers(json, id, optResult, optError) ==
    /\ messageFromJson(json) = responseFromJson(json)
    /\ verifyProtocolVersion(json) /\ IdsOf(json, Null) = {id}
    /\ Get(json, "result") = optResult
    /\ Get(json, "error") = {ErrorJson(e) : e \in optError}

\* What a response with the id, the result and the error becomes.
LEMMA ResponseMembers ==
  ASSUME NEW id, NEW optResult, IsOptional(optResult), NEW optError, IsOptional(optError),
         NEW m, m = Response(id, optResult, optError), NEW json, json = messageToJson(m), IsId(id)
  PROVE  HasMembers(json, id, optResult, optError)
<1>1. m.kind = "response" /\ m.id = {id} /\ m.result = optResult /\ m.error = optError
  BY DEF Response
<1>2. PICK errors : errors = {ErrorJson(e) : e \in optError}
  OBVIOUS
<1>3. PICK r : r = [jsonrpc |-> {Str(ProtocolVersion)}, id |-> {id}, result |-> optResult, error |-> errors]
  OBVIOUS
<1>4. json = ObjectOf(r)
  BY <1>1, <1>2, <1>3 DEF messageToJson, ResponseJson
<1>5. /\ DOMAIN r = {"jsonrpc", "id", "result", "error"} /\ DOMAIN r \subseteq MessageNames
      /\ r["jsonrpc"] = {Str(ProtocolVersion)} /\ r["id"] = {id}
      /\ r["result"] = optResult /\ r["error"] = errors
  BY <1>3 DEF MessageNames
<1>6. IsOptional(errors)
  BY <1>2 DEF IsOptional, None
<1>7. Get(json, "jsonrpc") = {Str(ProtocolVersion)}
  BY <1>4, <1>5, ObjectIs DEF MessageNames, IsOptional
<1>8. Get(json, "id") = {id}
  BY <1>4, <1>5, ObjectIs DEF MessageNames, IsOptional
<1>9. Get(json, "result") = optResult
  BY <1>4, <1>5, ObjectIs DEF MessageNames
<1>10. Get(json, "error") = errors
  BY <1>4, <1>5, <1>6, ObjectIs DEF MessageNames
<1>11. Get(json, "method") = {}
  BY <1>4, <1>5, ObjectIs DEF MessageNames, None
<1>12. IdsOf(json, Null) = {id}
  <2>1. The({id}) = id
    BY DEF The
  <2>. QED BY <1>8, <2>1, IdSurvives DEF IdsOf
<1>. QED BY <1>2, <1>7, <1>9, <1>10, <1>11, <1>12 DEF verifyProtocolVersion, messageFromJson, HasMembers

LEMMA ErrorSurvives ==
  ASSUME NEW code, NEW message, NEW data, IsOptional(data), NEW e, e = ErrorOf(code, message, data)
  PROVE  ErrorJson(e).t = "obj" /\ errorFromJson(ErrorJson(e)) = {e}
<1>1. PICK r : r = [code |-> {Int32(code)}, message |-> {Str(message)}, data |-> data]
  OBVIOUS
<1>2. PICK json : json = ErrorJson(e) /\ json = ObjectOf(r)
  BY <1>1 DEF ErrorJson, ErrorOf
<1>3. /\ DOMAIN r = {"code", "message", "data"} /\ DOMAIN r \subseteq MessageNames
      /\ r["code"] = {Int32(code)} /\ r["message"] = {Str(message)} /\ r["data"] = data
  BY <1>1 DEF MessageNames
<1>4. Get(json, "code") = {Int32(code)} /\ json.t = "obj"
  BY <1>2, <1>3, ObjectIs DEF MessageNames, IsOptional
<1>5. Get(json, "message") = {Str(message)}
  BY <1>2, <1>3, ObjectIs DEF MessageNames, IsOptional
<1>6. Get(json, "data") = data
  BY <1>2, <1>3, ObjectIs DEF MessageNames
<1>7. Typed(Get(json, "message"), "str") = {message} /\ The({message}) = message
  BY <1>5, TextOf
<1>8. The({Int32(code)}) = Int32(code) /\ Int32(code).t = "int" /\ Int32(code).v = code
  BY DEF The, Int32
<1>9. ToInteger(Int32(code)) = {code} /\ IsNumber(Int32(code))
  BY <1>8 DEF ToInteger, IsNumber
<1>10. errorFromJson(json) = {ErrorOf(c, message, data) : c \in {code}}
  <2>1. {message} # {} /\ {Int32(code)} # {}
    OBVIOUS
  <2>. QED BY <1>4, <1>6, <1>7, <1>8, <1>9, <2>1 DEF errorFromJson
<1>. QED BY <1>2, <1>4, <1>10

LEMMA ResponseSurvives ==
  ASSUME NEW m, IsResponse(m) PROVE messageFromJson(messageToJson(m)) = {m}
<1>1. PICK id : /\ IsId(id)
                /\ \/ \E x : m = createResponse(id, x)
                   \/ \E code, message, data : IsOptional(data) /\ m = createErrorResponse(id, code, message, data)
  BY DEF IsResponse
<1>2. PICK json : json = messageToJson(m)
  OBVIOUS
<1>3. ASSUME NEW x, m = createResponse(id, x) PROVE messageFromJson(json) = {m}
  <2>1. m = Response(id, {x}, None) /\ IsOptional({x}) /\ IsOptional(None)
    BY <1>3 DEF createResponse, IsOptional
  <2>2. /\ messageFromJson(json) = responseFromJson(json)
        /\ verifyProtocolVersion(json) /\ IdsOf(json, Null) = {id}
        /\ Get(json, "result") = {x}
        /\ Get(json, "error") = {ErrorJson(e) : e \in None}
    <3>1. HasMembers(json, id, {x}, None)
      BY <1>1, <1>2, <2>1, ResponseMembers
    <3>. QED BY <3>1 DEF HasMembers
  <2>3. Get(json, "error") = {}
    BY <2>2 DEF None
  <2>4. responseFromJson(json) = {Response(i, {x}, None) : i \in {id}}
    <3>1. {i \in {id} : {x} # {}} = {id}
      OBVIOUS
    <3>. QED BY <2>2, <2>3, <3>1 DEF responseFromJson
  <2>. QED BY <2>1, <2>2, <2>4
<1>4. ASSUME NEW code, NEW message, NEW data, IsOptional(data),
             m = createErrorResponse(id, code, message, data)
      PROVE  messageFromJson(json) = {m}
  <2>1. PICK e : e = ErrorOf(code, message, data) /\ m = Response(id, None, {e})
    BY <1>4 DEF createErrorResponse
  <2>2. IsOptional({e}) /\ IsOptional(None)
    BY DEF IsOptional
  <2>3. /\ messageFromJson(json) = responseFromJson(json)
        /\ verifyProtocolVersion(json) /\ IdsOf(json, Null) = {id}
        /\ Get(json, "result") = None
        /\ Get(json, "error") = {ErrorJson(e)}
    <3>1. {ErrorJson(d) : d \in {e}} = {ErrorJson(e)}
      OBVIOUS
    <3>2. HasMembers(json, id, None, {e})
      BY <1>1, <1>2, <2>1, <2>2, ResponseMembers
    <3>. QED BY <3>1, <3>2 DEF HasMembers
  <2>4. ErrorJson(e).t = "obj" /\ errorFromJson(ErrorJson(e)) = {e}
    BY <1>4, <2>1, ErrorSurvives
  <2>5. The({ErrorJson(e)}) = ErrorJson(e)
    BY DEF The
  <2>6. responseFromJson(json) = {Response(o[1], None, {o[2]}) : o \in {o \in {id} \X {e} : None = {}}}
    <3>1. {ErrorJson(e)} # {} /\ {id} # {}
      OBVIOUS
    <3>. QED BY <2>3, <2>4, <2>5, <3>1 DEF responseFromJson
  <2>7. {Response(o[1], None, {o[2]}) : o \in {o \in {id} \X {e} : None = {}}} = {Response(id, None, {e})}
    <3>1. \A o : o \in {id} \X {e} <=> o = <<id, e>>
      OBVIOUS
    <3>2. <<id, e>>[1] = id /\ <<id, e>>[2] = e
      OBVIOUS
    <3>3. {o \in {id} \X {e} : None = {}} = {<<id, e>>}
      BY <3>1, Zenon DEF None
    <3>4. PICK o : o = <<id, e>>
      OBVIOUS
    <3>5. {Response(p[1], None, {p[2]}) : p \in {o}} = {Response(o[1], None, {o[2]})}
      BY Zenon
    <3>. QED BY <3>2, <3>3, <3>4, <3>5
  <2>. QED BY <2>1, <2>3, <2>6, <2>7
<1>. QED BY <1>1, <1>2, <1>3, <1>4

\* jsonrpc.cpp: a message that this library writes is the message that it reads, and no other,
\* whatever its id, method, parameters, result or error data are.
THEOREM MessageSurvives ==
  \A m : IsMessage(m) => messageFromJson(messageToJson(m)) = {m}
BY RequestSurvives, ResponseSurvives DEF IsMessage

-----------------------------------------------------------------------------
(* What is read can be written.                                            *)

LEMMA GetIsOptional ==
  ASSUME NEW json, NEW name PROVE IsOptional(Get(json, name))
<1>1. CASE K[name] \in DOMAIN json.v
  <2>1. {K[name]} \intersect DOMAIN json.v = {K[name]}
    BY <1>1, Zenon
  <2>2. Get(json, name) = {json.v[K[name]]}
    BY <2>1 DEF Get
  <2>. QED BY <2>2 DEF IsOptional
<1>2. CASE K[name] \notin DOMAIN json.v
  BY <1>2 DEF Get, IsOptional, None
<1>. QED BY <1>1, <1>2

LEMMA OnlyIds ==
  ASSUME NEW json, NEW i \in IdsOf(json, Null) PROVE IsId(i)
<1>1. CASE Get(json, "id") = {}
  BY <1>1 DEF IdsOf, IsId, Null
<1>2. CASE Get(json, "id") # {}
  <2>1. PICK x : x = The(Get(json, "id")) /\ i \in messageIdFromJson(x)
    BY <1>2 DEF IdsOf
  <2>2. CASE x.t \in {"str", "null"}
    BY <2>1, <2>2 DEF messageIdFromJson, IsId
  <2>3. CASE x.t \notin {"str", "null"}
    BY <2>1, <2>3 DEF messageIdFromJson, IsId
  <2>. QED BY <2>2, <2>3
<1>. QED BY <1>1, <1>2

LEMMA RequestRead ==
  ASSUME NEW json, NEW m \in requestFromJson(json) PROVE m = Thrown \/ IsRequest(m)
<1>1. PICK params : params = Get(json, "params")
  OBVIOUS
<1>2. SUFFICES ASSUME m # Thrown PROVE IsRequest(m)
  OBVIOUS
<1>3. PICK method : method = The(Typed(Get(json, "method"), "str"))
  OBVIOUS
<1>4. /\ ~(\E p \in params : p.t \notin {"obj", "arr", "null"})
      /\ m \in {Request(IF Get(json, "id") = {} THEN None ELSE {id}, method, {p \in params : p.t # "null"}) :
                   id \in IdsOf(json, Null)}
  BY <1>1, <1>2, <1>3, Zenon DEF requestFromJson
<1>5. PICK id \in IdsOf(json, Null) :
         m = Request(IF Get(json, "id") = {} THEN None ELSE {id}, method, {p \in params : p.t # "null"})
  BY <1>4
<1>6. IsId(id)
  BY OnlyIds
<1>7. PICK ids : ids = (IF Get(json, "id") = {} THEN None ELSE {id}) /\ (ids = None \/ ids = {id})
  OBVIOUS
<1>8. PICK given : given = {p \in params : p.t # "null"} /\ (given = None \/ \E p : given = {p} /\ p.t \in {"obj", "arr"})
  <2>1. params = None \/ \E p : params = {p}
    BY <1>1, GetIsOptional DEF IsOptional
  <2>2. CASE params = None
    BY <2>2 DEF None
  <2>3. ASSUME NEW x, params = {x}
        PROVE  LET given == {p \in params : p.t # "null"}
               IN  given = None \/ \E p : given = {p} /\ p.t \in {"obj", "arr"}
    <3>1. x.t \in {"obj", "arr", "null"}
      BY <1>4, <2>3
    <3>2. CASE x.t = "null"
      BY <2>3, <3>2 DEF None
    <3>3. CASE x.t # "null"
      <4>1. {p \in params : p.t # "null"} = {x}
        BY <2>3, <3>3
      <4>. QED BY <3>1, <3>3, <4>1
    <3>. QED BY <3>2, <3>3
  <2>. QED BY <2>1, <2>2, <2>3
<1>. QED BY <1>5, <1>6, <1>7, <1>8 DEF IsRequest

LEMMA ErrorRead ==
  ASSUME NEW json, NEW e \in errorFromJson(json)
  PROVE  \E code, message, data : IsOptional(data) /\ e = ErrorOf(code, message, data)
<1>1. PICK message, data : message = The(Typed(Get(json, "message"), "str")) /\ data = Get(json, "data")
  OBVIOUS
<1>2. e \in {ErrorOf(c, message, data) : c \in ToInteger(The(Get(json, "code")))}
  BY <1>1, Zenon DEF errorFromJson
<1>. QED BY <1>1, <1>2, GetIsOptional

LEMMA ResponseRead ==
  ASSUME NEW json, NEW m \in responseFromJson(json) PROVE m = Thrown \/ IsResponse(m)
<1>1. PICK ids : ids = IdsOf(json, Null)
  OBVIOUS
<1>2. PICK value, error : value = Get(json, "result") /\ error = Get(json, "error")
  OBVIOUS
<1>3. PICK errors : errors = errorFromJson(The(error))
  OBVIOUS
<1>4. \/ m = Thrown
      \/ m \in {Response(id, value, None) : id \in {id \in ids : value # {}}}
      \/ m \in {Response(o[1], None, {o[2]}) : o \in {o \in ids \X errors : value = {}}}
  BY <1>1, <1>2, <1>3, Zenon DEF responseFromJson
<1>5. ASSUME NEW id \in ids, value # {}, m = Response(id, value, None) PROVE IsResponse(m)
  <2>1. PICK x : value = {x}
    BY <1>2, <1>5, GetIsOptional DEF IsOptional, None
  <2>. QED BY <1>1, <1>5, <2>1, OnlyIds DEF IsResponse, createResponse
<1>6. ASSUME NEW o \in ids \X errors, m = Response(o[1], None, {o[2]}) PROVE IsResponse(m)
  <2>1. PICK id, e : id = o[1] /\ e = o[2] /\ id \in ids /\ e \in errors
    OBVIOUS
  <2>2. PICK code, message, data : IsOptional(data) /\ e = ErrorOf(code, message, data)
    BY <1>3, <2>1, ErrorRead
  <2>3. IsId(id)
    BY <1>1, <2>1, OnlyIds
  <2>4. m = createErrorResponse(id, code, message, data)
    BY <1>6, <2>1, <2>2 DEF createErrorResponse
  <2>. QED BY <2>2, <2>3, <2>4 DEF IsResponse
<1>. QED BY <1>4, <1>5, <1>6

\* jsonrpc.cpp: what this library reads from the JSON of any other program, whatever members it
\* has, is an exception or a message that can be written again and is then read as it was.
THEOREM ReadIsForwarded ==
  \A json : \A m \in messageFromJson(json) :
      m = Thrown \/ (IsMessage(m) /\ messageFromJson(messageToJson(m)) = {m})
<1>. SUFFICES ASSUME NEW json, NEW m \in messageFromJson(json), m # Thrown PROVE IsMessage(m)
  BY MessageSurvives
<1>1. m \in requestFromJson(json) \/ m \in responseFromJson(json)
  BY Zenon DEF messageFromJson
<1>. QED BY <1>1, RequestRead, ResponseRead DEF IsMessage

-----------------------------------------------------------------------------
(* Batches.                                                                *)

IsBatch(b) == \E S : b \in Seq(S) /\ b # <<>> /\ \A i \in 1 .. Len(b) : IsMessage(b[i])

UpTo(f, sets) ==
    f = [i \in 0 .. Len(sets) |-> IF i = 0 THEN {<<>>} ELSE Extended(f[i - 1], sets[i])]

LEMMA SequencesIs == \A sets : Sequences(sets) = (CHOOSE f : UpTo(f, sets))[Len(sets)]
BY Zenon DEF Sequences, UpTo

LEMMA AppendNext ==
  ASSUME NEW S, NEW b \in Seq(S), NEW n \in 1 .. Len(b)
  PROVE  Append(SubSeq(b, 1, n - 1), b[n]) = SubSeq(b, 1, n)
<1>. DEFINE s == Append(SubSeq(b, 1, n - 1), b[n])
            t == SubSeq(b, 1, n)
<1>1. Len(b) \in Nat /\ n \in Nat /\ n - 1 \in Nat
  OBVIOUS
<1>2. s \in Seq(S) /\ t \in Seq(S) /\ Len(s) = n /\ Len(t) = n
  BY <1>1
<1>3. \A i \in 1 .. n : s[i] = b[i] /\ t[i] = b[i]
  BY <1>1
<1>. HIDE DEF s, t
<1>4. s = [i \in 1 .. n |-> s[i]] /\ t = [i \in 1 .. n |-> t[i]]
  BY <1>2
<1>5. s = t
  BY <1>3, <1>4
<1>. QED BY <1>5 DEF s, t

\* Sets of one element each have one sequence.
LEMMA OneSequence ==
  ASSUME NEW S, NEW b \in Seq(S), NEW sets, DOMAIN sets = 1 .. Len(b), Len(sets) = Len(b),
         \A i \in 1 .. Len(b) : sets[i] = {b[i]}
  PROVE  Sequences(sets) = {b}
<1>. DEFINE Beginnings == [i \in 0 .. Len(b) |-> {SubSeq(b, 1, i)}]
<1>1. Len(b) \in Nat
  OBVIOUS
<1>2. ASSUME NEW i \in 1 .. Len(b), NEW s, s = {SubSeq(b, 1, i - 1)}
      PROVE  Extended(s, sets[i]) = {SubSeq(b, 1, i)}
  <2>1. Extended(s, sets[i]) = {Append(SubSeq(b, 1, i - 1), b[i])}
    BY <1>2 DEF Extended
  <2>. QED BY <2>1, AppendNext
<1>3. {SubSeq(b, 1, 0)} = {<<>>}
  <2>1. SubSeq(b, 1, 0) \in Seq(S) /\ Len(SubSeq(b, 1, 0)) = 0
    BY <1>1
  <2>2. SubSeq(b, 1, 0) = <<>>
    BY <2>1
  <2>. QED BY <2>2
<1>4. UpTo(Beginnings, sets)
  <2>1. ASSUME NEW i \in 0 .. Len(b)
        PROVE  Beginnings[i] = IF i = 0 THEN {<<>>} ELSE Extended(Beginnings[i - 1], sets[i])
    <3>1. CASE i = 0
      BY <1>3, <3>1
    <3>2. CASE i # 0
      <4>1. i \in 1 .. Len(b) /\ i - 1 \in 0 .. Len(b)
        BY <1>1, <3>2
      <4>2. PICK s : s = Beginnings[i - 1] /\ s = {SubSeq(b, 1, i - 1)} /\ Beginnings[i] = {SubSeq(b, 1, i)}
        BY <4>1
      <4>. HIDE DEF Beginnings
      <4>. QED BY <1>2, <3>2, <4>1, <4>2
    <3>. QED BY <3>1, <3>2
  <2>. QED BY <2>1 DEF UpTo
<1>5. PICK f : UpTo(f, sets) /\ Sequences(sets) = f[Len(b)]
  <2>. HIDE DEF Beginnings
  <2>1. \E f : UpTo(f, sets)
    BY <1>4
  <2>. QED BY <2>1, SequencesIs
<1>. HIDE DEF Beginnings
<1>. DEFINE T == {n \in Nat : n <= Len(b) => f[n] = {SubSeq(b, 1, n)}}
<1>6. 0 \in T
  BY <1>1, <1>3, <1>5 DEF UpTo
<1>7. ASSUME NEW n \in Nat, n \in T PROVE n + 1 \in T
  <2>. SUFFICES ASSUME n + 1 <= Len(b) PROVE f[n + 1] = {SubSeq(b, 1, n + 1)}
    OBVIOUS
  <2>1. PICK i \in 1 .. Len(b) : i = n + 1 /\ i \in 0 .. Len(sets) /\ i # 0 /\ i - 1 = n
    BY <1>1
  <2>2. f[i] = Extended(f[i - 1], sets[i])
    BY <1>5, <2>1 DEF UpTo
  <2>3. PICK s : s = f[i - 1] /\ s = {SubSeq(b, 1, i - 1)}
    BY <1>1, <1>7, <2>1
  <2>4. f[i] = {SubSeq(b, 1, i)}
    BY <1>2, <2>2, <2>3
  <2>. QED BY <2>1, <2>4
<1>8. Nat \subseteq T
  <2>. HIDE DEF T
  <2>. QED BY <1>6, <1>7, SetInduction
<1>9. f[Len(b)] = {SubSeq(b, 1, Len(b))}
  BY <1>1, <1>8
<1>10. SubSeq(b, 1, Len(b)) = b
  OBVIOUS
<1>. QED BY <1>5, <1>9, <1>10

LEMMA MessageIsObject ==
  ASSUME NEW m PROVE messageToJson(m).t = "obj"
<1>1. \A content : Obj(content).t = "obj"
  BY DEF Obj
<1>2. \A members : ObjectOf(members).t = "obj"
  BY <1>1, Zenon DEF ObjectOf
<1>3. messageToJson(m) = RequestJson(m.id, m) \/ messageToJson(m) = ResponseJson(m.id, m)
  BY Zenon DEF messageToJson
<1>. QED BY <1>2, <1>3, Zenon DEF RequestJson, ResponseJson

\* jsonrpc.cpp: a batch that this library writes is the batch that it reads, with every message
\* as it was and in its place.
THEOREM BatchSurvives ==
  \A b : IsBatch(b) => messageBatchFromJson(messageBatchToJson(b)) = {Batch(b)}
<1>. SUFFICES ASSUME NEW b, IsBatch(b) PROVE messageBatchFromJson(messageBatchToJson(b)) = {Batch(b)}
  OBVIOUS
<1>1. PICK S : b \in Seq(S) /\ b # <<>> /\ \A i \in 1 .. Len(b) : IsMessage(b[i])
  BY DEF IsBatch
<1>2. DOMAIN b = 1 .. Len(b) /\ Len(b) \in Nat \ {0} /\ b = [i \in 1 .. Len(b) |-> b[i]]
  BY <1>1
<1>3. PICK a : a = [i \in 1 .. Len(b) |-> messageToJson(b[i])]
  OBVIOUS
<1>4. PICK json : json = messageBatchToJson(b) /\ json.v = a
  <2>1. a = [i \in DOMAIN b |-> messageToJson(b[i])]
    BY <1>2, <1>3
  <2>2. Arr(a).v = a
    BY DEF Arr
  <2>3. messageBatchToJson(b) = Arr(a)
    BY <2>1, Zenon DEF messageBatchToJson
  <2>. QED BY <2>2, <2>3
<1>5. DOMAIN a = 1 .. Len(b) /\ Len(a) = Len(b) /\ a # <<>>
  BY <1>2, <1>3
<1>. DEFINE FromElement(x) == IF x.t = "obj" THEN messageFromJson(x) ELSE {Thrown}
<1>6. ASSUME NEW i \in 1 .. Len(b) PROVE FromElement(a[i]) = {b[i]} /\ b[i] # Thrown
  <2>1. PICK m : m = b[i] /\ IsMessage(m) /\ a[i] = messageToJson(m)
    BY <1>1, <1>3
  <2>2. messageFromJson(messageToJson(m)) = {m} /\ messageToJson(m).t = "obj"
    BY <2>1, MessageSurvives, MessageIsObject
  <2>3. m # Thrown
    <3>1. /\ \A id, method, params : Request(id, method, params).kind = "request"
          /\ \A id, res, error : Response(id, res, error).kind = "response"
      BY DEF Request, Response
    <3>2. CASE IsRequest(m)
      BY <3>1, <3>2 DEF IsRequest, Thrown
    <3>3. CASE IsResponse(m)
      <4>1. \E id, res, error : m = Response(id, res, error)
        BY <3>3, Zenon DEF IsResponse, createResponse, createErrorResponse
      <4>. QED BY <3>1, <4>1 DEF Thrown
    <3>. QED BY <2>1, <3>2, <3>3 DEF IsMessage
  <2>. QED BY <2>1, <2>2, <2>3
<1>. DEFINE stops == {i \in DOMAIN a : FromElement(a[i]) \in {{}, {Thrown}}}
<1>. HIDE DEF FromElement
<1>7. stops = {}
  BY <1>5, <1>6
<1>8. PICK sets : sets = [i \in DOMAIN a |-> FromElement(a[i])]
  OBVIOUS
<1>9. Sequences(sets) = {b}
  <2>1. DOMAIN sets = 1 .. Len(b) /\ Len(sets) = Len(b) /\ \A i \in 1 .. Len(b) : sets[i] = {b[i]}
    BY <1>2, <1>5, <1>6, <1>8
  <2>. QED BY <1>1, <2>1, OneSequence
<1>10. messageBatchFromJson(json) = {Batch(c) : c \in Sequences(sets)}
  <2>1. a # <<>> /\ json.v = a
    BY <1>4, <1>5
  <2>. QED BY <1>7, <1>8, <2>1, Zenon DEF messageBatchFromJson, FromElement
<1>. QED BY <1>4, <1>9, <1>10
=============================================================================
