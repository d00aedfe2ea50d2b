--------------------------- MODULE Serialization ---------------------------
(***************************************************************************)
(* The values of the generated types to and from JSON                      *)
(* (src/lsp/serialization.h, with nullable.h and enumeration.h): templates *)
(* that the compiler instantiates for each type, operators on the type     *)
(* here.                                                                   *)
(*                                                                         *)
(* A C++ value is, by its type: a number, a truth value, a text, a Uri, a  *)
(* JSON value, a sequence (vector and tuple), a function on its keys (map) *)
(* or members (structure), a set of one value or none (optional, pointer,  *)
(* nullable), <<alternative, value>> (variant), or [index, custom] (enumeration).    *)
(*                                                                         *)
(* fromJson gives the set of the values that can come out: none when it    *)
(* throws, one as a rule.                                                  *)
(***************************************************************************)
EXTENDS CppGenerator, JsonRpc, Uri

Def(name) == header[CHOOSE i \in DOMAIN header : header[i].name = name]
TextKinds == {"string", "RegExp"}
UriKinds == {"URI", "DocumentUri"}
JsonKinds == {"LSPAny", "LSPObject", "LSPArray"}
ToUri(kind, u) == IF kind = "DocumentUri" THEN FileUriFrom(u) ELSE u

RECURSIVE AllFields(_)
AllFields(name) ==
    FlattenSeq([i \in DOMAIN Def(name).bases |-> AllFields(Def(name).bases[i])])
    \o SelectSeq(Def(name).fields, LAMBDA f : ~f.inherited)

\* The constants of the base classes are not among them.
literalProperties(name) == {f \in ToSet(Def(name).fields) : f.constant # {}}

MaxValue(d) == Len(d.values)    \* EnumType::MAX_VALUE, for a custom value

-----------------------------------------------------------------------------
(* T{}.                                                                    *)

RECURSIVE Default(_)
Default(cpp) ==
    CASE cpp.t \in TextKinds -> <<>>
      [] cpp.t \in UriKinds -> IF cpp.t = "DocumentUri" THEN NewFileUri ELSE NoUri
      [] cpp.t = "boolean" -> FALSE
      [] cpp.t \in {"integer", "uinteger"} -> 0
      [] cpp.t = "decimal" -> <<0, 0>>
      [] cpp.t = "LSPAny" -> Null
      [] cpp.t = "LSPObject" -> Obj(EmptyMap)
      [] cpp.t = "LSPArray" -> Arr(<<>>)
      [] cpp.t \in {"optional", "pointer", "nullable"} -> None
      [] cpp.t = "vector" -> <<>>
      [] cpp.t = "map" -> EmptyMap
      [] cpp.t = "variant" -> <<1, Default(cpp.of[1])>>
      [] cpp.t = "tuple" -> [i \in DOMAIN cpp.of |-> Default(cpp.of[i])]
      [] cpp.t = "named" ->
            LET d == Def(cpp.name)
                fields == ToSet(AllFields(cpp.name))
                MemberOf(n) == CHOOSE f \in fields : f.name = n
                \* A constant is the initial value, that of the structure before that of a base.
                Constant(n) ==
                    IF \E f \in literalProperties(cpp.name) : f.name = n
                    THEN (CHOOSE f \in literalProperties(cpp.name) : f.name = n).constant
                    ELSE MemberOf(n).constant
                Initial(f) ==
                    IF Constant(f.name) = {} THEN Default(f.cpp)
                    ELSE IF f.optional THEN {The(Constant(f.name)).v} ELSE The(Constant(f.name)).v
            IN  CASE d.def = "alias" -> Default(d.cpp)
                  [] d.def = "enumeration" -> [index |-> MaxValue(d), custom |-> Default(Cpp(d.base))]
                  [] OTHER -> [n \in {f.name : f \in fields} |-> Initial(MemberOf(n))]

-----------------------------------------------------------------------------
(* toJson.                                                                 *)

ToNumber(n) == IF Fits(n) THEN Int32(n) ELSE Decimal(Normal(n, 0))

RECURSIVE toJson(_, _)
toJson(cpp, x) ==
    CASE cpp.t \in TextKinds -> Str(x)
      [] cpp.t \in UriKinds -> Str(toString(x))
      [] cpp.t = "boolean" -> Bool(x)
      [] cpp.t \in {"integer", "uinteger"} -> ToNumber(x)
      [] cpp.t = "decimal" -> Decimal(x)
      [] cpp.t \in JsonKinds -> x
      [] cpp.t \in {"optional", "pointer", "nullable"} -> IF x = None THEN Null ELSE toJson(cpp.of, The(x))
      [] cpp.t = "vector" -> Arr([i \in DOMAIN x |-> toJson(cpp.of, x[i])])
      [] cpp.t = "tuple" -> Arr([i \in DOMAIN x |-> toJson(cpp.of[i], x[i])])
      [] cpp.t = "map" ->
            LET KeyText(k) == IF cpp.key.t \in UriKinds THEN toString(k) ELSE k
                KeyOf(s) == CHOOSE k \in DOMAIN x : KeyText(k) = s
            IN  Obj([s \in {KeyText(k) : k \in DOMAIN x} |-> toJson(cpp.of, x[KeyOf(s)])])
      [] cpp.t = "variant" -> toJson(cpp.of[x[1]], x[2])
      [] cpp.t = "named" ->
            LET d == Def(cpp.name)
                fields == AllFields(cpp.name)
                written == {i \in DOMAIN fields : ~fields[i].optional \/ x[fields[i].name] # None}
                FieldOf(k) == fields[CHOOSE i \in DOMAIN fields : K[fields[i].name] = k]
            IN  CASE d.def = "alias" -> toJson(d.cpp, x)
                  [] d.def = "enumeration" ->
                        toJson(Cpp(d.base), IF x.index = MaxValue(d) THEN x.custom ELSE d.values[x.index + 1])
                  [] OTHER ->
                        Obj([k \in {K[fields[i].name] : i \in written} |->
                                toJson(FieldOf(k).cpp, x[FieldOf(k).name])])
-----------------------------------------------------------------------------
(* canDeserializeTypeFromJson: how fromJson chooses the alternative of a   *)
(* variant. Only the first element of an array is looked at; a tuple needs *)
(* one element that fits; of an object only the names are looked at. A Uri *)
(* and the JSON types are taken for structures without members.            *)

RECURSIVE canDeserialize(_, _)
canDeserialize(cpp, j) ==
    CASE cpp.t = "null" -> j = Null
      [] cpp.t = "boolean" -> j.t = "bool"
      [] cpp.t \in {"integer", "uinteger", "decimal"} -> IsNumber(j)
      [] cpp.t \in TextKinds -> j.t = "str"
      [] cpp.t = "nullable" -> j = Null \/ canDeserialize(cpp.of, j)
      [] cpp.t = "vector" -> j.t = "arr" /\ (j.v = <<>> \/ canDeserialize(cpp.of, j.v[1]))
      [] cpp.t = "tuple" ->
            /\ j.t = "arr"
            /\ Len(j.v) = Len(cpp.of)
            /\ \E i \in DOMAIN cpp.of : canDeserialize(cpp.of[i], j.v[i])
      [] cpp.t = "variant" -> \E i \in DOMAIN cpp.of : canDeserialize(cpp.of[i], j)
      [] cpp.t = "named" ->
            LET d == Def(cpp.name)
            IN  CASE d.def = "alias" -> canDeserialize(d.cpp, j)
                  [] d.def = "enumeration" -> canDeserialize(Cpp(d.base), j)
                  [] OTHER -> /\ j.t = "obj"
                              /\ \A f \in literalProperties(cpp.name) :
                                    K[f.name] \in DOMAIN j.v => j.v[K[f.name]] = The(f.constant)
                              /\ {K[n] : n \in d.required} \subseteq DOMAIN j.v
      [] OTHER -> j.t = "obj"

\* The last alternative that fits.
variantIndex_Last(cpp, j) ==
    LET fits == {i \in DOMAIN cpp.of : canDeserialize(cpp.of[i], j)}
    IN  IF fits = {} THEN 0 ELSE CHOOSE i \in fits : \A k \in fits : i >= k
\* deserializableVariantIndex: 0 when there is none.
variantIndex(cpp, j) ==
    LET fits == {i \in DOMAIN cpp.of : canDeserialize(cpp.of[i], j)}
    IN  IF fits = {} THEN 0 ELSE CHOOSE i \in fits : \A k \in fits : i <= k

-----------------------------------------------------------------------------
(* fromJson into a new object.                                             *)

\* A number that does not fit in an unsigned int is undefined behaviour too.
ToUnsigned(x) ==
    LET n == IF x.t = "int" THEN x.v ELSE Truncated(x.v)
    IN  IF n \in 0 .. 2 * IntMax + 1 THEN {n} ELSE 0 .. 2 * IntMax + 1

RECURSIVE fromJson(_, _), ReadStructure(_, _, _), ReadFields(_, _, _)
fromJson(cpp, j) ==
    CASE cpp.t \in TextKinds -> Typed({j}, "str")
      [] cpp.t \in UriKinds -> {ToUri(cpp.t, parse(s)) : s \in Typed({j}, "str")}
      [] cpp.t = "boolean" -> Typed({j}, "bool")
      [] cpp.t = "integer" -> IF IsNumber(j) THEN ToInteger(j) ELSE {}
      [] cpp.t = "uinteger" -> IF IsNumber(j) THEN ToUnsigned(j) ELSE {}
      [] cpp.t = "decimal" -> Typed({j}, "dec") \union {Normal(n, 0) : n \in Typed({j}, "int")}
      [] cpp.t = "null" -> {Default(cpp)}
      [] cpp.t = "LSPAny" -> {j}
      [] cpp.t = "LSPObject" -> {Obj(m) : m \in Typed({j}, "obj")}
      [] cpp.t = "LSPArray" -> {Arr(a) : a \in Typed({j}, "arr")}
      [] cpp.t = "nullable" -> IF j = Null THEN {None} ELSE {{x} : x \in fromJson(cpp.of, j)}
      [] cpp.t \in {"optional", "pointer"} ->
            IF j = Null /\ ~canDeserialize(cpp.of, j) THEN {None} ELSE {{x} : x \in fromJson(cpp.of, j)}
      [] cpp.t = "vector" ->
            IF j.t # "arr" THEN {} ELSE Sequences([i \in DOMAIN j.v |-> fromJson(cpp.of, j.v[i])])
      [] cpp.t = "tuple" ->
            IF j.t # "arr" THEN {}
            ELSE IF Len(j.v) # Len(cpp.of) THEN {Default(cpp)}
            ELSE Sequences([i \in DOMAIN j.v |-> fromJson(cpp.of[i], j.v[i])])
      [] cpp.t = "map" ->
            \* A key that is not a valid Uri is left out.
            LET KeyOf(s) == ToUri(cpp.key.t, parse(s))
                isUri == cpp.key.t \in UriKinds
                kept == {s \in DOMAIN j.v : isUri => isValid(KeyOf(s))}
                ValuesAt(s) == fromJson(cpp.of, j.v[s])
                values == {m \in [kept -> UNION {ValuesAt(s) : s \in kept}] : \A s \in kept : m[s] \in ValuesAt(s)}
            IN  IF j.t # "obj" THEN {}
                ELSE IF ~isUri THEN values
                ELSE {[u \in {KeyOf(s) : s \in kept} |-> m[CHOOSE s \in kept : KeyOf(s) = u]] : m \in values}
      [] cpp.t = "variant" ->
            LET alt == variantIndex(cpp, j)
            IN  IF alt = 0 THEN {Default(cpp)}
                ELSE {<<alt, x>> : x \in fromJson(cpp.of[alt], j)}
      [] cpp.t = "named" ->
            LET d == Def(cpp.name)
                IndexOf(x) == CHOOSE i \in DOMAIN d.values : d.values[i] = x
            IN  CASE d.def = "alias" -> fromJson(d.cpp, j)
                  [] d.def = "enumeration" ->
                        {IF x \in Range(d.values) THEN [index |-> IndexOf(x) - 1, custom |-> Default(Cpp(d.base))]
                         ELSE [index |-> MaxValue(d), custom |-> x] : x \in fromJson(Cpp(d.base), j)}
                  [] OTHER -> IF j.t = "obj" THEN ReadStructure(cpp.name, j, Default(cpp)) ELSE {}

\* The base classes first, then the members, into the object x.
ReadStructure(name, j, x) ==
    LET Base(objects, base) == UNION {ReadStructure(base, j, o) : o \in objects}
    IN  UNION {ReadFields(Def(name).fields, j, o) : o \in FoldLeft(Base, {x}, Def(name).bases)}

\* A required member that is missing throws. A constant that has another value ends the
\* function: the members behind it stay as they are.
ReadFields(fields, j, x) ==
    IF fields = <<>> THEN {x}
    ELSE LET f == Head(fields)
             isThere == K[f.name] \in DOMAIN j.v
             values == IF IF f.optional THEN ~isThere ELSE f.inherited THEN {x[f.name]}
                       ELSE IF ~isThere THEN {}
                       ELSE fromJson(f.cpp, j.v[K[f.name]])
             IsOther(v) == f.constant # {} /\ v # IF f.optional THEN {The(f.constant).v} ELSE The(f.constant).v
         IN  UNION {IF IsOther(v) THEN {[x EXCEPT ![f.name] = v]}
                    ELSE ReadFields(Tail(fields), j, [x EXCEPT ![f.name] = v]) : v \in values}
=============================================================================
