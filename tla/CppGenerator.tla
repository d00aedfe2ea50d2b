---------------------------- MODULE CppGenerator ----------------------------
(***************************************************************************)
(* The generator of the LSP types (src/lspgen/lspgen.cpp): it reads the    *)
(* metamodel and writes a C++ type for every type in it. The types a type  *)
(* uses are generated first, by recursion, which is the stack of calls     *)
(* here. What is written is kept as records, not as text.                  *)
(*                                                                         *)
(* A metamodel is [names, types]: the names in the order in which they are *)
(* read, and for each a definition:                                        *)
(*   [def |-> "structure", properties, extends, mixins]                    *)
(*   [def |-> "alias", type]  and  [def |-> "enumeration", base, values]   *)
(* A type has a category cat: "base" (kind), "reference" (name), "array"   *)
(* (element), "map" (key, value), "or", "and" and "tuple" (items),         *)
(* "literal" (properties), or "constant" (json), one value of a base type. *)
(* The name that is made for a structure literal is the sequence of the    *)
(* names it is made from.                                                  *)
(***************************************************************************)
EXTENDS Naturals, Sequences, SequencesExt

VARIABLES
    model,        \* m_metaModel
    processed,    \* m_processedTypes
    calls,        \* the calls of generate that are running, the innermost last
    header        \* m_typesHeaderFileContent and the boilerplate: what has been written

generatorVars == <<model, processed, calls, header>>

NoModel == [names |-> <<>>, types |-> <<>>]
TypeOf(name) == model.types[name]
m_typesBeingProcessed == {calls[i].name : i \in {i \in DOMAIN calls : calls[i].isNamed}}

-----------------------------------------------------------------------------
(* extract.                                                                *)

\* extractStructureProperties: the properties that are not optional come first.
Extracted(properties) ==
    SelectSeq(properties, LAMBDA p : ~p.optional) \o SelectSeq(properties, LAMBDA p : p.optional)

Properties(type) == Extracted(type.properties)
Names(properties) == [i \in DOMAIN properties |-> properties[i].name]

\* Consecutive structure literals with the same properties become one. A property is
\* optional in it that is so in one of them.
Merge2(t1, t2) ==
    [t1 EXCEPT !.properties = [i \in DOMAIN Properties(t1) |->
        [Properties(t1)[i] EXCEPT !.optional = @ \/ Properties(t2)[i].optional]]]
Merged(literals) ==
    LET Step(done, t) ==
            IF done # <<>> /\ Names(Last(done).properties) = Names(Properties(t))
            THEN Append(Front(done), Merge2(Last(done), t))
            ELSE Append(done, [t EXCEPT !.properties = Properties(t)])
    IN  FoldLeft(Step, <<>>, literals)

Items(type) ==
    IF type.cat # "or" THEN type.items
    ELSE SelectSeq(type.items, LAMBDA t : t.cat # "literal")
         \o Merged(SelectSeq(type.items, LAMBDA t : t.cat = "literal"))

-----------------------------------------------------------------------------
(* The types that generateType generates for a type, in their order.       *)

Structure(type) ==
    [def |-> "structure", properties |-> type.properties, extends |-> <<>>, mixins |-> <<>>]
Named(name) == [isNamed |-> TRUE, name |-> <<name>>]
Literal(type, baseName) == [isNamed |-> FALSE, name |-> baseName, type |-> type]

\* The name of a structure literal among several types has its properties in it that are
\* not optional.
Suffix(type) ==
    IF type.cat = "literal" THEN Names(SelectSeq(Properties(type), LAMBDA p : ~p.optional)) ELSE <<>>

RECURSIVE Needed(_, _)
Needed(type, baseName) ==
    CASE type.cat = "reference" -> <<Named(type.name)>>
      [] type.cat = "array" -> Needed(type.element, baseName)
      [] type.cat = "map" -> Needed(type.key, baseName) \o Needed(type.value, baseName)
      [] type.cat \in {"or", "and", "tuple"} ->
            FlattenSeq([i \in DOMAIN Items(type) |->
                           Needed(Items(type)[i], baseName \o Suffix(Items(type)[i]))])
      [] type.cat = "literal" -> <<Literal(type, baseName)>>
      [] OTHER -> <<>>

NeededBy(name, definition) ==
    CASE definition.def = "structure" ->
            [i \in DOMAIN definition.extends |-> Named(definition.extends[i])]
            \o [i \in DOMAIN definition.mixins |-> Named(definition.mixins[i])]
            \o LET own == Extracted(definition.properties)
               IN  FlattenSeq([i \in DOMAIN own |-> Needed(own[i].type, Append(name, own[i].name))])
      [] definition.def = "alias" -> Needed(definition.type, name)
      [] OTHER -> <<>>

-----------------------------------------------------------------------------
(* cppTypeName.                                                            *)

Cpp(t) == [t |-> t]
CppOf(t, of) == [t |-> t, of |-> of]

IsNullType(type) == type.cat = "base" /\ type.kind = "null"
IsReferenceTo(type, name) == type.cat = "reference" /\ type.name = name

RECURSIVE CppType(_, _)
CppType(type, baseName) ==
    CASE type.cat = "base" -> Cpp(type.kind)
      [] type.cat = "constant" -> Cpp(type.kind)
      [] type.cat = "reference" ->
            IF type.name \in {"LSPAny", "LSPObject", "LSPArray"} THEN Cpp(type.name)
            ELSE [t |-> "named", name |-> <<type.name>>]
      [] type.cat = "array" ->
            IF IsReferenceTo(type.element, "LSPAny") THEN Cpp("LSPArray")
            ELSE CppOf("vector", CppType(type.element, baseName))
      [] type.cat = "map" ->
            [t |-> "map", key |-> CppType(type.key, baseName), of |-> CppType(type.value, baseName)]
      [] type.cat = "literal" -> [t |-> "named", name |-> baseName]
      [] type.cat = "and" -> Cpp("LSPObject")
      [] type.cat = "tuple" ->
            CppOf("tuple", [i \in DOMAIN type.items |->
                               CppType(type.items[i], baseName \o Suffix(type.items[i]))])
      [] type.cat = "or" ->
            LET kept == SelectSeq(Items(type), LAMBDA t : ~IsNullType(t))
                of == [i \in DOMAIN kept |-> CppType(kept[i], baseName \o Suffix(kept[i]))]
                one == IF Len(of) = 1 THEN of[1] ELSE CppOf("variant", of)
            IN  IF Len(kept) < Len(Items(type)) THEN CppOf("nullable", one) ELSE one

OptionalCpp_NoPointer(type, baseName) ==    \* whether the type is being generated or not
    CppOf("optional", CppType(type, baseName))
\* An optional reference to a type that is being generated is a pointer to it.
OptionalCpp(type, baseName) ==
    CppOf(IF type.cat = "reference" /\ <<type.name>> \in m_typesBeingProcessed THEN "pointer" ELSE "optional",
          CppType(type, baseName))

-----------------------------------------------------------------------------
(* generate(Structure): the members with what their lines in toJson and    *)
(* fromJson do, requiredProperties and literalProperties.                  *)

Constants(type) == IF type.cat = "constant" THEN {type.json} ELSE {}

\* generateStructureProperties for the properties of the structure or of a mixin, its owner.
\* An inherited one is a constant for a member that the base class has.
Fields(owner, properties, inherited) ==
    LET Field(p) ==
            [name |-> p.name,
             cpp |-> IF p.optional THEN OptionalCpp(p.type, Append(owner, p.name))
                     ELSE CppType(p.type, Append(owner, p.name)),
             optional |-> p.optional,
             constant |-> Constants(p.type),
             inherited |-> p.type.cat \in {"constant", "literal"} /\ p.name \in inherited]
    IN  [i \in DOMAIN properties |-> Field(properties[i])]

\* The properties of the base class are required in the derived one too, those of its
\* own base classes and mixins are not.
WriteStructure(name, definition) ==
    LET Own(n) == Extracted(TypeOf(n).properties)
        bases == [i \in DOMAIN definition.extends |-> Own(definition.extends[i])]
        inherited == IF bases = <<>> THEN {} ELSE ToSet(Names(bases[1]))
        OfMixin(n) == Fields(<<n>>, Own(n), inherited)
        fields == FlattenSeq([i \in DOMAIN definition.mixins |-> OfMixin(definition.mixins[i])])
                  \o Fields(name, Extracted(definition.properties), inherited)
        IsRequired(p) == ~p.optional /\ p.constant = {}
    IN  [name |-> name,
         def |-> "structure",
         bases |-> [i \in DOMAIN definition.extends |-> <<definition.extends[i]>>],
         fields |-> fields,
         required |-> ToSet(Names(SelectSeq(FlattenSeq(bases), LAMBDA p : ~p.optional)))
                      \union ToSet(Names(SelectSeq(fields, IsRequired)))]

Write(name, definition) ==
    CASE definition.def = "structure" -> WriteStructure(name, definition)
      [] definition.def = "alias" ->
            [name |-> name, def |-> "alias", cpp |-> CppType(definition.type, name)]
      [] OTHER ->
            [name |-> name, def |-> "enumeration", base |-> definition.base, values |-> definition.values]

-----------------------------------------------------------------------------
(* generateTypes and generateNamedType.                                    *)

GeneratorInit(m) ==
    /\ model = m
    /\ processed = {<<"LSPArray">>, <<"LSPObject">>, <<"LSPAny">>}
    /\ calls = <<>>
    /\ header = <<>>

Call(name, definition, isNamed) ==
    [name |-> name, def |-> definition, isNamed |-> isNamed, needs |-> NeededBy(name, definition)]

\* generateNamedType(name): nothing when it was called with that name before.
Enter(stack, name) ==
    IF name \in processed THEN calls' = stack /\ UNCHANGED processed
    ELSE /\ processed' = processed \union {name}
         /\ calls' = Append(stack, Call(name, TypeOf(name[1]), TRUE))

Missing == {i \in DOMAIN model.names : <<model.names[i]>> \notin processed}

generateTypes ==
    /\ calls = <<>>
    /\ Missing # {}
    /\ Enter(<<>>, <<model.names[CHOOSE i \in Missing : \A j \in Missing : i <= j]>>)
    /\ UNCHANGED <<model, header>>

Waiting == [Last(calls) EXCEPT !.needs = Tail(@)]

generateType ==
    /\ calls # <<>>
    /\ Last(calls).needs # <<>>
    /\ LET next == Head(Last(calls).needs)
           stack == Append(Front(calls), Waiting)
       IN  IF next.isNamed THEN Enter(stack, next.name)
           ELSE /\ calls' = Append(stack, Call(next.name, Structure(next.type), FALSE))
                /\ UNCHANGED processed
    /\ UNCHANGED <<model, header>>

writeDefinition ==
    /\ calls # <<>>
    /\ Last(calls).needs = <<>>
    /\ header' = Append(header, Write(Last(calls).name, Last(calls).def))
    /\ calls' = Front(calls)
    /\ UNCHANGED <<model, processed>>

Generate == generateTypes \/ generateType \/ writeDefinition
Generated == calls = <<>> /\ Missing = {}

-----------------------------------------------------------------------------
(* The names a C++ type uses: those that must be complete, and those that  *)
(* may be the type that is being defined, behind a pointer or in a vector. *)

RECURSIVE Uses(_, _)
Uses(cpp, complete) ==
    CASE cpp.t = "named" -> IF complete THEN {cpp.name} ELSE {}
      [] cpp.t \in {"vector", "pointer"} ->
            IF complete THEN {} ELSE Uses(cpp.of, TRUE) \union Uses(cpp.of, FALSE)
      [] cpp.t \in {"variant", "tuple"} -> UNION {Uses(cpp.of[i], complete) : i \in DOMAIN cpp.of}
      [] cpp.t \in {"map", "optional", "nullable"} -> Uses(cpp.of, complete)
      [] OTHER -> {}

UsedBy(d, complete) ==
    CASE d.def = "structure" ->
            UNION {Uses(d.fields[i].cpp, complete) : i \in DOMAIN d.fields}
            \union IF complete THEN ToSet(d.bases) ELSE {}
      [] d.def = "alias" -> Uses(d.cpp, complete)
      [] OTHER -> {}

\* The names that the i-th definition uses where they are not complete: only a structure may
\* use itself, behind a pointer or in a vector.
UsedTooEarly(i) ==
    LET before == {header[j].name : j \in 1 .. i - 1}
        itself == IF header[i].def = "structure" THEN {header[i].name} ELSE {}
    IN  (UsedBy(header[i], TRUE) \ before) \union (UsedBy(header[i], FALSE) \ (before \union itself))

\* The compiler takes the header.
Compiles == \A i \in DOMAIN header : UsedTooEarly(i) = {}
=============================================================================
