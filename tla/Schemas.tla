------------------------------- MODULE Schemas -----------------------------
(***************************************************************************)
(* The types and TypeDefs of runtime schemas (src/cpp/inc/bond/core/       *)
(* schema.h), whose construction is module SchemaCache, and bond::Validate *)
(* (core/validate.h, core/detail/validate.h): whether a payload of one     *)
(* schema can be read as another.                                          *)
(*                                                                         *)
(* A TypeDef is [id, struct_def, bonded, element, key]; empty element and  *)
(* key are <<>>.  struct_def is an index of the vector of StructDefs, from *)
(* 1.                                                                      *)
(***************************************************************************)
EXTENDS Serializer, SchemaCache

CONSTANT
    SchemaObjects   \* objects of the Roots: {<<name, value>>}

VARIABLE
    verdict         \* the Validate that has just returned: [src, dst, result]

schemaVars == <<cacheVars, verdict>>

(* The hierarchy of a struct, root base first, as the parsers see it.      *)
RECURSIVE Lineage(_)
Lineage(n) ==
    (IF Decls[n].base = "none" THEN <<>> ELSE Lineage(Decls[n].base))
        \o <<Decls[n].fields>>

ASSUME SchemasAssumption ==
    /\ \A n \in DOMAIN Decls : Structs[n] = Lineage(n)
    /\ \A o \in SchemaObjects : o[1] \in Roots

NoVerdict == [src |-> "none", dst |-> "none", result |-> "none"]

SchemasInit == CacheInit /\ verdict = NoVerdict

-----------------------------------------------------------------------------
(* Types: the values of StructIn and TypeDef.                              *)
RECURSIVE StructOf(_)
StructOf(T) ==
    CASE T[1] \in {"struct", "bonded"} -> {T[2]}
      [] T[1] \in {"list", "set", "nullable"} -> StructOf(T[2])
      [] T[1] = "map" -> StructOf(T[3])
      [] OTHER -> {}

Plain(id) == [id |-> id, struct_def |-> 0, bonded |-> FALSE, element |-> <<>>, key |-> <<>>]

(* GetTypeDef<T>, with the index that GetStructDef returned.               *)
RECURSIVE GetTypeDef(_, _)
GetTypeDef(T, index) ==
    CASE T[1] \in Basics -> Plain(T[1])
      [] T[1] = "map" -> [Plain("map") EXCEPT !.key = <<GetTypeDef(T[2], index)>>, !.element = <<GetTypeDef(T[3], index)>>]
      [] IsContainer(T) /\ T[1] # "map" -> [Plain(TypeId(T)) EXCEPT !.element = <<GetTypeDef(Element(T), index)>>]
      [] T[1] \in {"struct", "bonded"} ->
           [Plain("struct") EXCEPT !.struct_def = index, !.bonded = (T[1] = "bonded")]

-----------------------------------------------------------------------------
(* bond::Validate.  r is [ok, identical]; d is a schema: the structs and   *)
(* the TypeDef that a RuntimeSchema points at.                             *)
(* Mutant: any two integers are compatible.                                *)
ValidateAnyInteger(s, d) == s = d \/ (s \in Unsigned \cup Signed /\ d \in Unsigned \cup Signed)

ValidateTypeId(s, d) ==
    CASE s \in {"uint8", "uint16", "uint32"} /\ d \in {"uint16", "uint32", "uint64"} -> BT[s] <= BT[d]
      [] s \in {"int8", "int16", "int32"} /\ d \in {"int16", "int32", "int64"} -> BT[s] <= BT[d]
      [] s = "float" -> d = "double"
      [] OTHER -> s = d

WithType(d, type) == [d EXCEPT !.type = type]
GetStruct(d) == d.structs[d.type.struct_def]
HasBase(d) == GetStruct(d).base # <<>>
GetBaseSchema(d) == WithType(d, GetStruct(d).base[1])

RECURSIVE SchemaDepth(_)
SchemaDepth(d) == IF HasBase(d) THEN 1 + SchemaDepth(GetBaseSchema(d)) ELSE 1

Valid(identical) == [ok |-> TRUE, identical |-> identical]
Incompatible == [ok |-> FALSE, identical |-> FALSE]

RECURSIVE ValidateType(_, _, _, _), ValidateFields(_, _, _, _, _), ValidateStruct(_, _, _, _)

(* Element and key types, where dst has them.                              *)
ValidatePart(src, dst, ps, pd, list, identical) ==
    IF pd = <<>> THEN Valid(identical) ELSE ValidateType(WithType(src, ps[1]), WithType(dst, pd[1]), list, identical)

ValidateType(src, dst, list, identical) ==
    LET s == src.type  d == dst.type
        promoted == ValidateTypeId(s.id, d.id)
        same == identical /\ s.bonded = d.bonded
        elements == ValidatePart(src, dst, s.element, d.element, list, same)
    IN  CASE s.id # d.id -> IF promoted THEN Valid(FALSE) ELSE Incompatible
          [] s.id = d.id /\ d.id = "struct" /\ ~d.bonded -> ValidateStruct(src, dst, list, same)
          [] s.id = d.id /\ ~(d.id = "struct" /\ ~d.bonded) ->
               IF elements.ok THEN ValidatePart(src, dst, s.key, d.key, list, elements.identical) ELSE elements

(* fs and fd are the fields not yet compared, in the order of their ids.   *)
ValidateField(src, dst, fs, fd, list, identical) ==
    IF Head(fd).modifier = "Required" /\ Head(fs).modifier = "Optional" THEN Incompatible
    ELSE ValidateType(WithType(src, Head(fs).type), WithType(dst, Head(fd).type), list, identical)

ValidateFields(sd, fs, fd, list, identical) ==
    LET both == ValidateField(sd[1], sd[2], fs, fd, list, identical) IN
    CASE fd = <<>> -> Valid(identical)
      [] fd # <<>> /\ fs # <<>> /\ Head(fs).id < Head(fd).id -> ValidateFields(sd, Tail(fs), fd, list, identical)
      [] fd # <<>> /\ (fs = <<>> \/ Head(fs).id > Head(fd).id) ->
           IF Head(fd).modifier = "Required" THEN Incompatible ELSE ValidateFields(sd, fs, Tail(fd), list, identical)
      [] fd # <<>> /\ fs # <<>> /\ Head(fs).id = Head(fd).id ->
           IF both.ok THEN ValidateFields(sd, Tail(fs), Tail(fd), list, both.identical) ELSE both

SameFields(src, dst, list, identical) ==
    LET fs == GetStruct(src).fields  fd == GetStruct(dst).fields
    IN  ValidateFields(<<src, dst>>, fs, fd, list, identical /\ Len(fs) = Len(fd))

(* list holds the pairs of structs being compared: a pair met again inside *)
(* itself is settled by the comparison under way.                          *)
ValidateStruct(src, dst, list, identical) ==
    LET pair == <<dst.type.struct_def, src.type.struct_def>>
        next == list \cup {pair}
        bases == IF HasBase(dst) THEN ValidateStruct(GetBaseSchema(src), GetBaseSchema(dst), next, identical)
                 ELSE Valid(identical)
    IN  CASE pair \in list -> Valid(identical)
          [] pair \notin list /\ SchemaDepth(dst) > SchemaDepth(src) -> Incompatible
          [] pair \notin list /\ SchemaDepth(dst) < SchemaDepth(src) ->
               ValidateStruct(GetBaseSchema(src), dst, next, FALSE)
          [] pair \notin list /\ SchemaDepth(dst) = SchemaDepth(src) ->
               IF bases.ok THEN SameFields(src, dst, next, bases.identical) ELSE bases

(* RuntimeSchema(const SchemaDef&): its root is the first struct.          *)
RuntimeSchema(n) == [structs |-> cache[n].structs, type |-> [Plain("struct") EXCEPT !.struct_def = 1]]

Validate(src, dst) ==
    LET r == ValidateStruct(RuntimeSchema(src), RuntimeSchema(dst), {}, TRUE)
    IN  CASE ~r.ok -> "incompatible" [] r.ok /\ r.identical -> "identical" [] r.ok /\ ~r.identical -> "compatible"

ValidateSchemas(t) ==
    \E src, dst \in Roots :
        /\ getting[t] = "idle" /\ OnceReturns(src) /\ OnceReturns(dst)
        /\ verdict' = [src |-> src, dst |-> dst, result |-> Validate(src, dst)]
        /\ UNCHANGED cacheVars

SchemasNext ==
    \/ CacheNext /\ verdict' = NoVerdict
    \/ \E t \in Threads : ValidateSchemas(t)

SchemasSpec == SchemasInit /\ [][SchemasNext]_schemaVars /\ CacheFairness

-----------------------------------------------------------------------------
(* What a value of type T becomes in a variable of type X that it was      *)
(* validated against and that has the value old.                           *)
RECURSIVE Converted(_, _, _, _)
Converted(T, X, v, old) ==
    LET E(x) == Converted(Element(T), Element(X), x, Default(Element(X)))
        S == Structs[T[2]]  D == Structs[X[2]]
        Field(l, id) == {f \in Range(S[l]) : f.id = id}
        Type(l, id) == (CHOOSE f \in Range(D[l]) : f.id = id).type
    IN  CASE X[1] \in Basics \cup {"blob"} -> v
          [] X[1] = "nullable" -> IF v = <<>> THEN <<>> ELSE <<E(v[1])>>
          [] X[1] = "list" -> [i \in DOMAIN v |-> E(v[i])]
          [] X[1] = "set" -> {E(x) : x \in v}
          [] X[1] = "map" -> [k \in DOMAIN v |-> E(v[k])]
          [] X[1] = "struct" -> [l \in DOMAIN D |-> [id \in {f.id : f \in Range(D[l])} |->
                 IF Field(l, id) = {} THEN old[l][id]
                 ELSE Converted((CHOOSE f \in Field(l, id) : TRUE).type, Type(l, id), v[l][id], old[l][id])]]

(* The object o, written with pr, is read into a dst, to its end: T is the *)
(* type that the reader believes the payload to have.                      *)
IsRead(pr, o, T, dst, rt) ==
    LET S == <<"struct", o[1]>>  X == <<"struct", dst>> IN
    \E calls \in {Calls(S, o[2])} : \E payload \in {Emit(pr, calls)} :
    \E r \in {Deserialize([pr |-> pr, b |-> payload, rt |-> rt], 1, T, X, Default(X))} :
        r.ok /\ r.p = Len(payload) + 1 /\ r.v = Converted(S, X, o[2], Default(X))

SourceObjects == {o \in SchemaObjects : o[1] = verdict.src}

(* The fields of a level of a struct that are in every payload of it: not  *)
(* the ones that a writer may omit.                                        *)
AlwaysWritten(n, l) == {f.id : f \in {g \in Range(Structs[n][l]) : g.modifier # "Optional"}}

SameIds(s, d) ==
    /\ Len(Structs[s]) = Len(Structs[d])
    /\ \A l \in DOMAIN Structs[s] : {f.id : f \in Range(Structs[s][l])} = {f.id : f \in Range(Structs[d][l])}

(* "'true' if schemas are wire-format equivalent" (validate.h): a payload  *)
(* of the source is read with the schema of the destination, which a       *)
(* protocol without tags depends on.                                       *)
IdenticalIsEquivalent ==
    verdict.result = "identical" =>
        \A o \in SourceObjects : \A pr \in Protocols :
            IsRead(pr, o, <<"struct", verdict.dst>>, verdict.dst, FALSE)

(* What Validate promises when it does not throw: any payload in the       *)
(* source schema, in any protocol, is read into the destination with the   *)
(* source's runtime schema, to its end, every field of the destination     *)
(* having the value it has in the source or else its default; no required  *)
(* field of the destination can be missing from it; and where the structs  *)
(* have fields of the same ids, a true result does mean that the wire      *)
(* formats are equivalent, through bases, containers and structs that      *)
(* contain themselves (Validate, ValidateStruct, ValidateType).            *)
ValidatedIsReadable ==
    verdict.result \in {"compatible", "identical"} =>
        /\ \A o \in SourceObjects : \A pr \in Protocols : IsRead(pr, o, <<"struct", o[1]>>, verdict.dst, TRUE)
        /\ \A l \in DOMAIN Structs[verdict.dst] : \A f \in Range(Structs[verdict.dst][l]) :
               f.modifier = "Required" => f.id \in AlwaysWritten(verdict.src, l)
        /\ SameIds(verdict.src, verdict.dst) => IdenticalIsEquivalent
=============================================================================
