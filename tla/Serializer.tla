------------------------------ MODULE Serializer ----------------------------
(***************************************************************************)
(* The transform Serializer (src/cpp/inc/bond/core/transforms.h) as the    *)
(* sequence of calls it makes of a protocol writer, for an object and for  *)
(* a payload that a parser drives through it.                              *)
(***************************************************************************)
EXTENDS Values

-----------------------------------------------------------------------------
(* The calls that Serializer makes for a value.                            *)
IsDefault(f, v) ==                                          \* is_default, structs have none
    /\ f.type[1] # "struct"
    /\ IF IsContainer(f.type) THEN v = Default(f.type) ELSE v = f.default

(* detail::omit_field: an optional field that has its default value.       *)
Omittable(f, v) == f.modifier = "Optional" /\ IsDefault(f, v)

(* Serializer::Begin for a struct and its bases, the derived struct first. *)
Begins(S) == [l \in DOMAIN S |-> [op |-> "StructBegin", base |-> l > 1]]

End(base) == <<[op |-> "StructEnd", base |-> base]>>

RECURSIVE Calls(_, _), FieldCalls(_, _)
Calls(T, v) ==
    CASE T[1] \in Basics -> <<[op |-> "Write", t |-> T[1], v |-> v]>>
      [] T[1] = "blob" -> <<[op |-> "ContainerBegin", t |-> "int8", n |-> Len(v)], [op |-> "WriteBlob", v |-> v]>>
      [] T[1] \in {"list", "nullable"} ->
           <<[op |-> "ContainerBegin", t |-> TypeId(T[2]), n |-> Len(v)]>>
              \o FlattenSeq([i \in DOMAIN v |-> Calls(T[2], v[i])])
      [] T[1] = "set" ->
           LET s == SetToSortSeq(v, <) IN
           <<[op |-> "ContainerBegin", t |-> TypeId(T[2]), n |-> Len(s)]>>
              \o FlattenSeq([i \in DOMAIN s |-> Calls(T[2], s[i])])
      [] T[1] = "map" ->
           LET s == SetToSortSeq(DOMAIN v, <) IN
           <<[op |-> "MapBegin", k |-> TypeId(T[2]), t |-> TypeId(T[3]), n |-> Len(s)]>>
              \o FlattenSeq([i \in DOMAIN s |-> Calls(T[2], s[i]) \o Calls(T[3], v[s[i]])])
      [] T[1] = "struct" ->
           LET S == Structs[T[2]] IN
           Begins(S)
              \o FlattenSeq([l \in DOMAIN S |-> FieldCalls(S[l], v[l])
                                                \o End(l < Len(S))])

(* Serializer::Field: a writer that may omit fields is not called for an   *)
(* optional field that has its default value.                              *)
FieldCalls(fs, v) ==
    FlattenSeq([i \in DOMAIN fs |->
        <<[op |-> "Field", id |-> fs[i].id, t |-> TypeId(fs[i].type),
           omit |-> Omittable(fs[i], v[fs[i].id]),
           value |-> Calls(fs[i].type, v[fs[i].id])]>>])

(* WriteFieldOmitted: SimpleBinary writes the default value, the tagged    *)
(* protocols nothing.                                                      *)
WriteFieldOmitted(pr, f) ==
    IF pr \in Tagged THEN <<>> ELSE Simple!WriteFieldOmitted(Version(pr), TypeId(f.type), f.default)

(* The bytes of a call, for the calls that emit something of their own.    *)
Bytes(pr, c) ==
    CASE c.op = "Write" -> WriteBasic(pr, c.t, c.v)
      [] c.op = "WriteBlob" -> FlattenSeq([i \in DOMAIN c.v |-> Fixed(c.v[i], 1)])
      [] c.op = "ContainerBegin" -> WriteContainerBegin(pr, c.t, c.n)
      [] c.op = "MapBegin" -> WriteMapBegin(pr, c.k, c.t, c.n)
      [] c.op = "Field" -> WriteFieldBegin(pr, c.t, c.id)
      [] c.op = "Omitted" -> WriteFieldOmitted(pr, c.f)
      [] c.op = "StructEnd" -> WriteStructEnd(pr, c.base)

-----------------------------------------------------------------------------
(* Transcoding: the calls that Serializer makes when a parser drives it    *)
(* over a payload of type T.  Element types come from the payload; a field *)
(* of the schema that is not in the payload is passed to OmittedField, one *)
(* that is not in the schema to UnknownField.                              *)
Prefixed(cs, r) == [r EXCEPT !.v = cs \o r.v]

(* What is known of a value of which only the type id is known: struct     *)
(* Unknown has no fields.                                                  *)
UnknownType(t) ==
    CASE t = "struct" -> <<"struct", "Unknown">>
      [] t = "map" -> <<"map", <<"unknown">>, <<"unknown">> >>
      [] t \in {"list", "set"} -> <<t, <<"unknown">> >>
      [] OTHER -> <<t>>

Hierarchy(T) == IF T[2] = "Unknown" THEN << <<>> >> ELSE Structs[T[2]]

RECURSIVE Parse(_, _, _, _), ParseTagged(_, _, _, _, _, _), ParseUntagged(_, _, _, _)

(* detail::BasicTypeContainer and value<void>: the elements are of type E  *)
(* if they have E's type id t, and otherwise all that is known is t.       *)
ElementFor(E, t) == IF t = TypeId(E) THEN E ELSE UnknownType(t)

(* DeserializeContainer to a transform.                                    *)
ParseContainer(pr, b, p, T) ==
    Then(ReaderContainerBegin(pr, b, p, TypeId(Element(T))), LAMBDA h :
        LET E == ElementFor(Element(T), h.v[1]) IN
        FoldLeft(LAMBDA acc, i : Then(acc, LAMBDA a : Prefixed(a.v, Parse(pr, b, a.p, E))),
                 Ok(<<[op |-> "ContainerBegin", t |-> h.v[1], n |-> h.v[2]]>>, h.p), [i \in 1 .. h.v[2] |-> i]))

(* DeserializeMap to a transform, detail::MapByElement and MapByKey.       *)
ParseMap(pr, b, p, T) ==
    Then(ReaderMapBegin(pr, b, p, TypeId(T[2]), TypeId(T[3])), LAMBDA h :
        LET E == ElementFor(T[3], h.v[2]) IN
        FoldLeft(LAMBDA acc, i : Then(acc, LAMBDA a :
                     Then(Prefixed(a.v, Parse(pr, b, a.p, <<h.v[1]>>)), LAMBDA k : Prefixed(k.v, Parse(pr, b, k.p, E)))),
                 Ok(<<[op |-> "MapBegin", k |-> h.v[1], t |-> h.v[2], n |-> h.v[3]]>>, h.p), [i \in 1 .. h.v[3] |-> i]))

Parse(pr, b, p, T) ==
    CASE T[1] \in Basics ->
           Then(ReaderBasic(pr, b, p, T[1]), LAMBDA r : Ok(<<[op |-> "Write", t |-> T[1], v |-> r.v]>>, r.p))
      [] TypeId(T) \in {"list", "set"} -> ParseContainer(pr, b, p, T)
      [] T[1] = "map" -> ParseMap(pr, b, p, T)
      [] T[1] = "struct" /\ pr \in Untagged ->
           LET S == Structs[T[2]] IN
           Prefixed(Begins(S), ParseUntagged(pr, b, p, FlattenSeq([l \in DOMAIN S |->
               S[l] \o End(l < Len(S))])))
      [] T[1] = "struct" /\ pr \in Tagged ->
           Then(ReaderStructBegin(pr, b, p), LAMBDA r :
               Prefixed(Begins(Hierarchy(T)), ParseTagged(pr, b, r.p, Hierarchy(T), 1, 1)))

Call(id, t, value) == <<[op |-> "Field", id |-> id, t |-> t, omit |-> FALSE, value |-> value]>>

(* DynamicParser::ReadFields, ReadUnknownFields and UnknownField: i is the *)
(* next field of level l of the schema S.  The payload is at least as deep *)
(* as the schema; the levels below it are passed on with UnknownEnd.       *)
ParseTagged(pr, b, p, S, l, i) ==
    Then(ReaderFieldBegin(pr, b, p), LAMBDA h :
        LET type == h.v[1]  id == h.v[2]
            stop == type \in {"stop", "stop_base"}
            known == i <= Len(S[l])
            exact == known /\ h.v = <<TypeId(S[l][i].type), S[l][i].id>>
            T == IF exact THEN S[l][i].type ELSE UnknownType(type)
            behind == known /\ (stop \/ S[l][i].id < id)
        IN  CASE behind -> Prefixed(<<[op |-> "Omitted", f |-> S[l][i]]>>, ParseTagged(pr, b, p, S, l, i + 1))
              [] ~behind /\ ~stop ->
                   Then(Parse(pr, b, h.p, T), LAMBDA r :
                       Prefixed(Call(id, type, r.v),
                                ParseTagged(pr, b, r.p, S, l, IF known /\ id = S[l][i].id THEN i + 1 ELSE i)))
              [] ~behind /\ type = "stop_base" ->
                   Prefixed(End(TRUE), IF l < Len(S) THEN ParseTagged(pr, b, h.p, S, l + 1, 1)
                                       ELSE ParseTagged(pr, b, h.p, S, l, i))
              [] ~behind /\ type = "stop" -> Ok(End(FALSE), h.p))

ParseUntagged(pr, b, p, fs) ==
    IF fs = <<>> THEN Ok(<<>>, p)
    ELSE IF "op" \in DOMAIN Head(fs) THEN Prefixed(<<Head(fs)>>, ParseUntagged(pr, b, p, Tail(fs)))
    ELSE Then(Parse(pr, b, p, Head(fs).type), LAMBDA r :
             Prefixed(Call(Head(fs).id, TypeId(Head(fs).type), r.v), ParseUntagged(pr, b, r.p, Tail(fs))))

-----------------------------------------------------------------------------
(* The bytes that a writer ends up with for a sequence of calls, the       *)
(* length of a struct in front of it in CompactBinary v2.                  *)
RECURSIVE WriterCalls(_, _)
WriterCalls(pr, cs) ==
    FlattenSeq([i \in DOMAIN cs |->
        CASE cs[i].op # "Field" -> <<cs[i]>>
          [] cs[i].op = "Field" /\ cs[i].omit /\ pr \in Tagged -> <<>>
          [] OTHER -> <<cs[i]>> \o WriterCalls(pr, cs[i].value)])

Emit(pr, cs) ==
    FoldLeft(LAMBDA open, c :
        LET Add(o, bytes) == Append(Front(o), Last(o) \o bytes)
            body == Last(open) \o WriteStructEnd(pr, FALSE)
        IN  CASE c.op = "StructBegin" -> IF pr = "compact2" /\ ~c.base THEN Append(open, <<>>) ELSE open
              [] c.op = "StructEnd" /\ ~c.base /\ pr = "compact2" ->
                   Add(Front(open), WriteVariableUnsigned(Len(body)) \o body)
              [] c.op = "PassThrough" -> Add(open, c.bytes)
              [] OTHER -> Add(open, Bytes(pr, c)),
        << <<>> >>, WriterCalls(pr, cs))[1]

-----------------------------------------------------------------------------
(* What is expected of a read, stated over the types and the value that    *)
(* was written: v of type T is read into a variable of type X.             *)

(* What the variable gets.                                                 *)
RECURSIVE Seen(_, _, _)
Seen(T, X, v) ==
    CASE X[1] \in Basics \cup {"blob", "set"} -> v
      [] X[1] \in {"list", "nullable"} -> [i \in DOMAIN v |-> Seen(Element(T), Element(X), v[i])]
      [] X[1] = "map" -> [k \in DOMAIN v |-> Seen(T[3], X[3], v[k])]
      [] X[1] = "struct" ->
           LET S == Structs[T[2]]  XS == Structs[X[2]]  n == Above(S, XS) IN
           [l \in DOMAIN XS |-> [id \in DOMAIN Default(X)[l] |->
               LET g == CHOOSE g \in FieldOf(XS, l, id) : TRUE
                   same == {f \in FieldOf(S, l - n, id) : Matching(f.type, g.type)}
               IN  IF same = {} THEN Default(X)[l][id]
                   ELSE Seen((CHOOSE f \in same : TRUE).type, g.type, v[l - n][id])]]

(* What a schema V knows of the elements and the hierarchy of a value,     *)
(* <<"unknown">> for nothing.                                              *)
ElementView(V) == IF IsContainer(V) THEN Element(V) ELSE V
Levels(V) == IF V[1] = "struct" THEN Structs[V[2]] ELSE <<>>
FieldView(V, l, id) == LET known == FieldOf(Levels(V), l, id) IN
                       IF known = {} THEN <<"unknown">> ELSE (CHOOSE g \in known : TRUE).type

(* Whether To has to refuse it: a level of the variable that the parser    *)
(* enters has a required field that was not written.  how.from says where  *)
(* the value was written from, how.all whether a writer of a payload of    *)
(* schema V wrote the omitted fields as well, and how.entered whether all  *)
(* levels of the variable are entered or those of the payload's schema.    *)
RECURSIVE Refused(_, _, _, _, _)
Refused(how, T, V, X, v) ==
    LET S == Structs[T[2]]  XS == Structs[X[2]]  n == Above(S, XS)
        Absent(f, x) == Omittable(f, x) /\ (how.from = "tagged" \/ (how.from = "object" /\ ~how.all))
        Filled(l, g) == how.from = "tagged" /\ how.all /\ FieldView(V, l, g.id) # <<"unknown">>
        Written(l, g) == {f \in FieldOf(S, l, g.id) : Matching(f.type, g.type) /\ ~Absent(f, v[l][g.id])}
    IN  CASE Matching(T, X) /\ X[1] = "struct" ->
               \E l \in DOMAIN XS : \E g \in Range(XS[l]) :
                   \/ /\ how.entered = "all" \/ l > n
                      /\ g.modifier = "Required" /\ Written(l - n, g) = {} /\ ~Filled(l - n, g)
                   \/ \E f \in Written(l - n, g) : Refused(how, f.type, FieldView(V, l - n, g.id), g.type, v[l - n][g.id])
          [] Matching(T, X) /\ X[1] \in {"list", "nullable"} ->
               \E i \in DOMAIN v : Refused(how, Element(T), ElementView(V), Element(X), v[i])
          [] Matching(T, X) /\ X[1] = "map" -> \E k \in DOMAIN v : Refused(how, T[3], ElementView(V), X[3], v[k])
          [] OTHER -> FALSE

(* Whether nothing of it is skipped: the variable has a place for all.     *)
RECURSIVE TakesAll(_, _)
TakesAll(T, X) ==
    /\ Matching(T, X)
    /\ X[1] = "nullable" => T[1] = "nullable"
    /\ IsContainer(X) => TakesAll(Element(T), Element(X))
    /\ X[1] = "struct" =>
           LET S == Structs[T[2]]  XS == Structs[X[2]] IN
           \A l \in DOMAIN S : \A f \in Range(S[l]) :
               \E g \in FieldOf(XS, l + Above(S, XS), f.id) : TakesAll(f.type, g.type)

=============================================================================
