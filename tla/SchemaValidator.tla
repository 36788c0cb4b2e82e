--------------------------- MODULE SchemaValidator --------------------------
(***************************************************************************)
(* The transform detail::SchemaValidator                                   *)
(* (src/cpp/inc/bond/core/detail/validate.h): Validate runs it over a      *)
(* serialized SchemaDef, which another version of Bond may have written,   *)
(* and gives up when the payload has a field that SchemaDef does not.      *)
(* s, p and T are those of Values; a result's v is nothing.                *)
(***************************************************************************)
EXTENDS Serializer

CONSTANTS
    ValidatorObjects,   \* what is serialized: {<<struct name, value>>}
    ValidatorSchema     \* struct name -> the name of the struct it is read as

VARIABLE validated  \* what the last Apply(SchemaValidator) did: {[object, end, result]}, {} before it

-----------------------------------------------------------------------------
RECURSIVE Recurse(_, _, _), RecurseFields(_, _, _, _), RecurseStruct(_, _, _)

Unknown(p) == [v |-> -1, p |-> p, ok |-> FALSE]    \* SchemaValidateException

(* SchemaValidator::Container: Recurse for each of n elements of type E.   *)
(* They are made with skip = false, so that basic ones stay unread, and so *)
(* do the keys of a map.                                                   *)
RecurseElements(s, p, E, n) ==
    IF E[1] \in Basics THEN Ok(0, p) ELSE Repeat(n, Ok(0, p), LAMBDA q : Recurse(s, q, E))

RecurseContainer(s, p, T) ==
    Then(ReaderContainerBegin(s.pr, s.b, p, TypeId(Element(T))), LAMBDA h :
        RecurseElements(s, h.p, ElementFor(Element(T), h.v[1]), h.v[2]))

RecurseMap(s, p, T) ==
    Then(ReaderMapBegin(s.pr, s.b, p, TypeId(T[2]), TypeId(T[3])), LAMBDA h :
        RecurseElements(s, h.p, ElementFor(T[3], h.v[2]), h.v[3]))

(* SchemaValidator::Recurse: a basic value is not looked at, ~value skips  *)
(* it afterwards.                                                          *)
Recurse(s, p, T) ==
    CASE T[1] \in Basics -> SkipNothrow(ReaderSkip(s.pr, s.b, p, T[1]))
      [] TypeId(T) \in {"list", "set"} -> RecurseContainer(s, p, T)
      [] T[1] = "map" -> RecurseMap(s, p, T)
      [] T[1] = "struct" -> RecurseStruct(s, p, Hierarchy(T))

(* Mutant: unknown fields are skipped, as To does.                         *)
UnknownFieldSkipped(s, p, t) == SkipNothrow(ReaderSkip(s.pr, s.b, p, t))

(* SchemaValidator::UnknownField                                           *)
UnknownField(s, p, t) == Unknown(p)

(* DynamicParser::ReadFields with the compile-time schema S: the levels    *)
(* that the payload has below S are passed to UnknownEnd.                  *)
RecurseFields(s, p, S, l) ==
    Then(ReaderFieldBegin(s.pr, s.b, p), LAMBDA h :
        LET t == h.v[1]
            expected == FieldOf(S, l, h.v[2])
            Go(r) == Then(r, LAMBDA q : RecurseFields(s, q.p, S, l))
        IN  CASE t = "stop" -> Ok(0, h.p)
              [] t = "stop_base" -> RecurseFields(s, h.p, S, l + 1)
              [] t \notin {"stop", "stop_base"} /\ \E f \in expected : TypeId(f.type) = t ->
                   Go(Recurse(s, h.p, (CHOOSE f \in expected : TRUE).type))
              [] t \in Basics /\ \E f \in expected : f.type[1] \in Basics /\ f.type[1] # t ->
                   Go(Recurse(s, h.p, <<t>>))
              [] OTHER -> Go(UnknownField(s, h.p, t)))

(* SchemaValidator::Base and Field for a whole struct; a StaticParser      *)
(* visits every field of the schema.                                       *)
RecurseStruct(s, p, S) ==
    IF s.pr \in Tagged THEN Then(ReaderStructBegin(s.pr, s.b, p), LAMBDA r : RecurseFields(s, r.p, S, 1))
    ELSE FoldLeft(LAMBDA acc, f : Then(acc, LAMBDA a : Recurse(s, a.p, f.type)), Ok(0, p), FlattenSeq(S))

-----------------------------------------------------------------------------
ValidatorInit == validated = {}

(* Apply<Protocols>(SchemaValidator(), src), as the first thing that       *)
(* Validate(const bonded<SchemaDef>&, ...) does; src is followed by        *)
(* another payload.  An untagged payload has the schema it is read with.   *)
ApplyValidator(pr, o) ==
    /\ pr \in Untagged => ValidatorSchema[o[1]] = o[1]
    /\ \E calls \in {Calls(<<"struct", o[1]>>, o[2])} : \E payload \in {Emit(pr, calls)} :
       \E s \in {[pr |-> pr, b |-> payload \o payload, rt |-> FALSE]} :
           validated' = {[object |-> o, end |-> Len(payload) + 1,
                          result |-> Recurse(s, 1, <<"struct", ValidatorSchema[o[1]]>>)]}

ValidatorNext == validated = {} /\ \E pr \in Protocols, o \in ValidatorObjects : ApplyValidator(pr, o)

ValidatorSpec == ValidatorInit /\ [][ValidatorNext]_validated

-----------------------------------------------------------------------------
(* Whether the payload of a value has, somewhere, a field that the struct  *)
(* it is read as does not have.                                            *)
Parts(T, v) ==
    CASE T[1] = "struct" ->
           UNION {{<<f.type, v[l][f.id]>> : f \in Range(Structs[T[2]][l])} : l \in DOMAIN v}
      [] T[1] \in {"list", "nullable"} -> {<<T[2], v[i]>> : i \in DOMAIN v}
      [] T[1] = "map" -> {<<T[3], v[k]>> : k \in DOMAIN v}
      [] OTHER -> {}

RECURSIVE HasUnknown(_, _)
HasUnknown(T, v) ==
    \/ T[1] = "struct" /\ \E l \in DOMAIN v : \E f \in Range(Structs[T[2]][l]) :
           /\ FieldOf(Structs[ValidatorSchema[T[2]]], l, f.id) = {}
           /\ ~Omittable(f, v[l][f.id])
    \/ \E x \in Parts(T, v) : HasUnknown(x[1], x[2])

(* SchemaValidator throws exactly when the payload contains a field that   *)
(* is unknown, at any depth, and reads all of the payload otherwise.       *)
ValidatorFindsUnknown ==
    \A c \in validated :
        IF HasUnknown(<<"struct", c.object[1]>>, c.object[2]) THEN ~c.result.ok /\ c.result.v = -1
        ELSE c.result.ok /\ c.result.p = c.end

=============================================================================
