------------------------------ MODULE Mapping ------------------------------
(***************************************************************************)
(* The transform MapTo<T> (src/cpp/inc/bond/core/transforms.h): a payload  *)
(* of a struct is read into a variable of another struct, the fields going *)
(* where the mappings say.  Mappings are a function from the source's      *)
(* field ids to [path, fields]: path is the place in the variable, a list  *)
(* of field ids, and fields are the mappings of a nested struct;           *)
(* MappingBase stands for the base in both.  The payload has exactly the   *)
(* fields of its schema; s and reads are those of Values.                  *)
(***************************************************************************)
EXTENDS Serializer

CONSTANTS
    MapObjects,     \* the objects to read: {<<struct name, value>>}
    MapTargets,     \* the structs to read them into
    MapMappings     \* struct name -> the mappings tried with payloads of it

VARIABLE mapped     \* what the last Apply(MapTo) did: {[object, target, mappings, end, result]}, {} before it

MappingBase == -1

-----------------------------------------------------------------------------
(* Places in the variable: a struct type, a level of its hierarchy, a path.*)

(* detail::MapTo::Assign, AssignToBase and AssignToNested: the steps       *)
(* <<level, id>> that lead to the place and the field that is there; no    *)
(* place when the path leaves the struct.                                  *)
RECURSIVE Place(_, _, _)
Place(X, l, path) ==
    LET id == Head(path)  here == FieldOf(Structs[X[2]], l, id)
        nested == {f \in here : f.type[1] = "struct"}
    IN  CASE id = MappingBase -> IF l > 1 /\ Len(path) > 1 THEN Place(X, l - 1, Tail(path)) ELSE {}
          [] id # MappingBase /\ Len(path) = 1 -> {[steps |-> << <<l, id>> >>, field |-> f] : f \in here}
          [] id # MappingBase /\ Len(path) > 1 ->
               UNION {{[q EXCEPT !.steps = << <<l, id>> >> \o @] :
                           q \in Place(f.type, Len(Structs[f.type[2]]), Tail(path))} : f \in nested}

PlaceIn(X, path) == IF path = <<>> THEN {} ELSE Place(X, Len(Structs[X[2]]), path)

RECURSIVE ValueAt(_, _), Updated(_, _, _)
ValueAt(var, steps) ==
    LET v == var[steps[1][1]][steps[1][2]] IN IF Len(steps) = 1 THEN v ELSE ValueAt(v, Tail(steps))
Updated(var, steps, v) ==
    [var EXCEPT ![steps[1][1]][steps[1][2]] = IF Len(steps) = 1 THEN v ELSE Updated(@, Tail(steps), v)]

-----------------------------------------------------------------------------
(* MapTo.  A result's v is the variable.                                   *)
RECURSIVE MapStruct(_, _, _, _, _), MapLevel(_, _, _, _, _), MapFields(_, _, _, _, _, _)

(* AssignToField: the value is deserialized if the field's type matches,   *)
(* and ~value or ~bonded skips it otherwise.                               *)
Assign(s, p, T, xv, path) ==
    LET X == xv[1]  var == xv[2]  places == PlaceIn(X, path) IN
    IF places = {} THEN Keep(SkipNothrow(Skip(s, p, T)), var)
    ELSE LET place == CHOOSE q \in places : TRUE
             old == ValueAt(var, place.steps)
         IN  Then(IF T[1] \in Basics THEN BasicTypeField(s, p, T[1], {place.field}, old)
                  ELSE NonBasicTypeField(s, p, T, {place.field}, old),
                  LAMBDA q : Ok(Updated(var, place.steps, q.v), q.p))

(* MapTo::Field for a field of the type T, at p.                           *)
MapField(s, p, f, M, xv) ==
    LET m == M[f.id] IN
    CASE f.id \notin DOMAIN M -> Keep(SkipNothrow(Skip(s, p, f.type)), xv[2])
      [] f.id \in DOMAIN M /\ f.type[1] = "struct" /\ DOMAIN m.fields # {} ->
           MapStruct(s, p, f.type, m.fields, xv)
      [] f.id \in DOMAIN M /\ ~(f.type[1] = "struct" /\ DOMAIN m.fields # {}) ->
           Assign(s, p, f.type, xv, m.path)

(* ~bonded of a base that nothing read, which is made with _skip = true:   *)
(* a tagged reader skips a struct, an untagged one the fields of the base. *)
SkipBase(s, p, T, l) ==
    SkipNothrow(IF s.pr \in Tagged THEN ReaderSkip(s.pr, s.b, p, "struct")
                ELSE SkipFields(s, p, FlattenSeq(SubSeq(Structs[T[2]], 1, l))))

(* Mutant: the base is given the mappings of the derived struct.           *)
MapBaseWithOwn(s, p, Tl, M, xv) ==
    IF MappingBase \in DOMAIN M THEN MapLevel(s, p, Tl, M, xv) ELSE Keep(SkipBase(s, p, Tl[1], Tl[2]), xv[2])

(* MapTo::Base, at the level l of the payload's hierarchy.                 *)
MapBase(s, p, Tl, M, xv) ==
    IF MappingBase \in DOMAIN M THEN MapLevel(s, p, Tl, M[MappingBase].fields, xv)
    ELSE Keep(SkipBase(s, p, Tl[1], Tl[2]), xv[2])

(* The type id that is next in the payload and the fields of the level it  *)
(* is for; i is the next field of an untagged payload.                     *)
NextField(s, p, fs, i) ==
    IF s.pr \in Untagged
    THEN Ok(IF i > Len(fs) THEN <<"stop", {}>> ELSE <<TypeId(fs[i].type), {fs[i]}>>, p)
    ELSE Then(ReaderFieldBegin(s.pr, s.b, p), LAMBDA h :
             Ok(<<h.v[1], {f \in Range(fs) : f.id = h.v[2] /\ TypeId(f.type) = h.v[1]}>>, h.p))

MapFields(s, p, Tl, i, M, xv) ==
    Then(NextField(s, p, Structs[Tl[1][2]][Tl[2]], i), LAMBDA h :
        CASE h.v[1] \in {"stop", "stop_base"} -> Ok(xv[2], h.p)
          [] h.v[1] \notin {"stop", "stop_base"} /\ h.v[2] # {} ->
               Then(MapField(s, h.p, CHOOSE f \in h.v[2] : TRUE, M, xv), LAMBDA r :
                   MapFields(s, r.p, Tl, i + 1, M, <<xv[1], r.v>>))
          [] OTHER -> Then(ReaderSkip(s.pr, s.b, h.p, h.v[1]), LAMBDA r : MapFields(s, r.p, Tl, i, M, xv)))

(* ParserInheritance::Read: the base, then the fields of the level.        *)
MapLevel(s, p, Tl, M, xv) ==
    Then(IF Tl[2] > 1 THEN MapBase(s, p, <<Tl[1], Tl[2] - 1>>, M, xv) ELSE Ok(xv[2], p),
         LAMBDA r : MapFields(s, r.p, Tl, 1, M, <<xv[1], r.v>>))

MapStruct(s, p, T, M, xv) ==
    Then(ReaderStructBegin(s.pr, s.b, p), LAMBDA r : MapLevel(s, r.p, <<T, Len(Structs[T[2]])>>, M, xv))

-----------------------------------------------------------------------------
MappingInit == mapped = {}

(* Apply(MapTo<T>(var, mappings), bonded): the payload is followed by      *)
(* another one in the same stream.                                         *)
ApplyMapTo(pr, rt, o, target, M) ==
    \E calls \in {Calls(<<"struct", o[1]>>, o[2])} : \E payload \in {Emit(pr, calls)} :
    \E s \in {[pr |-> pr, b |-> payload \o payload, rt |-> rt]} :
        LET X == <<"struct", target>>
        IN  mapped' = {[object |-> o, target |-> target, mappings |-> M, end |-> Len(payload) + 1,
                        result |-> MapStruct(s, 1, <<"struct", o[1]>>, M, <<X, Default(X)>>)]}

MappingNext ==
    /\ mapped = {}
    /\ \E pr \in Protocols, rt \in BOOLEAN, o \in MapObjects, target \in MapTargets :
           \E M \in MapMappings[o[1]] : ApplyMapTo(pr, rt, o, target, M)

MappingSpec == MappingInit /\ [][MappingNext]_mapped

-----------------------------------------------------------------------------
(* The mappings as pairs: where a value is in the source, and its place in *)
(* the variable.                                                           *)
RECURSIVE Entries(_, _, _)
Entries(T, l, M) ==
    UNION {
        LET fs == FieldOf(Structs[T[2]], l, id) IN
        IF id = MappingBase THEN (IF l > 1 THEN Entries(T, l - 1, M[id].fields) ELSE {})
        ELSE UNION {IF f.type[1] = "struct" /\ DOMAIN M[id].fields # {}
                    THEN {[e EXCEPT !.steps = << <<l, id>> >> \o @] :
                              e \in Entries(f.type, Len(Structs[f.type[2]]), M[id].fields)}
                    ELSE {[steps |-> << <<l, id>> >>, type |-> f.type, path |-> M[id].path]} : f \in fs}
        : id \in DOMAIN M}

Fit(T, X) == IF T[1] \in Basics THEN X[1] \in Basics /\ MatchingBasic(T[1], X[1]) ELSE Matching(T, X)

(* The variable that MapTo should leave.                                   *)
MapResult(o, target, M) ==
    LET T == <<"struct", o[1]>>  X == <<"struct", target>>
        Apply(e, var) ==
            LET places == {q \in PlaceIn(X, e.path) : Fit(e.type, q.field.type)}
            IN  IF places = {} THEN var
                ELSE Updated(var, (CHOOSE q \in places : TRUE).steps, ValueAt(o[2], e.steps))
    IN  FoldSet(Apply, Default(X), Entries(T, Len(Structs[T[2]]), M))

(* Mappings in which every struct that has a base maps something of it.    *)
RECURSIVE MapsBases(_, _, _)
MapsBases(T, l, M) ==
    /\ l > 1 => MappingBase \in DOMAIN M /\ MapsBases(T, l - 1, M[MappingBase].fields)
    /\ \A id \in DOMAIN M \ {MappingBase} : \A f \in FieldOf(Structs[T[2]], l, id) :
           f.type[1] = "struct" /\ DOMAIN M[id].fields # {} =>
               MapsBases(f.type, Len(Structs[f.type[2]]), M[id].fields)

(* Every mapped field of the payload arrives at its place if the types     *)
(* match, nothing else of the variable changes, and the reader ends behind *)
(* the payload, whatever was left unmapped (MapTo).                        *)
MapToMaps ==
    \A m \in mapped : m.result.ok /\ m.result.p = m.end /\ m.result.v = MapResult(m.object, m.target, m.mappings)

(* The same, when the mappings mention the base of every struct they enter.*)
MapToMapsWithBases ==
    (\A m \in mapped : MapsBases(<<"struct", m.object[1]>>, Len(Structs[m.object[1]]), m.mappings)) => MapToMaps

=============================================================================
