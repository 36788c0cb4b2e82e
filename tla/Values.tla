------------------------------- MODULE Values ------------------------------
(***************************************************************************)
(* bond::value<T, Reader> (src/cpp/inc/bond/core/value.h and               *)
(* core/detail/typeid_value.h): a serialized value of type T at the        *)
(* reader's position, deserialized into a variable of type X when the      *)
(* types match and skipped otherwise.  The reader of an untagged protocol  *)
(* knows the payload's type only from T; the reader of a tagged one finds  *)
(* element types in the payload.  T is known at compile time (value<T>) or *)
(* is a runtime schema (value<void>): then only type ids are compared, one *)
(* level at a time.  Structs are read by the transform To under            *)
(* StaticParser or DynamicParser (core/parser.h); the control of the       *)
(* latter is the subject of TaggedParser.                                  *)
(*                                                                         *)
(* s is the source of a read: [pr, b, rt], the protocol, the bytes and     *)
(* whether T is a runtime schema; p is the position; old is the value the  *)
(* variable has.                                                           *)
(***************************************************************************)
EXTENDS BinaryProtocols

(* The template parameter Reader, its functions by their arguments: the    *)
(* protocol, the bytes, the position and what the caller knows of the type.*)
(* ProtocolReadBasic, ProtocolSkipType... are the readers of the library.  *)
CONSTANTS
    ReaderBasic(_, _, _, _), ReaderStructBegin(_, _, _), ReaderFieldBegin(_, _, _),
    ReaderContainerBegin(_, _, _, _), ReaderMapBegin(_, _, _, _, _), ReaderSkip(_, _, _, _)

CONSTANT Structs    \* struct name -> its hierarchy, root base first, each a sequence of
                    \* [id, type, default, modifier] ordered by id; modifier is "Optional",
                    \* "RequiredOptional" or "Required"

(* is_matching_basic: payload type t1, variable type t2.                   *)
MatchingBasic(t1, t2) ==
    \/ t1 = t2
    \/ t1 \in Unsigned /\ t2 \in Unsigned /\ Width[t1] <= Width[t2]
    \/ t1 \in Signed /\ t2 \in Signed /\ Width[t1] <= Width[t2]
    \/ t1 = "float" /\ t2 = "double"

(* is_matching                                                             *)
RECURSIVE Matching(_, _)
Matching(T, X) ==
    \/ T[1] = "struct" /\ X[1] = "struct"
    \/ T[1] \in Basics /\ X[1] \in Basics /\ MatchingBasic(T[1], X[1])
    \/ /\ IsContainer(T) /\ IsContainer(X) /\ TypeId(T) = TypeId(X)
       /\ Matching(Element(T), Element(X))
       /\ TypeId(T) = "map" => Matching(T[2], X[2])

(* A value<void> looks at the type id of what it holds only.               *)
Fits(s, T, X) == IF s.rt /\ T[1] \notin Basics THEN TypeId(T) = TypeId(X) ELSE Matching(T, X)

(* The value of a variable before it is deserialized.                      *)
RECURSIVE Default(_)
Default(X) ==
    CASE X[1] = "set" -> {}
      [] X[1] \in Strings \cup {"list", "nullable", "blob", "map"} -> <<>>
      [] X[1] = "struct" -> [l \in DOMAIN Structs[X[2]] |->
                                LET fs == Range(Structs[X[2]][l])
                                IN  [id \in {f.id : f \in fs} |->
                                        LET f == CHOOSE f \in fs : f.id = id
                                        IN  IF f.type[1] \in Basics THEN f.default ELSE Default(f.type)]]
      [] OTHER -> 0

-----------------------------------------------------------------------------
(* bond::Skip: the protocol skips by type id when it is tagged, the schema *)
(* is walked when it is not.                                               *)
RECURSIVE Skip(_, _, _), SkipContainer(_, _, _), SkipMap(_, _, _, _), SkipFields(_, _, _)

SkipContainer(s, p, E) ==
    Then(ReaderContainerBegin(s.pr, s.b, p, "list"), LAMBDA h : Repeat(h.v[2], h, LAMBDA q : Skip(s, q, E)))

SkipMap(s, p, k, E) ==
    Then(ReaderMapBegin(s.pr, s.b, p, "map", "map"), LAMBDA h :
        Repeat(h.v[3], h, LAMBDA q : Then(ReaderSkip(s.pr, s.b, q, k), LAMBDA r : Skip(s, r.p, E))))

(* ~value: a value that nothing read is skipped, and what is thrown on the *)
(* way is swallowed.                                                       *)
SkipNothrow(r) == [r EXCEPT !.ok = TRUE]

(* StaticParser::SkipFields: the fields are passed to the transform Null,  *)
(* which reads none.                                                       *)
SkipFields(s, p, fs) == FoldLeft(LAMBDA acc, f : SkipNothrow(Skip(s, acc.p, f.type)), Ok(0, p), fs)

Skip(s, p, T) ==
    CASE s.pr \in Tagged \/ T[1] \in Basics -> ReaderSkip(s.pr, s.b, p, TypeId(T))
      [] s.pr \in Untagged /\ TypeId(T) \in {"list", "set"} -> SkipContainer(s, p, Element(T))
      [] s.pr \in Untagged /\ TypeId(T) = "map" -> SkipMap(s, p, T[2][1], T[3])
      [] s.pr \in Untagged /\ T[1] = "struct" -> SkipFields(s, p, FlattenSeq(Structs[T[2]]))

(* detail::SkipElements: n elements, and n pairs of a map.                 *)
SkipElements(s, p, E, n) == Repeat(n, Ok(0, p), LAMBDA q : Skip(s, q, E))
SkipPairs(s, p, k, E, n) ==
    Repeat(n, Ok(0, p), LAMBDA q : Then(ReaderSkip(s.pr, s.b, q, k), LAMBDA r : Skip(s, r.p, E)))

Keep(r, old) == [r EXCEPT !.v = old]

-----------------------------------------------------------------------------
RECURSIVE Deserialize(_, _, _, _, _), MapElements(_, _, _, _, _, _, _),
          DynamicFields(_, _, _, _, _, _), StaticFields(_, _, _, _, _, _)

(* DeserializeElements for the kinds of containers.                        *)
ListElements(s, p, E, X, n) ==
    FoldLeft(LAMBDA acc, i : Then(acc, LAMBDA a : Then(Deserialize(s, a.p, E, Element(X), Default(Element(X))),
                                                      LAMBDA r : Ok(Append(a.v, r.v), r.p))),
             Ok(<<>>, p), [i \in 1 .. n |-> i])

SetElements(s, p, E, X, n) ==
    Then(ListElements(s, p, E, X, n), LAMBDA r : Ok(Range(r.v), r.p))

(* A nullable takes one element; the others are skipped.                   *)
NullableSize(n) == IF n > 0 THEN 1 ELSE 0           \* resize_list and the enumerator

NullableElements(s, p, E, X, n) ==
    Then(ListElements(s, p, E, X, NullableSize(n)), LAMBDA r : Keep(SkipElements(s, r.p, E, n - NullableSize(n)), r.v))

BlobElements(s, p, n) ==
    Then(ReadBytes(s.b, p, n), LAMBDA r :
        Ok([i \in 1 .. n |-> IF r.v[i] >= 128 THEN r.v[i] - 256 ELSE r.v[i]], r.p))

DeserializeElements(s, p, E, X, n) ==
    CASE X[1] = "blob" -> BlobElements(s, p, n)
      [] X[1] = "list" -> ListElements(s, p, E, X, n)
      [] X[1] = "set" -> SetElements(s, p, E, X, n)
      [] X[1] = "nullable" -> NullableElements(s, p, E, X, n)

(* The overloads of DeserializeContainer and what they dispatch to, each   *)
(* as the condition under which it reads the elements; they are skipped    *)
(* otherwise.  E is what the caller believes an element to be, t the type  *)
(* id in the payload, and the payload of a tagged protocol decides.        *)
MatchingTypeContainer(s, t, X) == MatchingBasic(t, Element(X)[1]) /\ Fits(s, <<t>>, Element(X))

NestedContainer(s, t, E, X) == t = TypeId(E) /\ Fits(s, E, Element(X))

BasicContainer(s, t, X) == t \notin Complex /\ MatchingTypeContainer(s, t, X)

(* The type of the elements as far as it is known.                         *)
ElementOf(E, t) == IF t = TypeId(E) THEN E ELSE <<t>>

DeserializeContainer(s, p, E, X, old) ==
    Then(ReaderContainerBegin(s.pr, s.b, p, TypeId(E)), LAMBDA h :
        IF IF Element(X)[1] \in Basics THEN BasicContainer(s, h.v[1], X) ELSE NestedContainer(s, h.v[1], E, X)
        THEN DeserializeElements(s, h.p, ElementOf(E, h.v[1]), X, h.v[2])
        ELSE Keep(SkipElements(s, h.p, ElementOf(E, h.v[1]), h.v[2]), old))

-----------------------------------------------------------------------------
(* Maps.                                                                   *)
MapElements(s, p, k, E, X, n, m) ==
    IF n = 0 THEN Ok(m, p)
    ELSE Then(ReaderBasic(s.pr, s.b, p, k), LAMBDA r :
         Then(Deserialize(s, r.p, E, X[3], Default(X[3])), LAMBDA e :
              MapElements(s, e.p, k, E, X, n - 1, [x \in DOMAIN m \cup {r.v} |-> IF x = r.v THEN e.v ELSE m[x]])))

(* The same for DeserializeMap: k and t are the type ids in the payload.   *)
MatchingMapByKey(k, X) == MatchingBasic(k, X[2][1])

MapByKey(s, k, E, X) == Fits(s, E, X[3]) /\ MatchingMapByKey(k, X)

MatchingMapByElement(s, k, t, X) == MatchingBasic(t, X[3][1]) /\ MapByKey(s, k, <<t>>, X)

NestedMap(s, k, t, E, X) == t = TypeId(E) /\ MapByKey(s, k, E, X)

BasicMap(s, k, t, X) == t \notin Complex /\ MatchingMapByElement(s, k, t, X)

DeserializeMap(s, p, T, X, old) ==
    Then(ReaderMapBegin(s.pr, s.b, p, TypeId(T[2]), TypeId(T[3])), LAMBDA h :
        IF IF X[3][1] \in Basics THEN BasicMap(s, h.v[1], h.v[2], X) ELSE NestedMap(s, h.v[1], h.v[2], T[3], X)
        THEN MapElements(s, h.p, h.v[1], ElementOf(T[3], h.v[2]), X, h.v[3], <<>>)
        ELSE Keep(SkipPairs(s, h.p, h.v[1], ElementOf(T[3], h.v[2]), h.v[3]), old))

-----------------------------------------------------------------------------
(* Structs: bonded<T, Reader&>::Deserialize, the fields base first.        *)
FieldOf(S, l, id) == IF l \in DOMAIN S THEN {f \in Range(S[l]) : f.id = id} ELSE {}

(* To::Field for basic types, bonded and value<void>: the fields of the    *)
(* variable, among the known ones, that a value of type T is assigned to.  *)
FieldsFor(s, T, known) ==
    {g \in known :
        IF T[1] \in Basics THEN g.type[1] \in Basics /\ MatchingBasic(T[1], g.type[1])
        ELSE /\ g.type[1] \notin Basics
             /\ IF s.rt THEN (T[1] = "struct") = (g.type[1] = "struct") ELSE Matching(T, g.type)}

(* detail::BasicTypeField and NonBasicTypeField to To: the value is read   *)
(* if there is a field for it, ~value and ~bonded skip it otherwise.       *)
BasicTypeField(s, p, t, known, old) ==
    IF FieldsFor(s, <<t>>, known) = {} THEN Keep(SkipNothrow(ReaderSkip(s.pr, s.b, p, t)), old)
    ELSE ReaderBasic(s.pr, s.b, p, t)

NonBasicTypeField(s, p, T, known, old) ==
    LET fields == FieldsFor(s, T, known)
    IN  IF fields = {} THEN Keep(SkipNothrow(Skip(s, p, T)), old)
        ELSE Deserialize(s, p, T, (CHOOSE g \in fields : TRUE).type, old)

(* RequiredFieldValiadator: a level of the variable's hierarchy, entered   *)
(* with Begin, in which some required field has not been assigned when End *)
(* is called.  Ids ascend, so that a required field that follows a missing *)
(* one throws as well, only earlier.                                       *)
MissingField(XS, k, assigned) ==
    k \in DOMAIN XS /\ \E g \in Range(XS[k]) : g.modifier = "Required" /\ g.id \notin assigned

(* ParserInheritance::Read: a schema S that is less deep than the variable *)
(* is read into the most derived structs of its hierarchy XS, and the      *)
(* bases above are not entered.                                            *)
Above(S, XS) == Max({0, Len(XS) - Len(S)})

(* DynamicParser::ReadFields to To: S is the schema the parser has, of the *)
(* variable's type at compile time and of the payload at runtime; to is    *)
(* [var, ids], the variable and the fields of the level assigned so far.   *)
(* To::Base throws when the payload ends in a base                         *)
(* (UnexpectedStructStopException).                                        *)
DynamicFields(s, p, l, S, X, to) ==
    Then(ReaderFieldBegin(s.pr, s.b, p), LAMBDA f :
        LET t == f.v[1]  id == f.v[2]  XS == Structs[X[2]]
            k == l + Above(S, XS)
            expected == FieldOf(S, l, id)
            known == FieldOf(XS, k, id)
            before == IF known = {} THEN 0 ELSE to.var[k][id]
            Store(T, r) == Then(r, LAMBDA q : DynamicFields(s, q.p, l, S, X,
                               IF FieldsFor(s, T, known) = {} THEN to
                               ELSE [var |-> [to.var EXCEPT ![k][id] = q.v], ids |-> to.ids \cup {id}]))
        IN  CASE t = "stop" ->
                   IF MissingField(XS, k, to.ids) \/ l < Min({Len(S), Len(XS)}) THEN Eof(f.p) ELSE Ok(to.var, f.p)
              [] t = "stop_base" ->
                   IF MissingField(XS, k, to.ids) THEN Eof(f.p)
                   ELSE DynamicFields(s, f.p, l + 1, S, X, [to EXCEPT !.ids = {}])
              [] t \notin {"stop", "stop_base"} /\ t \in Complex /\ \E g \in expected : TypeId(g.type) = t ->
                   LET T == (CHOOSE g \in expected : TRUE).type
                   IN  Store(T, NonBasicTypeField(s, f.p, T, known, before))
              [] t \notin {"stop", "stop_base"} /\ t \notin Complex /\ \E g \in expected : s.rt \/ g.type[1] \in Basics ->
                   Store(<<t>>, BasicTypeField(s, f.p, t, known, before))
              [] OTHER -> Then(ReaderSkip(s.pr, s.b, f.p, t), LAMBDA r : DynamicFields(s, r.p, l, S, X, to)))

(* ParserInheritance::Read for a schema that is deeper than the variable's *)
(* type: the levels above l are skipped.                                   *)
SkipDerived(s, p, S, l) == SkipFields(s, p, FlattenSeq(SubSeq(S, l + 1, Len(S))))

(* StaticParser::ReadFields to To: every field of the payload's schema is  *)
(* there.                                                                  *)
StaticFields(s, p, l, fs, T, xo) ==
    LET X == xo[1]  old == xo[2]  S == Structs[T[2]]  XS == Structs[X[2]]
        k == l + Above(S, XS)
        assigned == {f.id : f \in {g \in Range(S[l]) : FieldsFor(s, g.type, FieldOf(XS, k, g.id)) # {}}}
    IN
    CASE fs = <<>> /\ MissingField(XS, k, assigned) -> Eof(p)
      [] fs = <<>> /\ ~MissingField(XS, k, assigned) ->
           IF l = Len(S) THEN Ok(old, p)
           ELSE IF k < Len(XS) THEN StaticFields(s, p, l + 1, S[l + 1], T, xo)
           ELSE Keep(SkipDerived(s, p, S, l), old)
      [] fs # <<>> ->
           LET f == Head(fs)
               known == FieldOf(XS, k, f.id)
               before == IF known = {} THEN 0 ELSE old[k][f.id]
           IN  Then(IF f.type[1] \in Basics THEN BasicTypeField(s, p, f.type[1], known, before)
                    ELSE NonBasicTypeField(s, p, f.type, known, before),
                    LAMBDA q : StaticFields(s, q.p, l, Tail(fs), T,
                                   <<X, IF f.id \in assigned THEN [old EXCEPT ![k][f.id] = q.v] ELSE old>>))

DeserializeStruct(s, p, T, X, old) ==
    IF s.pr \in Tagged
    THEN Then(ReaderStructBegin(s.pr, s.b, p), LAMBDA r :
             DynamicFields(s, r.p, 1, Structs[(IF s.rt THEN T ELSE X)[2]], X, [var |-> old, ids |-> {}]))
    ELSE StaticFields(s, p, 1, Structs[T[2]][1], T, <<X, old>>)

(* value<T>::Deserialize(X&)                                               *)
Deserialize(s, p, T, X, old) ==
    CASE ~Fits(s, T, X) -> Keep(Skip(s, p, T), old)
      [] Fits(s, T, X) /\ T[1] \in Basics -> ReaderBasic(s.pr, s.b, p, T[1])
      [] Fits(s, T, X) /\ T[1] = "map" -> DeserializeMap(s, p, T, X, old)
      [] Fits(s, T, X) /\ TypeId(T) \in {"list", "set"} -> DeserializeContainer(s, p, Element(T), X, old)
      [] Fits(s, T, X) /\ T[1] = "struct" -> DeserializeStruct(s, p, T, X, old)

=============================================================================
