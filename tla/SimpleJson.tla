----------------------------- MODULE SimpleJson ----------------------------
(***************************************************************************)
(* The Simple JSON protocol (src/cpp/inc/bond/protocol/                    *)
(* simple_json_writer.h, simple_json_reader.h, simple_json_reader_impl.h,  *)
(* detail/rapidjson_helper.h) and DOMParser (core/parser.h).  The writer   *)
(* produces tokens, RapidJSON makes a document of them, and the parser     *)
(* looks for each field of its schema in the document by type and by name  *)
(* or id; the structs of a hierarchy share one JSON object.                *)
(*                                                                         *)
(* A token is <<"{">>, <<"}">>, <<"[">>, <<"]">>, <<",">>, <<":">>,        *)
(* <<"name", n>>, <<"str", characters>>, <<"int", n>>, <<"num", x>>,       *)
(* <<"true">>, <<"false">> or <<"null">>; layout is left out.  A value of  *)
(* the document is <<"obj", members>>, <<"arr", elements>> or a scalar     *)
(* token with its characters decoded.  Fields have a name, and maybe a     *)
(* jsonName, in addition to what Values needs.                             *)
(***************************************************************************)
EXTENDS Serializer

CONSTANTS
    JsonObjects,    \* the objects to write: {<<struct name, value>>}
    JsonViews,      \* struct name -> the structs as which payloads of it are transcoded
    JsonTargets     \* struct name -> the structs that its JSON is read into

VARIABLE json       \* the JSON that was written and the last read of it, {} before it

-----------------------------------------------------------------------------
(* SimpleJsonWriter: w is [out, count], the tokens written and _count.     *)
WriteOpen(w, bracket) == [out |-> Append(w.out, <<bracket>>), count |-> 0]

WriteCloseUncounted(w, bracket) == [w EXCEPT !.out = Append(@, <<bracket>>)]    \* Mutant: no ++_count
WriteClose(w, bracket) == [out |-> Append(w.out, <<bracket>>), count |-> w.count + 1]

WriteSeparator(w) ==
    [out |-> IF w.count > 0 THEN Append(w.out, <<",">>) ELSE w.out, count |-> w.count + 1]

WriteToken(w, t) == [w EXCEPT !.out = Append(@, t)]

(* The name of a field, and the name that an unknown field gets.           *)
FieldName(f) == [name |-> IF "jsonName" \in DOMAIN f THEN f.jsonName ELSE f.name, id |-> -1]
IdName(id) == [name |-> "", id |-> id]

WriteName(w, n) == WriteToken(WriteToken(WriteSeparator(w), <<"name", n>>), <<":">>)

(* WriteString for a wstring, character by character.                      *)
Quote == 34
Backslash == 92
Slash == 47
Letters == [c \in {8, 9, 10, 12, 13} |->               \* b, t, n, f and r
               CASE c = 8 -> 98 [] c = 9 -> 116 [] c = 10 -> 110 [] c = 12 -> 102 [] c = 13 -> 114]
HexDigit(n) == IF n < 10 THEN 48 + n ELSE 87 + n

WriteUnicode(c) == <<Backslash, 117>> \o [i \in 1 .. 4 |-> HexDigit((c \div 16 ^ (4 - i)) % 16)]

WriteChar(c) ==
    LET d == IF c \in DOMAIN Letters THEN Letters[c] ELSE c
        escape == (c < 32 \/ c \in {Quote, Backslash, Slash}) /\ d >= 32
    IN  (IF escape THEN <<Backslash>> ELSE <<>>) \o (IF d >= 32 /\ d < 128 THEN <<d>> ELSE WriteUnicode(d))

WriteString(s) == FlattenSeq([i \in DOMAIN s |-> WriteChar(s[i])])

(* The same by rapidjson::Writer for a string.                             *)
RapidString(s) == FlattenSeq([i \in DOMAIN s |-> IF s[i] = Slash THEN <<Slash>> ELSE WriteChar(s[i])])

WriteScalar(t, v) ==
    CASE t = "bool" -> <<IF v = 1 THEN "true" ELSE "false">>
      [] t \in Signed \cup Unsigned -> <<"int", v>>
      [] t \in {"float", "double"} -> <<"num", v>>
      [] t = "string" -> <<"str", RapidString(v)>>
      [] t = "wstring" -> <<"str", WriteString(v)>>

-----------------------------------------------------------------------------
(* Serializer<SimpleJsonWriter>.  how says where a value comes from, an    *)
(* object or the payload of a tagged or untagged protocol, and whether all *)
(* fields are written.  T is the type of the value v and V what the schema *)
(* knows of it, <<"unknown">> for nothing.                                 *)
(* A field that the payload does not contain.                              *)
LeftOut(how, f, v) == how.from = "tagged" /\ Omittable(f, v)

(* Serializer::OmittedField                                                *)
JsonOmitted(w, how, f) ==
    IF ~how.all THEN w
    ELSE LET n == WriteName(w, FieldName(f)) IN
         CASE TypeId(f.type) \in {"list", "set"} -> WriteClose(WriteOpen(n, "["), "]")
           [] TypeId(f.type) = "map" -> WriteClose(WriteOpen(n, "{"), "}")
           [] f.type[1] \in Basics -> WriteToken(n, WriteScalar(f.type[1], f.default))

RECURSIVE JsonWrite(_, _, _, _, _)

(* Write for containers, and Container for payloads.                       *)
JsonElements(w, how, E, V, vs) ==
    WriteClose(FoldLeft(LAMBDA u, x : JsonWrite(WriteSeparator(u), how, E, V, x), WriteOpen(w, "["), vs), "]")

JsonMap(w, how, T, V, v) ==
    WriteClose(FoldLeft(LAMBDA u, k : JsonWrite(WriteSeparator(JsonWrite(WriteSeparator(u), how, T[2], T[2], k)),
                                                how, T[3], V, v[k]),
                        WriteOpen(w, "["), SetToSortSeq(DOMAIN v, <)), "]")

JsonNullable(w, how, T, v) ==
    IF v = <<>> THEN WriteToken(w, <<"null">>)
    ELSE WriteClose(JsonWrite(WriteOpen(w, "["), how, T[2], T[2], v[1]), "]")

(* Serializer::Field and UnknownField: f is a field of the value and known *)
(* what the schema has for it.                                             *)
JsonField(w, how, f, known, v) ==
    CASE known = {} -> IF LeftOut(how, f, v) THEN w
                       ELSE JsonWrite(WriteName(w, IdName(f.id)), how, f.type, <<"unknown">>, v)
      [] known # {} /\ how.from = "object" ->
           IF ~how.all /\ Omittable(f, v) THEN w
           ELSE JsonWrite(WriteName(w, FieldName(f)), how, f.type, f.type, v)
      [] known # {} /\ how.from # "object" ->
           LET g == CHOOSE g \in known : TRUE IN
           IF LeftOut(how, f, v) THEN JsonOmitted(w, how, g)
           ELSE JsonWrite(WriteName(w, FieldName(g)), how, f.type, g.type, v)

(* Begin, Base and End: the levels of a hierarchy go into one object.  The *)
(* schema may have fields that the value has not.                          *)
JsonStruct(w, how, T, V, v) ==
    LET S == Structs[T[2]]
        Only(l) == IF l \in DOMAIN Levels(V) THEN SelectSeq(Levels(V)[l], LAMBDA g : FieldOf(S, l, g.id) = {}) ELSE <<>>
        Member(l, u, f) == IF FieldOf(S, l, f.id) = {} THEN JsonOmitted(u, how, f)
                           ELSE JsonField(u, how, f, FieldOf(Levels(V), l, f.id), v[l][f.id])
        Level(u, l) == FoldLeft(LAMBDA x, f : Member(l, x, f), u, SortSeq(S[l] \o Only(l), LAMBDA f, g : f.id < g.id))
    IN  WriteClose(FoldLeft(Level, WriteOpen(w, "{"), [l \in DOMAIN S |-> l]), "}")

JsonWrite(w, how, T, V, v) ==
    CASE T[1] \in Basics -> WriteToken(w, WriteScalar(T[1], v))
      [] T[1] = "nullable" /\ how.from = "object" -> JsonNullable(w, how, T, v)
      [] T[1] = "list" \/ T[1] = "blob" \/ (T[1] = "nullable" /\ how.from # "object") ->
           JsonElements(w, how, Element(T), ElementView(V), v)
      [] T[1] = "set" -> JsonElements(w, how, Element(T), ElementView(V), SetToSortSeq(v, <))
      [] T[1] = "map" -> JsonMap(w, how, T, ElementView(V), v)
      [] T[1] = "struct" -> JsonStruct(w, how, T, V, v)

-----------------------------------------------------------------------------
(* rapidjson::Document::ParseStream: the document at p, with p behind it.  *)
RECURSIVE Unescape(_, _)
Unescape(s, decoded) ==
    LET Rest(k, c) == Unescape(SubSeq(s, k + 1, Len(s)), Append(decoded, c))
        Hex(d) == IF d >= 97 THEN d - 87 ELSE d - 48
    IN  CASE s = <<>> -> Ok(decoded, 1)
          [] s # <<>> /\ s[1] # Backslash -> IF s[1] < 32 \/ s[1] = Quote THEN Eof(1) ELSE Rest(1, s[1])
          [] s # <<>> /\ s[1] = Backslash /\ Len(s) > 1 ->
               IF s[2] = 117 THEN Rest(6, FoldLeft(LAMBDA x, d : 16 * x + Hex(d), 0, SubSeq(s, 3, 6)))
               ELSE IF \E c \in DOMAIN Letters : Letters[c] = s[2]
                    THEN Rest(2, CHOOSE c \in DOMAIN Letters : Letters[c] = s[2])
               ELSE IF s[2] \in {Quote, Backslash, Slash} THEN Rest(2, s[2]) ELSE Eof(1)
          [] OTHER -> Eof(1)

Kind(ts, p) == IF p \in DOMAIN ts THEN ts[p][1] ELSE "end"

RECURSIVE ParseJson(_, _), ParseMembers(_, _, _), ParseElements(_, _, _)
ParseMembers(ts, p, ms) ==
    IF Kind(ts, p) # "name" \/ Kind(ts, p + 1) # ":" THEN Eof(p)
    ELSE Then(ParseJson(ts, p + 2), LAMBDA r :
             LET all == Append(ms, <<ts[p][2], r.v>>) IN
             CASE Kind(ts, r.p) = "," -> ParseMembers(ts, r.p + 1, all)
               [] Kind(ts, r.p) = "}" -> Ok(<<"obj", all>>, r.p + 1)
               [] OTHER -> Eof(r.p))

ParseElements(ts, p, es) ==
    Then(ParseJson(ts, p), LAMBDA r :
        CASE Kind(ts, r.p) = "," -> ParseElements(ts, r.p + 1, Append(es, r.v))
          [] Kind(ts, r.p) = "]" -> Ok(<<"arr", Append(es, r.v)>>, r.p + 1)
          [] OTHER -> Eof(r.p))

ParseJson(ts, p) ==
    CASE Kind(ts, p) = "{" /\ Kind(ts, p + 1) = "}" -> Ok(<<"obj", <<>> >>, p + 2)
      [] Kind(ts, p) = "{" /\ Kind(ts, p + 1) # "}" -> ParseMembers(ts, p + 1, <<>>)
      [] Kind(ts, p) = "[" /\ Kind(ts, p + 1) = "]" -> Ok(<<"arr", <<>> >>, p + 2)
      [] Kind(ts, p) = "[" /\ Kind(ts, p + 1) # "]" -> ParseElements(ts, p + 1, <<>>)
      [] Kind(ts, p) = "str" -> Then(Unescape(ts[p][2], <<>>), LAMBDA r : Ok(<<"str", r.v>>, p + 1))
      [] Kind(ts, p) \in {"int", "num", "true", "false", "null"} -> Ok(ts[p], p + 1)
      [] OTHER -> Eof(p)

-----------------------------------------------------------------------------
(* SimpleJsonReader.  JsonTypeMatching: the type of the variable, what the *)
(* schema says of it, and a value of the document.                         *)
ComplexTypeMatch(type, schema, j) ==
    /\ type = schema
    /\ \/ j[1] = "obj" /\ type = "struct"
       \/ j[1] = "arr" /\ type \in {"map", "list", "set"}
       \/ j[1] = "null" /\ type = "list"

BasicTypeMatch(type, enum, j) ==
    \/ j[1] = "str" /\ (type \in Strings \/ enum)
    \/ j[1] = "int" /\ j[2] >= 0 /\ type \in Unsigned
    \/ j[1] = "int" /\ type \in Signed
    \/ j[1] \in {"int", "num"} /\ type \in {"float", "double"}
    \/ j[1] \in {"true", "false"} /\ type = "bool"

(* static_cast to an integer of type t.                                    *)
Narrow(t, n) ==
    LET m == 2 ^ (8 * Width[t])
    IN  IF Width[t] >= 4 THEN n
        ELSE IF t \in Signed /\ n % m >= m \div 2 THEN (n % m) - m ELSE n % m

(* detail::Read; RapidJSON asserts that the value has the type.            *)
JsonRead(t, j) ==
    CASE t = "bool" /\ j[1] \in {"true", "false"} -> Ok(IF j[1] = "true" THEN 1 ELSE 0, 0)
      [] t \in {"float", "double"} /\ j[1] \in {"int", "num"} -> Ok(j[2], 0)
      [] t \in Signed /\ j[1] = "int" -> Ok(Narrow(t, j[2]), 0)
      [] t \in Unsigned /\ j[1] = "int" /\ j[2] >= 0 -> Ok(Narrow(t, j[2]), 0)
      [] t \in Strings /\ j[1] = "str" -> Ok(j[2], 0)
      [] OTHER -> Eof(0)

(* The first member that has the type and the name or the id of field f.   *)
FindField(j, f, enum) ==
    LET t == TypeId(f.type)
        Is(m) == /\ ComplexTypeMatch(t, t, m[2]) \/ BasicTypeMatch(t, enum, m[2])
                 /\ m[1] = FieldName(f) \/ m[1].id = f.id
        found == IF j[1] = "obj" THEN SelectSeq(j[2], Is) ELSE <<>>
    IN  IF found = <<>> THEN {} ELSE {found[1][2]}

Items(j) == IF j[1] = "arr" THEN j[2] ELSE <<>>         \* ArrayBegin, ArrayEnd

RECURSIVE FromJson(_, _, _, _, _)

(* DeserializeContainer for a list, a nullable and a vector<bool>.         *)
JsonItem(rt, E, X, j) ==
    CASE X[1] = "bool" -> Ok(IF j = <<"true">> THEN 1 ELSE 0, 0)
      [] X[1] # "bool" /\ ComplexTypeMatch(TypeId(X), TypeId(E), j) -> FromJson(rt, E, X, j, Default(X))
      [] X[1] # "bool" /\ BasicTypeMatch(TypeId(X), FALSE, j) -> JsonRead(X[1], j)
      [] OTHER -> Ok(Default(X), 0)

JsonList(rt, T, X, j) ==
    LET items == IF X[1] = "nullable" THEN SubSeq(Items(j), 1, NullableSize(Len(Items(j)))) ELSE Items(j)
    IN  FoldLeft(LAMBDA acc, e : Then(acc, LAMBDA a : Then(JsonItem(rt, Element(T), Element(X), e),
                                                          LAMBDA r : Ok(Append(a.v, r.v), 0))),
                 Ok(<<>>, 0), items)

(* The same for a blob and a set; what does not match is left out.         *)
JsonBlob(j) ==
    LET items == SelectSeq(Items(j), LAMBDA e : e[1] = "int")
    IN  Ok([i \in DOMAIN items |-> Narrow("int8", items[i][2])], 0)

JsonSet(X, j) == Ok({JsonRead(X[2][1], e).v : e \in {x \in Range(Items(j)) : BasicTypeMatch(X[2][1], FALSE, x)}}, 0)

(* DeserializeMap: keys and values alternate, and a value is not checked.  *)
JsonMapped(rt, E, X, j) ==
    CASE ComplexTypeMatch(TypeId(X), TypeId(E), j) -> FromJson(rt, E, X, j, Default(X))
      [] ~ComplexTypeMatch(TypeId(X), TypeId(E), j) /\ X[1] \in Basics -> JsonRead(X[1], j)
      [] OTHER -> FromJson(FALSE, X, X, j, Default(X))

JsonPairs(rt, T, X, j) ==
    LET items == Items(j)
        Pair(acc, i) == Then(acc, LAMBDA a :
            IF ~BasicTypeMatch(X[2][1], FALSE, items[2 * i - 1]) \/ 2 * i > Len(items) THEN Eof(0)
            ELSE Then(JsonRead(X[2][1], items[2 * i - 1]), LAMBDA k :
                 Then(JsonMapped(rt, T[3], X[3], items[2 * i]), LAMBDA e :
                     Ok([x \in DOMAIN a.v \cup {k.v} |-> IF x = k.v THEN e.v ELSE a.v[x]], 0))))
    IN  FoldLeft(Pair, Ok(<<>>, 0), [i \in 1 .. (Len(items) + 1) \div 2 |-> i])

(* DOMParser::ReadFields to To: S is the schema of the variable's type at  *)
(* compile time, and the one that is given at runtime.  A field without a  *)
(* member in the document is not assigned.                                 *)
DOMMember(rt, f, j) == FindField(j, f, rt /\ f.type = <<"int32">>)

DOMField(rt, f, g, j, old) ==
    LET member == CHOOSE m \in DOMMember(rt, f, j) : TRUE
    IN  IF f.type[1] \in Basics THEN JsonRead(f.type[1], member) ELSE FromJson(rt, f.type, g.type, member, old)

DOMFields(rt, S, X, j, old) ==
    LET XS == Structs[X[2]]  n == Above(S, XS)
        Takers(l, f) == IF DOMMember(rt, f, j) = {} THEN {} ELSE FieldsFor([rt |-> rt], f.type, FieldOf(XS, l + n, f.id))
        Field(l, acc, f) == Then(acc, LAMBDA a :
            LET gs == Takers(l, f) IN
            IF gs = {} THEN a
            ELSE Then(DOMField(rt, f, CHOOSE g \in gs : TRUE, j, a.v[l + n][f.id]),
                      LAMBDA r : Ok([a.v EXCEPT ![l + n][f.id] = r.v], 0)))
        Validated(l, acc) == Then(acc, LAMBDA a :
            IF MissingField(XS, l + n, {f.id : f \in {g \in Range(S[l]) : Takers(l, g) # {}}}) THEN Eof(0) ELSE a)
        Level(acc, l) == Validated(l, FoldLeft(LAMBDA a, f : Field(l, a, f), acc, S[l]))
    IN  FoldLeft(Level, Ok(old, 0), [l \in 1 .. Min({Len(S), Len(XS)}) |-> l])

(* value<T>::Deserialize(X&) from a value of the document.                 *)
FromJson(rt, T, X, j, old) ==
    CASE TypeId(T) # TypeId(X) -> Ok(old, 0)
      [] TypeId(T) = TypeId(X) /\ X[1] \in {"list", "nullable"} -> JsonList(rt, T, X, j)
      [] TypeId(T) = TypeId(X) /\ X[1] = "blob" -> JsonBlob(j)
      [] TypeId(T) = TypeId(X) /\ X[1] = "set" -> JsonSet(X, j)
      [] TypeId(T) = TypeId(X) /\ X[1] = "map" -> JsonPairs(rt, T, X, j)
      [] TypeId(T) = TypeId(X) /\ X[1] = "struct" -> DOMFields(rt, Structs[(IF rt THEN T ELSE X)[2]], X, j, old)

-----------------------------------------------------------------------------
JsonInit == json = {}

Hows == [from : {"object", "tagged", "untagged"}, all : BOOLEAN]

(* An object, or a payload of it under the schema V, is written as JSON.   *)
WriteJson(o, how, V) ==
    /\ json = {}
    /\ how.from # "tagged" => V = o[1]
    /\ json' = {[object |-> o, how |-> how, view |-> V, read |-> {},
                 out |-> JsonWrite([out |-> <<>>, count |-> 0], how, <<"struct", o[1]>>, <<"struct", V>>, o[2]).out]}

(* SimpleJsonReader::Parse and DOMParser::Apply to a variable of type X.   *)
ReadJson(X, rt) == \E j \in json :
    /\ X \in JsonTargets[j.object[1]]
    /\ json' = {[j EXCEPT !.read =
           {[target |-> X, rt |-> rt,
             result |-> Then(ParseJson(j.out, 1), LAMBDA d :
                            FromJson(rt, <<"struct", j.object[1]>>, <<"struct", X>>, d.v, Default(<<"struct", X>>)))]}]}

JsonNext ==
    \/ \E o \in JsonObjects : \E how \in Hows, V \in JsonViews[o[1]] : WriteJson(o, how, V)
    \/ \E X \in DOMAIN Structs, rt \in BOOLEAN : ReadJson(X, rt)

-----------------------------------------------------------------------------
(* What SimpleJsonWriter writes is one complete JSON document, with the    *)
(* commas that _count has to put where they belong across nested brackets  *)
(* and hierarchies that share an object (simple_json_writer.h:57-70, 140), *)
(* and reading it back gives the fields of the object: also when fields    *)
(* were omitted, when unknown ones were written by id, and when the        *)
(* variable's type or the schema used is another version.  The read throws *)
(* exactly when a required field of a struct that it enters is not in the  *)
(* document (DOMParser, RequiredFieldValiadator).                          *)
JsonRoundTrip ==
    \A j \in json :
        /\ LET d == ParseJson(j.out, 1) IN d.ok /\ d.p = Len(j.out) + 1
        /\ \A r \in j.read :
               LET T == <<"struct", j.object[1]>>  X == <<"struct", r.target>>
                   how == [from |-> j.how.from, all |-> j.how.all, entered |-> IF r.rt THEN "payload" ELSE "all"]
               IN  /\ r.result.ok <=> ~Refused(how, T, <<"struct", j.view>>, X, j.object[2])
                   /\ r.result.ok => r.result.v = Seen(T, X, j.object[2])

=============================================================================
