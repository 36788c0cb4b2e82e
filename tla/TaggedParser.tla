---------------------------- MODULE TaggedParser ---------------------------
(***************************************************************************)
(* DynamicParser (src/cpp/inc/bond/core/parser.h) over a payload of a      *)
(* tagged protocol, with the inheritance logic of ParserInheritance        *)
(* (core/detail/inheritance.h) and the transforms it drives: To            *)
(* (core/transforms.h), which fills an object, Serializer, which writes    *)
(* another payload, and Merger (core/merge.h), which writes an object over *)
(* a payload.                                                              *)
(*                                                                         *)
(* The parser walks two sequences in step: the fields of a schema and the  *)
(* field tags found in the payload.  It exists twice in the code, for a    *)
(* schema known at compile time (a recursion over the type list of fields) *)
(* and for a RuntimeSchema (a loop over a vector); one parse uses one of   *)
(* them.  A step of the model is one iteration.                            *)
(*                                                                         *)
(* A schema is a sequence of structs, the root base first, each a sequence *)
(* of fields; a payload is a sequence of structs, each a sequence of tags  *)
(* in the order in which a Bond writer emits them (by id).  A field's      *)
(* value is left out: a tag written to the output says where its value     *)
(* came from.                                                              *)
(***************************************************************************)
EXTENDS Naturals, Sequences, FiniteSets

CONSTANTS
    Schema,         \* Seq(Seq([id, type, required]))
    Payloads,       \* the payloads to parse: a set of Seq(Seq([id, type]))
    Parses          \* the parses to run: <<kind of schema, transform, depth>>, where depth
                    \* is how many structs of Schema the transform expects

Modes == {"compile", "runtime"}
Transforms == {"To", "Serializer", "Merger"}

ASSUME ParsesAssumption ==
    /\ Parses \subseteq Modes \X Transforms \X (1 .. Len(Schema))
    /\ \A p \in Parses : /\ p[2] = "Merger" => p[1] = "compile"
                         /\ p[2] # "To" => p[3] = Len(Schema)

Basic == {"int16", "int32"}
Types == Basic \cup {"list", "struct"}

Invalid == 65535                                    \* invalid_field_id

(* What reflection::FieldTemplate says of a field of a struct (its id is   *)
(* never invalid_field_id, reflection.h:117), and a field tag.             *)
SchemaFields == [id : 0 .. Invalid - 1, type : Types, required : BOOLEAN]
FieldTags == [id : 0 .. Invalid, type : Types]

Ids(fields) == {fields[i].id : i \in 1 .. Len(fields)}

Sorted(fields) == \A i, j \in 1 .. Len(fields) : i < j => fields[i].id < fields[j].id

ASSUME SchemaAssumption ==
    /\ Schema \in Seq(Seq(SchemaFields))
    /\ \A l \in 1 .. Len(Schema) : Sorted(Schema[l])

ASSUME PayloadAssumption ==
    \A p \in Payloads : /\ p \in Seq(Seq(FieldTags)) /\ Len(p) >= 1
                        /\ \A l \in 1 .. Len(p) : Sorted(p[l])

VARIABLES
    mode,       \* which of the two parsers
    transform,  \* which transform
    depth,      \* hierarchy_depth of the type that To fills, a prefix of Schema
    payload,    \* the payload
    object,     \* Merger: the fields of the object, as <<level, id>>, that are not default
    plevel,     \* the struct of the payload that is being read
    pos,        \* the tag of that struct that ReadFieldBegin has returned
    level,      \* the struct of the schema that is being read
    field,      \* the field of that struct the parser is at
    phase,      \* "fields", "unknown", "done" or "exception"
    required,   \* _required of the validator of the current level
    assigned,   \* To: the fields assigned, as <<level, id>>
    outTags     \* Serializer, Merger: the payload written

parse == <<mode, transform, depth, payload, object>>
parserVars == <<parse, plevel, pos, level, field, phase, required, assigned, outTags>>

(* next_required_field<fields, minId>                                      *)
NextRequired(fields, minId) ==
    LET ids == {fields[i].id : i \in {j \in 1 .. Len(fields) : fields[j].required /\ fields[j].id >= minId}}
    IN  IF ids = {} THEN Invalid ELSE CHOOSE x \in ids : \A y \in ids : x <= y

AllFields == UNION {{l} \X Ids(Schema[l]) : l \in 1 .. Len(Schema)}

(* A payload whose hierarchy is shallower than the schema's is an error    *)
(* that To reports.  The writing transforms are given none: they would     *)
(* read on behind the struct.                                              *)
ParserInit ==
    /\ \E p \in Parses : mode = p[1] /\ transform = p[2] /\ depth = p[3]
    /\ payload \in Payloads
    /\ transform # "To" => Len(payload) >= Len(Schema)
    /\ object \in (IF transform = "Merger" THEN SUBSET AllFields ELSE {{}})
    /\ plevel = 1 /\ pos = 1
    /\ level = 1 /\ field = 1
    /\ phase = "fields"
    /\ required = NextRequired(Schema[1], 0)
    /\ assigned = {}
    /\ outTags = << <<>> >>

-----------------------------------------------------------------------------
(* The protocol reader: what ReadFieldBegin returns at a position.         *)
Tag(l, i) ==
    IF i <= Len(payload[l]) THEN payload[l][i]
    ELSE [id |-> 0, type |-> IF l < Len(payload) THEN "STOP_BASE" ELSE "STOP"]

tag == Tag(plevel, pos)
Stop(t) == t.type \in {"STOP", "STOP_BASE"}

(* ReadSubsequentField within a struct, and behind the end of a base.      *)
Advance == pos' = pos + 1 /\ UNCHANGED plevel
AdvanceLevel == plevel' = plevel + 1 /\ pos' = 1

Fields == Schema[level]
FieldAt == Fields[field]

-----------------------------------------------------------------------------
(* Transform callbacks.  Each says what becomes of <<required, assigned,   *)
(* outTags>> and, where To may throw, of phase.                            *)

(* is_matching_basic: a narrower integer may be read into a wider one.     *)
Matches(from, to) == from = to \/ (from = "int16" /\ to = "int32")

WithTag(tok, from) ==
    [outTags EXCEPT ![Len(outTags)] = Append(@, [id |-> tok.id, type |-> tok.type, from |-> from])]

WriteTag(tok, from) == outTags' = WithTag(tok, from) /\ UNCHANGED <<phase, required, assigned>>

Ignore == UNCHANGED <<phase, required, assigned, outTags>>

(* To::Field of the fast path: RequiredFieldValiadator::Validate<Head>,    *)
(* then the assignment.                                                    *)
AssignField(f) ==
    IF f.required /\ required # f.id
    THEN phase' = "exception" /\ UNCHANGED <<required, assigned, outTags>>
    ELSE /\ required' = IF f.required THEN NextRequired(Fields, f.id + 1) ELSE required
         /\ assigned' = assigned \cup {<<level, f.id>>}
         /\ UNCHANGED <<phase, outTags>>

(* omit_field: a field of the object is left out if it is optional and     *)
(* default, which a struct never is (is_default).                          *)
OmitField(f) == f.type # "struct" /\ ~f.required /\ <<level, f.id>> \notin object

(* Merger: a struct field is merged with the payload's, another one is     *)
(* written as the object has it, unless it may be omitted.                 *)
WriteObject(f, payloadHasIt) ==
    IF f.type = "struct" /\ payloadHasIt THEN WriteTag(f, "merged")
    ELSE IF OmitField(f) THEN Ignore
    ELSE WriteTag(f, "object")

(* transform.Field(Head(), value), for a tag of exactly the field's type.  *)
FastField(f) ==
    CASE transform = "To"         -> AssignField(f)
      [] transform = "Serializer" -> WriteTag(f, "payload")
      [] transform = "Merger"     -> WriteObject(f, TRUE)

(* transform.Field(id, metadata, value<type>): To looks for a field of     *)
(* that id among those the type matches and else skips the value; the      *)
(* others write what the payload has.                                      *)
ValueField(tok) ==
    IF transform # "To" THEN WriteTag(tok, "payload")
    ELSE \/ \E i \in 1 .. Len(Fields) :
                Fields[i].id = tok.id /\ Matches(tok.type, Fields[i].type) /\ AssignField(Fields[i])
         \/ /\ ~\E i \in 1 .. Len(Fields) : Fields[i].id = tok.id /\ Matches(tok.type, Fields[i].type)
            /\ Ignore

(* Mutant: unknown fields are skipped by every transform.                  *)
UnknownTagSkipped(tok) == Ignore

UnknownTag(tok) == IF transform = "To" THEN Ignore ELSE WriteTag(tok, "payload")

(* Mutant: Merger inherits the Serializer's OmittedField.                  *)
OmittedFieldIgnored(f) == Ignore

(* The tagged binary writers have no WriteFieldOmitted.                    *)
OmittedField(f) == IF transform = "Merger" THEN WriteObject(f, FALSE) ELSE Ignore

-----------------------------------------------------------------------------
(* ReadFields for a compile-time schema.                                   *)

(* Mutant: the loop leaves the schema field after every tag.               *)
EverySchemaField == field' = field + 1

(* The test at the end of the loop: go on to the next schema field unless  *)
(* the tag just read may still be at or before this one.                   *)
NextSchemaField ==
    LET next == Tag(plevel, pos + 1)
    IN  field' = IF FieldAt.id < next.id \/ Stop(next) THEN field + 1 ELSE field

InCompileTime == phase = "fields" /\ mode = "compile"

ExactMatch ==
    /\ InCompileTime /\ field <= Len(Fields)
    /\ FieldAt.id = tag.id /\ FieldAt.type = tag.type
    /\ FastField(FieldAt)
    /\ NextSchemaField /\ Advance
    /\ UNCHANGED <<parse, level>>

UnknownFieldOrTypeMismatch ==
    /\ InCompileTime /\ field <= Len(Fields)
    /\ ~(FieldAt.id = tag.id /\ FieldAt.type = tag.type)
    /\ FieldAt.id >= tag.id /\ ~Stop(tag)
    /\ IF FieldAt.type \in Basic /\ tag.id = FieldAt.id /\ tag.type \in Basic
       THEN ValueField(tag)
       ELSE UnknownTag(tag)
    /\ NextSchemaField /\ Advance
    /\ UNCHANGED <<parse, level>>

SchemaFieldOmitted ==
    /\ InCompileTime /\ field <= Len(Fields)
    /\ FieldAt.id < tag.id \/ Stop(tag)
    /\ OmittedField(FieldAt)
    /\ field' = field + 1
    /\ UNCHANGED <<parse, level, plevel, pos>>

(* The overload for l_end: what is left of the struct is unknown.          *)
BehindLastField ==
    /\ InCompileTime /\ field > Len(Fields) /\ ~Stop(tag)
    /\ UnknownTag(tag)
    /\ Advance
    /\ UNCHANGED <<parse, level, field>>

-----------------------------------------------------------------------------
(* ReadFields for a runtime schema.                                        *)

InRuntime == phase = "fields" /\ mode = "runtime"

RuntimeOmitted ==
    /\ InRuntime /\ field <= Len(Fields)
    /\ FieldAt.id < tag.id \/ Stop(tag)
    /\ OmittedField(FieldAt)
    /\ field' = field + 1
    /\ UNCHANGED <<parse, level, plevel, pos>>

RuntimeField ==
    /\ InRuntime /\ ~Stop(tag)
    /\ field <= Len(Fields) => FieldAt.id >= tag.id
    /\ IF field <= Len(Fields) /\ FieldAt.id = tag.id
       THEN /\ field' = field + 1
            /\ IF tag.type \in Basic \/ FieldAt.type = tag.type THEN ValueField(tag) ELSE UnknownTag(tag)
       ELSE field' = field /\ UnknownTag(tag)
    /\ Advance
    /\ UNCHANGED <<parse, level>>

-----------------------------------------------------------------------------
(* transform.End() of a level: To validates that no required field is      *)
(* still awaited.                                                          *)
EndTransform(after) ==
    IF transform = "To" /\ required # Invalid
    THEN phase' = "exception" /\ UNCHANGED required
    ELSE phase' = after /\ UNCHANGED required

(* ReadFields of a base struct returns done = (type == BT_STOP): To's Base *)
(* throws then, and otherwise the derived struct reads its own fields.     *)
EndOfBase ==
    /\ phase = "fields" /\ field > Len(Fields) /\ Stop(tag) /\ level < depth
    /\ IF tag.type = "STOP" \/ (transform = "To" /\ required # Invalid)
       THEN phase' = "exception" /\ UNCHANGED <<level, field, plevel, pos, required, outTags>>
       ELSE /\ level' = level + 1 /\ field' = 1
            /\ required' = NextRequired(Schema[level + 1], 0)
            /\ AdvanceLevel
            /\ outTags' = IF transform = "To" THEN outTags ELSE Append(outTags, <<>>)
            /\ UNCHANGED phase
    /\ UNCHANGED <<parse, assigned>>

(* The last struct the transform expects: ReadUnknownFields follows.       *)
EndOfFields ==
    /\ phase = "fields" /\ field > Len(Fields) /\ Stop(tag) /\ level = depth
    /\ phase' = "unknown"
    /\ UNCHANGED <<parse, plevel, pos, level, field, required, assigned, outTags>>

(* ReadUnknownFields: everything up to the end of the struct, the structs  *)
(* derived from the expected one included.                                 *)
ReadUnknownFields ==
    /\ phase = "unknown"
    /\ CASE tag.type = "STOP"      -> /\ EndTransform("done")
                                      /\ UNCHANGED <<plevel, pos, assigned, outTags>>
         [] tag.type = "STOP_BASE" -> /\ outTags' = IF transform = "To" THEN outTags ELSE Append(outTags, <<>>)
                                      /\ AdvanceLevel
                                      /\ UNCHANGED <<phase, required, assigned>>
         [] OTHER                  -> UnknownTag(tag) /\ Advance
    /\ UNCHANGED <<parse, level, field>>

(* The parse has returned or thrown: the only state without a next step.   *)
Ended == phase \in {"done", "exception"} /\ UNCHANGED parserVars

ParserNext ==
    \/ ExactMatch
    \/ UnknownFieldOrTypeMismatch
    \/ SchemaFieldOmitted
    \/ BehindLastField
    \/ RuntimeOmitted
    \/ RuntimeField
    \/ EndOfBase
    \/ EndOfFields
    \/ ReadUnknownFields
    \/ Ended

ParserSpec == ParserInit /\ [][ParserNext]_parserVars

-----------------------------------------------------------------------------
(* The fields of the target that the payload holds in a type that can be   *)
(* read into them: what the object should get, whichever parser is used.   *)
Readable ==
    UNION {{<<l, f.id>> : f \in {g \in {Schema[l][i] : i \in 1 .. Len(Schema[l])} :
                                    \E j \in 1 .. Len(payload[l]) :
                                        payload[l][j].id = g.id /\ Matches(payload[l][j].type, g.type)}}
           : l \in 1 .. depth}

(* A completed To has assigned exactly the readable fields: no field of    *)
(* the object is missed because unknown, mismatched or omitted fields are  *)
(* around it, and the compile-time and the runtime parser agree on that.   *)
(* "Required fields must be present in the payload during deserialization  *)
(* (otherwise an exception is thrown)" (doc/src/bond_cpp.md:948): a parse  *)
(* ends well only if every required field was readable, and fails only for *)
(* one that was not or for a payload with too few base structs.  A parse   *)
(* that ends well leaves the reader at the end of the struct, where the    *)
(* enclosing struct continues.                                             *)
ObjectMatchesPayload ==
    LET tooShallow == Len(payload) < depth
        satisfied == \A l \in 1 .. depth : \A i \in 1 .. Len(Schema[l]) :
                         Schema[l][i].required => <<l, Schema[l][i].id>> \in Readable
    IN  /\ phase = "done" /\ transform = "To" => assigned = Readable /\ ~tooShallow /\ satisfied
        /\ phase = "exception" => transform = "To" /\ (tooShallow \/ ~satisfied)
        /\ phase = "done" => plevel = Len(payload) /\ pos = Len(payload[plevel]) + 1

(* "bonded<T> preserves unknown fields" (doc/src/bond_cpp.md:728): the     *)
(* payload a Serializer writes has the tags of the one it was given, base  *)
(* by base and in order, whatever the schema knows of them; a merge keeps  *)
(* at least those the schema does not know.  What either writes is again a *)
(* payload: also where Merger inserts the object's fields, tags come by    *)
(* increasing id.                                                          *)
TagsOnly(p) == [l \in 1 .. Len(p) |-> [i \in 1 .. Len(p[l]) |-> [id |-> p[l][i].id, type |-> p[l][i].type]]]
UnknownFieldsKept ==
    /\ phase = "done" /\ transform = "Serializer" => TagsOnly(outTags) = payload
    /\ phase = "done" /\ transform = "Merger" =>
           /\ Len(outTags) = Len(payload)
           /\ \A l \in 1 .. Len(payload) : \A i \in 1 .. Len(payload[l]) :
                  (l > Len(Schema) \/ payload[l][i].id \notin Ids(Schema[l])) =>
                      \E j \in 1 .. Len(outTags[l]) :
                          outTags[l][j] = [id |-> payload[l][i].id, type |-> payload[l][i].type, from |-> "payload"]
    /\ \A l \in 1 .. Len(outTags) : Sorted(outTags[l])

(* The object's fields that a merge has not written although they are not  *)
(* default.                                                                *)
Lost == {f \in object : ~\E j \in 1 .. Len(outTags[f[1]]) :
                             outTags[f[1]][j].id = f[2] /\ outTags[f[1]][j].from # "payload"}

(* A merge drops a field of the object only if the payload has the field   *)
(* in another type, or has an unknown tag between it and the schema field  *)
(* before it.                                                              *)
MergeLossIsKnown ==
    phase = "done" /\ transform = "Merger" =>
        \A f \in Lost :
            LET schemaIds == Ids(Schema[f[1]])
                typeOf == CHOOSE t \in Types : \E i \in 1 .. Len(Schema[f[1]]) :
                              Schema[f[1]][i].id = f[2] /\ Schema[f[1]][i].type = t
            IN  \E j \in 1 .. Len(payload[f[1]]) :
                    LET t == payload[f[1]][j]
                    IN  \/ t.id = f[2] /\ t.type # typeOf
                        \/ t.id < f[2] /\ \A s \in schemaIds : s < f[2] => s < t.id

(* "For fields that are present in the object's schema, the value in the   *)
(* object is serialized" (doc/src/bond_cpp.md:898): a merge writes every   *)
(* field of the object that is not default.                                *)
MergeWritesObject == phase = "done" /\ transform = "Merger" => Lost = {}
=============================================================================
