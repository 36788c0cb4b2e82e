------------------------------- MODULE Bonded ------------------------------
(***************************************************************************)
(* bonded<T> (src/cpp/inc/bond/core/bonded.h, bonded_void.h): a struct     *)
(* that stays serialized until somebody needs it.  A bonded<T, Reader&> is *)
(* a handle on the reader of a payload that is being parsed: whoever gets  *)
(* it may deserialize it, keep it as a bonded<T> or ignore it, and its     *)
(* destructor skips what nobody has read.  A bonded<T> holds a             *)
(* ProtocolReader of its own: an object, or a reader and the runtime       *)
(* schema of the payload, if it has one.                                   *)
(*                                                                         *)
(* Messages carry one bonded field and a trailer behind it.  Tagged        *)
(* protocols write the bonded field as a struct, transcoded or copied;     *)
(* untagged ones as a blob that holds a marshaled payload.                 *)
(***************************************************************************)
EXTENDS Serializer

CONSTANTS
    Objects,        \* what is put into bonded objects: a set of <<struct name, value>>
    Bases,          \* struct name -> the names of its bases and of itself
    Slots,          \* the bonded<T> variables of the application
    MaxSteps        \* bound: how many times payloads are written

VARIABLES
    slot,       \* slot -> a bonded<T>, or Empty
    phase,      \* "idle", "visit": a handle exists, "behind": it is destroyed
    outer,      \* the reader of the message being parsed: [pr, b, p]
    handle,     \* the handles on it: Seq([skip, live])
    read,       \* whether a handle has moved the reader already
    content,    \* history: what the message carries, [name, value]
    end,        \* history: where the bonded field ends
    steps

bondedVars == <<slot, phase, outer, handle, read, content, end, steps>>

Trailer == 300                                      \* the field behind the bonded one
Empty == [type |-> "none"]
Source(r, rt) == [pr |-> r.pr, b |-> r.b, rt |-> rt]

(* A ProtocolReader over a ValueReader, and one over a payload.            *)
ValueReader(v) == [pr |-> "value", v |-> v]
Reader(pr, b, p) == [pr |-> pr, b |-> b, p |-> p]

(* A bonded<type> with its reader and runtime schema; name and value are   *)
(* history: the struct that it stands for.                                 *)
MakeBonded(type, reader, schema, name, value) ==
    [type |-> type, reader |-> reader, schema |-> schema, name |-> name, value |-> value]

(* What detail::Parse parses with: the runtime schema or that of T.        *)
ParserSchema(x) == <<"struct", IF x.schema = "none" THEN x.type ELSE x.schema>>

(* The part of an object of a derived struct that belongs to a base.       *)
Slice(v, name) == SubSeq(v, 1, Len(Structs[name]))

(* An untagged payload is read, and written, with its exact schema: the    *)
(* schema is all that is known of it.                                      *)
ExactFor(x, w) == (x.reader.pr \in Untagged \/ w \in Untagged) => ParserSchema(x)[2] = x.name

-----------------------------------------------------------------------------
(* Protocol versions and magic numbers.                                    *)
WriteVersion(pr) == ByProtocol(pr, Compact!WriteVersion(Version(pr)), Fast!WriteVersion, Simple!WriteVersion(Version(pr)))

(* NextProtocol: the first protocol whose reader accepts the header, in    *)
(* the version that the header says.                                       *)
NextProtocol(b) ==
    LET magic == ReadFixed(b, 1, 2, FALSE)
        version == ReadFixed(b, 3, 2, FALSE)
        First(v) == CASE Compact!ReadVersion(magic.v, v) -> {IF v = 1 THEN "compact1" ELSE "compact2"}
                      [] ~Compact!ReadVersion(magic.v, v) /\ Simple!ReadVersion(magic.v, v) ->
                           {IF v = 1 THEN "simple1" ELSE "simple2"}
                      [] ~Compact!ReadVersion(magic.v, v) /\ ~Simple!ReadVersion(magic.v, v) ->
                           IF Fast!ReadVersion(magic.v, v) THEN {"fast"} ELSE {}
    IN  IF magic.ok /\ version.ok THEN First(version.v) ELSE {}

(* Unmarshal to a bonded: a reader behind the header, or no reader for an  *)
(* unknown protocol.                                                       *)
Unmarshal(b) == {Reader(pr, b, 5) : pr \in NextProtocol(b)}

SameMagic(pr, w) == ByProtocol(pr, 1, 2, 3) = ByProtocol(w, 1, 2, 3)            \* Mutant: the versions are not compared
IsProtocolVersionSame(pr, w) == pr = w

(* FastPassThrough, PassThrough: skip the struct and copy what was skipped.*)
PassThrough(r, T) == SubSeq(r.b, r.p, Skip(Source(r, FALSE), r.p, T).p - 1)

(* Parser<T, Schema, Transform> for a ValueReader: the object as a T.      *)
SerializeValue(w, x) == Emit(w, Calls(<<"struct", x.type>>, Slice(x.reader.v, x.type)))

(* bonded<T>::Serialize: Parser<T, Schema, Transform>::Apply with the      *)
(* transform Serializer.                                                   *)
Serialize(w, x) ==
    LET r == x.reader  T == ParserSchema(x) IN
    CASE r.pr = "value" -> SerializeValue(w, x)
      [] r.pr # "value" /\ IsProtocolVersionSame(r.pr, w) -> PassThrough(r, T)
      [] OTHER -> Emit(w, Parse(r.pr, r.b, r.p, T).v)

(* Marshaler                                                               *)
Marshal(w, x) == WriteVersion(w) \o Serialize(w, x)

(* MarshalToBlob and ReadBlob: a 32 bit size, and CompactBinary v1.        *)
MarshalToBlob(x) == LET data == Marshal("compact1", x) IN Fixed(Len(data), 4) \o data

ReadBlob(r) ==
    LET size == ReadFixed(r.b, r.p, 4, FALSE)
        after == SkipBytes(r.b, size.p, size.v).p
    IN  [blob |-> SubSeq(r.b, size.p, after - 1), p |-> after]

(* bonded<T>::Deserialize(X&)                                              *)
Deserialized(x, X) ==
    Deserialize(Source(x.reader, x.schema # "none"), x.reader.p,
                IF x.schema = "none" THEN X ELSE ParserSchema(x), X, Default(X))

(* Merger: the fields of the object replace those of the payload; what is  *)
(* unknown to the object's type is passed on.                              *)
MergeCalls(r, name, v) ==
    LET S == Structs[name]
        cs == Parse(r.pr, r.b, r.p, <<"struct", name>>).v
        ends == SelectSeq([i \in DOMAIN cs |-> i], LAMBDA i : cs[i].op = "StructEnd")
        rest == IF Len(ends) < Len(S) THEN <<>> ELSE SubSeq(cs, ends[Len(S)], Len(cs))
    IN  Begins(S)
          \o FlattenSeq([l \in DOMAIN S |-> FieldCalls(S[l], v[l]) \o (IF l < Len(S) THEN End(TRUE) ELSE <<>>)])
          \o rest

(* InsituMerge writes and reopens the payload in the default version, 1.   *)
DefaultVersion(pr) == CASE pr = "compact2" -> "compact1" [] pr = "simple2" -> "simple1" [] OTHER -> pr

-----------------------------------------------------------------------------
BondedInit ==
    /\ slot = [i \in Slots |-> Empty]
    /\ phase = "idle" /\ outer = Reader("none", <<>>, 1) /\ handle = <<>> /\ read = FALSE
    /\ content = [name |-> "none", value |-> <<>>] /\ end = 1
    /\ steps = 0

message == <<phase, outer, handle, read, content, end>>
Step == steps < MaxSteps /\ steps' = steps + 1

(* bonded(const U& value): an object of a derived struct is sliced.        *)
Capture(i, o, type) ==
    /\ steps = 0 /\ \A k \in Slots : slot[k] = Empty
    /\ slot' = [slot EXCEPT ![i] = MakeBonded(type, ValueReader(o[2]), "none", type, Slice(o[2], type))]
    /\ UNCHANGED <<message, steps>>

(* bonded(const bonded<U>&): the casts between base and derived struct,    *)
(* copies included.  The source keeps its own reader.                      *)
Cast(i, j, type) ==
    /\ i # j /\ slot[i] # Empty /\ slot[i].reader.pr # "value"
    /\ type \in Bases[slot[i].name]
    /\ slot[j] = Empty
    /\ slot' = [slot EXCEPT ![j] = [slot[i] EXCEPT !.type = type]]
    /\ UNCHANGED <<message, steps>>

(* bonded<T> to bonded<void> and back: the cast to void gives it the       *)
(* schema of T, and from then on it stands for a T.                        *)
CastThroughVoid(i) ==
    /\ slot[i] # Empty /\ slot[i].reader.pr # "value"
    /\ slot[i].schema = "none"
    /\ slot' = [slot EXCEPT ![i].schema = slot[i].type, ![i].name = slot[i].type,
                            ![i].value = Slice(@, slot[i].type)]
    /\ UNCHANGED <<message, steps>>

(* bonded<T>::Deserialize(bonded<U>&) copies the reader only.              *)
Rebind(i, j) ==
    /\ i # j /\ slot[i] # Empty /\ slot[j] = Empty
    /\ slot' = [slot EXCEPT ![j] = [slot[i] EXCEPT !.schema = "none"]]
    /\ UNCHANGED <<message, steps>>

(* bonded<T>::Merge with an object of a base of the payload's struct.      *)
MergeObject(i, o) ==
    /\ slot[i] # Empty /\ slot[i].reader.pr # "value"
    /\ o[1] \in Bases[slot[i].name]
    /\ slot[i].reader.pr \in Untagged => o[1] = slot[i].name
    /\ Step
    /\ LET x == slot[i]
           w == DefaultVersion(x.reader.pr)
           n == Len(Structs[o[1]])
       IN  slot' = [slot EXCEPT ![i].reader = Reader(w, Emit(w, MergeCalls(x.reader, o[1], o[2])), 1),
                                ![i].value = [l \in DOMAIN @ |-> IF l <= n THEN o[2][l] ELSE @[l]]]
    /\ UNCHANGED message

(* Marshal to protocol w and Unmarshal to a bonded<type>.                  *)
Remarshal(i, w) ==
    /\ slot[i] # Empty
    /\ ExactFor(slot[i], w)
    /\ Step
    /\ LET b == Marshal(w, slot[i]) IN
       \E r \in Unmarshal(b) : slot' = [slot EXCEPT ![i].reader = r, ![i].schema = "none"]
    /\ UNCHANGED message

(* A call over gRPC: the request travels in a ByteBuffer, in CompactBinary *)
(* v1 without a header, and arrives as a lazy_bonded, which makes a bonded *)
(* of it when it is first asked.                                           *)
ToByteBuffer(x) == Serialize("compact1", x)
FromByteBuffer(bytes) == Reader("compact1", bytes, 1)

CallRemote(i) ==
    /\ slot[i] # Empty
    /\ ExactFor(slot[i], "compact1")
    /\ Step
    /\ slot' = [slot EXCEPT ![i].reader = FromByteBuffer(ToByteBuffer(slot[i])), ![i].schema = "none"]
    /\ UNCHANGED message

-----------------------------------------------------------------------------
(* A message with the bonded in slot i is serialized with w and parsing    *)
(* begins; the parser makes a bonded<T, Reader&> of the field.             *)
FieldBytes(w, x) == IF w \in Tagged THEN Serialize(w, x) ELSE MarshalToBlob(x)

MessageCalls(bytes) ==
    <<[op |-> "StructBegin", base |-> FALSE]>>
      \o Call(1, "struct", <<[op |-> "PassThrough", bytes |-> bytes]>>)
      \o Call(2, "uint16", Calls(<<"uint16">>, Trailer))
      \o End(FALSE)

Send(i, w) ==
    /\ phase = "idle" /\ slot[i] # Empty
    /\ ExactFor(slot[i], IF w \in Tagged THEN w ELSE "compact1")
    /\ Step
    /\ \E bytes \in {FieldBytes(w, slot[i])} :
           \E b \in {Emit(w, MessageCalls(bytes))} :
               LET first == IF w \in Tagged THEN ReaderFieldBegin(w, b, ReaderStructBegin(w, b, 1).p).p ELSE 1
               IN  outer' = Reader(w, b, first) /\ end' = first + Len(bytes)
    /\ phase' = "visit" /\ handle' = <<[skip |-> TRUE, live |-> TRUE]>> /\ read' = FALSE
    /\ content' = [name |-> slot[i].name, value |-> slot[i].value]
    /\ slot' = [slot EXCEPT ![i] = Empty]

(* A handle that was moved from is only destroyed.                         *)
Visiting(h) == phase = "visit" /\ h \in DOMAIN handle /\ handle[h].live

(* To::Field assigns the handle to a field of type bonded<type>.  The      *)
(* marshaled one is read as a blob, the other copies the reader and leaves *)
(* the skipping to the destructor of the handle.                           *)
AssignToField(h, i, type) ==
    /\ Visiting(h) /\ h = Len(handle) /\ ~read /\ slot[i] = Empty /\ type \in Bases[content.name]
    /\ LET Bond(r) == MakeBonded(type, r, "none", content.name, content.value) IN
       \/ /\ outer.pr \in Tagged
          /\ slot' = [slot EXCEPT ![i] = Bond(outer)]
          /\ UNCHANGED <<handle, outer, read>>
       \/ /\ outer.pr \in Untagged
          /\ \E r \in Unmarshal(ReadBlob(outer).blob) : slot' = [slot EXCEPT ![i] = Bond(r)]
          /\ handle' = [handle EXCEPT ![h].skip = FALSE]
          /\ outer' = [outer EXCEPT !.p = ReadBlob(outer).p]
          /\ read' = TRUE
    /\ UNCHANGED <<phase, content, end, steps>>

(* Deserialize and Skip of the handle: both clear _skip first.             *)
SkipField(r) == IF r.pr \in Tagged THEN Skip(Source(r, FALSE), r.p, UnknownType("struct")).p ELSE ReadBlob(r).p

Consume(h) ==
    /\ Visiting(h) /\ h = Len(handle) /\ ~read
    /\ handle' = [handle EXCEPT ![h].skip = FALSE]
    /\ outer' = [outer EXCEPT !.p = SkipField(outer)]
    /\ read' = TRUE
    /\ UNCHANGED <<slot, phase, content, end, steps>>

MovedAsIs(x) == x                           \* Mutant: the source still skips
Moved(x) == [x EXCEPT !.skip = FALSE]       \* bonded(bonded&&): _skip of the source

(* The only way a handle is passed on here: each copy or cast of a         *)
(* bonded<T, Reader&> would skip by itself.                                *)
Move(h) ==
    /\ Visiting(h) /\ Len(handle) = 1
    /\ handle' = <<Moved(handle[h]), handle[h]>>
    /\ UNCHANGED <<slot, phase, outer, read, content, end, steps>>

(* ~bonded                                                                 *)
DestroyHandle(h) ==
    /\ Visiting(h)
    /\ handle' = [handle EXCEPT ![h].live = FALSE]
    /\ outer' = IF handle[h].skip THEN [outer EXCEPT !.p = SkipField(outer)] ELSE outer
    /\ phase' = IF \E k \in DOMAIN handle : handle'[k].live THEN phase ELSE "behind"
    /\ UNCHANGED <<slot, read, content, end, steps>>

(* The parser goes on behind the bonded field and the message is done.     *)
ReadTrailer ==
    /\ phase = "behind"
    /\ phase' = "idle" /\ handle' = <<>> /\ outer' = Reader("none", <<>>, 1)
    /\ content' = [name |-> "none", value |-> <<>>] /\ end' = 1 /\ read' = FALSE
    /\ UNCHANGED <<slot, steps>>

Application(i) ==
    \/ \E o \in Objects : MergeObject(i, o) \/ \E type \in Bases[o[1]] : Capture(i, o, type)
    \/ \E j \in Slots : Rebind(i, j) \/ \E type \in DOMAIN Structs : Cast(i, j, type)
    \/ CastThroughVoid(i) \/ CallRemote(i)
    \/ \E w \in Protocols : Remarshal(i, w) \/ Send(i, w)

Transform(h) ==
    \/ \E i \in Slots, type \in DOMAIN Structs : AssignToField(h, i, type)
    \/ Consume(h) \/ Move(h) \/ DestroyHandle(h)

BondedNext ==
    \/ phase = "idle" /\ \E i \in Slots : Application(i)
    \/ \E h \in 1 .. 2 : Transform(h)
    \/ ReadTrailer

BondedSpec == BondedInit /\ [][BondedNext]_bondedVars

-----------------------------------------------------------------------------
(* A bonded object stands for the same struct however often it was cast,   *)
(* marshaled, sent in a message of any protocol and kept without being     *)
(* read, and merged: deserializing it gives all fields of the struct, also *)
(* the ones that are not in the type it was declared with                  *)
(* (bonded<T>::Deserialize, Serialize, Merge, FastPassThrough).  It is     *)
(* stated between messages: parsing one only fills an empty variable.      *)
BondedKeepsStruct ==
    phase = "idle" => \A i \in Slots : (slot[i] # Empty /\ slot[i].reader.pr # "value") =>
        \E r \in {Deserialized(slot[i], <<"struct", slot[i].name>>)} : r.ok /\ r.v = slot[i].value

(* Whatever the transform did with the handle, reading, keeping, moving or *)
(* ignoring it, the reader of the message is behind the bonded field when  *)
(* the handle is gone, once and not twice (~bonded and its _skip).         *)
ReaderIsBehindField ==
    phase = "behind" =>
        /\ outer.p = end
        /\ LET p == IF outer.pr \in Tagged THEN ReaderFieldBegin(outer.pr, outer.b, outer.p).p ELSE outer.p
           IN  ReaderBasic(outer.pr, outer.b, p, "uint16").v = Trailer

=============================================================================
