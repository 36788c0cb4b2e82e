---------------------------- MODULE BinaryWriter ---------------------------
(***************************************************************************)
(* A protocol writer driven by the Serializer transform                    *)
(* (src/cpp/inc/bond/core/transforms.h).  One writer serializes one object *)
(* after another into one output; an object is a sequence of calls of the  *)
(* writer, and a step is one call.                                         *)
(*                                                                         *)
(* CompactBinary v2 puts the length in front of every struct, so it needs  *)
(* the lengths before it writes: DoublePassApply (core/detail/             *)
(* double_pass.h) runs the serialization twice.  Pass 0 counts bytes and   *)
(* leaves the lengths in _lengths, using _stack for the structs that are   *)
(* still open; pass 1 writes, taking the lengths in the order of the       *)
(* struct beginnings through _it.  A writer whose _it is set is in pass 1  *)
(* and does not count again.                                               *)
(***************************************************************************)
EXTENDS Serializer

CONSTANTS
    Samples,        \* the objects to write: a set of <<type, value>>
    Followers,      \* the ones to write behind another object: a bound
    Targets,        \* the types of the variables they are read into
    MaxObjects      \* how many objects one writer writes

VARIABLES
    proto,      \* the protocol of the writer
    pass,       \* "idle", "pass0" or "pass1"
    current,    \* the object being written
    script,     \* the calls of the writer that a pass makes for it
    calls,      \* the ones that are still to be made
    output,     \* the bytes written
    count,      \* pass 0: OutputCounter::_count
    stack,      \* pass 0: _stack, the indices in _lengths of the structs that are open
    lengths,    \* pass 0: _lengths
    it,         \* _it: 0 for NULL, otherwise the index of the next length
    begin,      \* where the current object begins in output
    written,    \* the objects written completely, with their places
    objects,    \* how many objects have been started
    transcoded  \* whether output was transcoded from a "tagged" or "untagged" payload, or "none"

writerVars == <<proto, pass, current, script, calls, output, count, stack, lengths, it, begin, written, objects,
           transcoded>>

-----------------------------------------------------------------------------
WriterInit ==
    /\ proto \in Protocols
    /\ pass = "idle" /\ current = <<>> /\ script = <<>> /\ calls = <<>>
    /\ output = <<>> /\ begin = 1
    /\ count = 0 /\ stack = <<>> /\ lengths = <<>> /\ it = 0
    /\ written = <<>> /\ objects = 0 /\ transcoded = "none"

same == <<proto, current, script, begin, written, objects, transcoded>>

NeedPass0 == proto = "compact2" /\ it = 0

Start(cs, double) ==
    /\ script' = cs /\ calls' = cs
    /\ IF double
       THEN pass' = "pass0" /\ count' = 0 /\ stack' = <<>> /\ lengths' = <<>>
       ELSE pass' = "pass1" /\ UNCHANGED <<count, stack, lengths>>

(* Apply: a new object.  DoublePassApply starts with a new Pass0 writer.   *)
Serialize(s) ==
    /\ pass = "idle" /\ objects < MaxObjects
    /\ objects > 0 => s \in Followers
    /\ objects' = objects + 1
    /\ current' = s
    /\ Start(Calls(s[1], s[2]), NeedPass0)
    /\ begin' = Len(output) + 1
    /\ UNCHANGED <<proto, output, it, written, transcoded>>

(* The same for a payload: a new writer, of another protocol perhaps, to a *)
(* new output, driven by the parser of the payload.                        *)
Transcode(pr) ==
    /\ pass = "idle" /\ written # <<>> /\ transcoded = "none"
    /\ transcoded' = IF proto \in Tagged THEN "tagged" ELSE "untagged"
    /\ LET w == Last(written) IN
       /\ current' = <<w.type, w.value>>
       /\ Start(Parse(proto, output, w.begin, w.type).v, pr = "compact2")
    /\ proto' = pr /\ output' = <<>> /\ begin' = 1 /\ written' = <<>> /\ it' = 0
    /\ UNCHANGED objects

More == calls # <<>>
Next1 == calls' = Tail(calls)

(* Field is a call of Serializer: it is replaced by the calls of the       *)
(* writer that it makes.                                                   *)
Field ==
    /\ pass \in {"pass0", "pass1"} /\ More /\ Head(calls).op = "Field"
    /\ LET c == Head(calls)
           n == Len(WriteFieldBegin(proto, c.t, c.id))
       IN  IF proto \in Tagged /\ c.omit
           THEN Next1 /\ UNCHANGED <<output, count>>
           ELSE /\ calls' = c.value \o Tail(calls)
                /\ output' = IF pass = "pass1" THEN output \o Bytes(proto, c) ELSE output
                /\ count' = IF pass = "pass0" THEN count + n ELSE count
    /\ UNCHANGED <<same, pass, stack, lengths, it>>

(* CompactBinaryWriter<OutputCounter>::LengthBegin and LengthEnd.          *)
LengthBegin ==
    /\ stack' = Append(stack, Len(lengths) + 1)
    /\ lengths' = Append(lengths, count)

LengthEnd ==
    LET i == Last(stack)
        length == count + 1 - lengths[i]            \* BT_STOP has been counted
    IN  /\ stack' = Front(stack)
        /\ lengths' = [lengths EXCEPT ![i] = length]
        /\ count' = count + 1 + Len(WriteVariableUnsigned(length))

CountStruct ==
    /\ pass = "pass0" /\ More
    /\ \/ Head(calls).op = "StructBegin" /\ ~Head(calls).base /\ LengthBegin /\ UNCHANGED count
       \/ Head(calls).op = "StructBegin" /\ Head(calls).base /\ UNCHANGED <<stack, lengths, count>>
       \/ Head(calls).op = "StructEnd" /\ ~Head(calls).base /\ LengthEnd
       \/ Head(calls).op = "StructEnd" /\ Head(calls).base /\ count' = count + 1 /\ UNCHANGED <<stack, lengths>>
    /\ Next1
    /\ UNCHANGED <<same, pass, output, it>>

CountValue ==
    /\ pass = "pass0" /\ More /\ Head(calls).op \notin {"StructBegin", "StructEnd", "Field"}
    /\ count' = count + Len(Bytes(proto, Head(calls)))
    /\ Next1
    /\ UNCHANGED <<same, pass, output, stack, lengths, it>>

(* The end of pass 0: WithPass0 points _it at the lengths.                 *)
WithPass0 ==
    /\ pass = "pass0" /\ ~More
    /\ pass' = "pass1" /\ it' = 1
    /\ calls' = script
    /\ UNCHANGED <<same, output, count, stack, lengths>>

WriteStructBegin ==
    /\ pass = "pass1" /\ More /\ Head(calls).op = "StructBegin"
    /\ IF proto = "compact2" /\ ~Head(calls).base
       THEN /\ output' = output \o WriteVariableUnsigned(IF it \in DOMAIN lengths THEN lengths[it] ELSE 99)
            /\ it' = it + 1
       ELSE UNCHANGED <<output, it>>
    /\ Next1
    /\ UNCHANGED <<same, pass, count, stack, lengths>>

WriteCall ==
    /\ pass = "pass1" /\ More /\ Head(calls).op \notin {"StructBegin", "Field"}
    /\ output' = output \o Bytes(proto, Head(calls))
    /\ Next1
    /\ UNCHANGED <<same, pass, count, stack, lengths, it>>

Pass1LeavesIt == UNCHANGED it       \* Mutant: ~Pass1 does not reset _it

(* ~Pass1                                                                  *)
Pass1 == it' = 0

(* The end of pass 1, and a stream that throws on the way (an allocation   *)
(* that fails): both run ~Pass1.                                           *)
Finish ==
    /\ pass = "pass1" /\ ~More
    /\ pass' = "idle" /\ Pass1
    /\ written' = Append(written, [type |-> current[1], value |-> current[2], begin |-> begin, end |-> Len(output) + 1])
    /\ UNCHANGED <<proto, current, script, calls, output, count, stack, lengths, begin, objects, transcoded>>

Throw ==
    /\ pass = "pass1" /\ More
    /\ pass' = "idle" /\ Pass1 /\ calls' = <<>>
    /\ UNCHANGED <<same, output, count, stack, lengths>>

WriterNext ==
    \/ \E s \in Samples : Serialize(s)
    \/ \E pr \in Protocols : Transcode(pr)
    \/ Field \/ CountStruct \/ CountValue \/ WithPass0
    \/ WriteStructBegin \/ WriteCall \/ Finish \/ Throw

WriterSpec == WriterInit /\ [][WriterNext]_writerVars

-----------------------------------------------------------------------------
(* An object has been written and nothing behind it.                       *)
Written == pass = "idle" /\ written # <<>> /\ Last(written).end = Len(output) + 1

(* The payload as read with a compile-time and with a runtime schema.      *)
Sources == {[pr |-> proto, b |-> output, rt |-> rt] : rt \in BOOLEAN}

(* An object is read back as it was written, whatever was written or left  *)
(* half-written in front of it by the same writer, also after it was       *)
(* transcoded to any protocol, with compile-time and runtime schemas, and  *)
(* the reader ends exactly behind it: headers, lengths and the two passes  *)
(* agree (CompactBinaryWriter, FastBinaryWriter, SimpleBinaryWriter and    *)
(* their readers).                                                         *)
RoundTrip ==
    Written => \A s \in Sources :
        LET w == Last(written) IN
        \E r \in {Deserialize(s, w.begin, w.type, w.type, Default(w.type))} :
            r.ok /\ r.p = w.end /\ r.v = w.value

(* What the reader believes of a payload of type T when it fills an X: the *)
(* compile-time schema for a tagged protocol may be that of the variable,  *)
(* only the type id is known to be right.                                  *)
Beliefs(T, X) == IF proto \in Tagged /\ TypeId(T) = TypeId(X) THEN {T, X} ELSE {T}

(* Whether a variable of type X has to refuse the object w: a required     *)
(* field of it is missing, or, when the parser goes by the variable's own  *)
(* schema, a tagged payload is less deep than its hierarchy.               *)
MustRefuse(s, w, T, X) ==
    LET exact == s.rt /\ T = w.type
        complete == s.pr \in Untagged \/ transcoded = "untagged"        \* nothing was omitted
        how == [from |-> IF complete THEN "untagged" ELSE "tagged", all |-> FALSE,
                entered |-> IF exact \/ s.pr \in Untagged THEN "payload" ELSE "all"]
    IN  \/ Refused(how, w.type, <<"unknown">>, X, w.value)
        \/ /\ how.entered = "all" /\ w.type[1] = "struct" /\ X[1] = "struct"
           /\ Above(Structs[w.type[2]], Structs[X[2]]) > 0

(* Whatever the type of the variable, reading a value and skipping it move *)
(* the reader to the same place, the end of the value, so that what        *)
(* follows is read correctly; the read throws only where a required field  *)
(* or a base is missing.  The variable gets the value, promoted without    *)
(* loss, when the types match, and of a struct the fields that match; when *)
(* they do not, it keeps what it had instead of a part of the payload      *)
(* (is_matching, value<T>, value_common::Deserialize, bond::Skip,          *)
(* SkipType, MatchingTypeContainer, MapByKey, To, the struct lengths of    *)
(* v2).                                                                    *)
SkipAgreesWithRead ==
    Written => \A s \in Sources :
        LET w == Last(written) IN
        /\ Skip(s, w.begin, w.type).p = w.end
        /\ \A X \in Targets : \A T \in Beliefs(w.type, X) :
            \E r \in {Deserialize(s, w.begin, T, X, Default(X))} :
                /\ r.ok <=> ~MustRefuse(s, w, T, X)
                /\ r.ok => r.p = w.end
                /\ (r.ok /\ (X[1] = T[1] \/ X[1] \in Basics) /\ X[1] # "struct" /\ T = w.type /\ Matching(T, X)) => r.v = w.value
                /\ (r.ok /\ X[1] = "struct" /\ w.type[1] = "struct") => r.v = Seen(w.type, X, w.value)
                /\ (X[1] \in Basics /\ T[1] \in Basics /\ r.v # Default(X)) =>
                       T[1] \in Strings \/ Width[T[1]] <= Width[X[1]]

(* A payload that ends too early is not taken for a complete one by a      *)
(* variable that has a place for all of it, be it of the writer's type or  *)
(* of a wider one: every strict prefix makes Deserialize throw             *)
(* (InputBuffer::EofException).  What is skipped is another matter, for    *)
(* InputBuffer::Skip past the end returns without moving and without an    *)
(* exception: a variable that leaves a part out may accept a prefix, but   *)
(* in no case does reading or skipping go beyond the end of the buffer.    *)
(* Stated for an object in a new output: a read does not look back.        *)
TruncationContained ==
    (Written /\ begin = 1 /\ transcoded = "none") => \A s \in Sources :
        LET w == Last(written) IN
        \A k \in (w.begin - 1) .. (w.end - 2) : \A cut \in {[s EXCEPT !.b = SubSeq(output, 1, k)]} :
            /\ Skip(cut, w.begin, w.type).p <= k + 1
            /\ \A X \in Targets \cup {w.type} : X[1] = w.type[1] =>
                   \E r \in {Deserialize(cut, w.begin, w.type, X, Default(X))} :
                       r.p <= k + 1 /\ (r.ok => ~TakesAll(w.type, X))

=============================================================================
