------------------------------- MODULE Streams -----------------------------
(***************************************************************************)
(* Memory streams: OutputMemoryStream (src/cpp/inc/bond/stream/            *)
(* output_buffer.h), InputBuffer (stream/input_buffer.h), OutputCounter    *)
(* (stream/output_counter.h) and the blobs (core/blob.h) in which they     *)
(* keep and share memory.                                                  *)
(*                                                                         *)
(* An output stream is a list of blobs followed by a range of its current  *)
(* buffer.  Bytes are copied into the buffer; a blob that is large enough  *)
(* is chained into the list without a copy.  Content already handed out by *)
(* GetBuffers shares memory with the stream, which writes on.              *)
(*                                                                         *)
(* The items written are byte strings, blobs and variable-length unsigned  *)
(* integers.  A byte holds a group of an integer, a number below More, and *)
(* a continuation bit (7 bits and 1 in the code); uint16_t, uint32_t and   *)
(* uint64_t take at most 3, 5 and 10 bytes and have 2, 4 and 9 full groups.*)
(* A stream is used until one of its calls throws.                         *)
(***************************************************************************)
EXTENDS Integers, Sequences, FiniteSets, SequencesExt

CONSTANTS
    More,           \* the continuation bit, 0x80 in the code
    InitialSize,    \* 4096 in the code
    MaxBufferSize,  \* numeric_limits<uint32_t>::max() >> 1
    Reserves,       \* the sizes reserved by the constructors, 0 for the default one
    MinChaining,    \* _minChainningSize
    MaxChain,       \* _maxChainLength
    Items,          \* what may be written: <<"bytes", s>>, <<"blob", s>>, <<"u16", v>>, ...
    MaxItems        \* bound: items written to one stream

ASSUME StreamsAssumption ==
    /\ More \in Nat /\ More >= 2
    /\ InitialSize \in Nat /\ InitialSize > 0 /\ MaxBufferSize \in Nat
    /\ MinChaining \in Nat /\ MinChaining > 0 /\ MaxChain \in Nat
    /\ Reserves \subseteq Nat

VARIABLES
    heap,           \* the allocated buffers: Seq([bytes, raw, live]); raw memory is not ref-counted
    buffer,         \* _buffer of the output stream, an index in heap, 0 for none
    bufferSize, rangeSize, rangeOffset,     \* _bufferSize, _rangeSize, _rangeOffset
    blobs,          \* _blobs: Seq([buf, off, len])
    items,          \* the items written, oldest first (what the stream should contain)
    taken,          \* content handed out: [blobs, bytes]
    input,          \* the InputBuffer: [blob, pointer], blob = NoBlob before it is created
    got,            \* the items read from it
    held,           \* blobs the application has read: [blob, bytes]
    error           \* "none" or what a call of the output stream has thrown

outVars == <<buffer, bufferSize, rangeSize, rangeOffset, blobs>>
streamVars == <<heap, outVars, items, taken, input, got, held, error>>

-----------------------------------------------------------------------------
(* Variable-length unsigned integers.                                      *)
Groups == [u16 |-> 2, u32 |-> 4, u64 |-> 9]         \* sizeof(T) * 8 / 7
Varints == DOMAIN Groups

(* What is left of a value after n groups: value >>= 7, n times.           *)
Rest(v, n) ==
    LET rest[k \in 0 .. n] == IF k = 0 THEN v ELSE rest[k - 1] \div More IN rest[n]

(* GenericWriteVariableUnsigned and VariableUnsignedUnchecked::Write: a    *)
(* byte for every group until nothing is left; the last byte a type can    *)
(* have is written without looking for more.                               *)
VarintLength(t, v) == Min({n \in 1 .. Groups[t] + 1 : Rest(v, n) = 0 \/ n = Groups[t] + 1})

Varint(t, v) ==
    LET length == VarintLength(t, v)
    IN  [i \in 1 .. length |-> IF i < length THEN (Rest(v, i - 1) % More) + More ELSE Rest(v, i - 1)]

(* OutputCounter::WriteVariableUnsigned: N goes up while there is a value. *)
CountVariable(t, v) == 1 + Cardinality({n \in 1 .. Groups[t] : Rest(v, n) # 0})

(* The value of the groups in the first n bytes, with top above them.      *)
Value(s, n, top) ==
    LET from[i \in 0 .. n] == IF i = n THEN top ELSE (s[i + 1] % More) + More * from[i + 1]
    IN  from[0]

(* GenericReadVariableUnsigned: [v, n], n bytes taken, 0 for end of input. *)
GenericRead(s) ==
    LET ends == {i \in DOMAIN s : s[i] < More}
        n == IF ends = {} THEN 0 ELSE Min(ends)
    IN  [v |-> Value(s, n, 0), n |-> n]

LastBytesOne(t, byte) == 1      \* Mutant: the tenth byte is left unread

(* The specialization for uint64_t: the tenth byte is skipped, its one bit *)
(* being the ninth byte's continuation bit.                                *)
LastBytes(t, byte) == IF t = "u64" /\ byte >= More THEN 2 ELSE 1

(* input_buffer::VariableUnsignedUnchecked: the last byte of the type is   *)
(* taken whole.                                                            *)
UncheckedRead(t, s) ==
    LET last == IF t = "u64" THEN 9 ELSE Groups[t] + 1
        n == Min({i \in 1 .. last : s[i] < More \/ i = last})
    IN  [v |-> Value(s, n - 1, s[n]),
         n |-> n - 1 + IF n = last THEN LastBytes(t, s[n]) ELSE 1]

(* Byte strings, and integers within the width of their type: of the tenth *)
(* group of a uint64_t there is one bit.                                   *)
ASSUME ItemsAssumption ==
    \A x \in Items :
        /\ x = <<x[1], x[2]>>
        /\ IF x[1] \in Varints
           THEN /\ x[2] \in Nat /\ Rest(x[2], Groups[x[1]] + 1) = 0
                /\ x[1] = "u64" => Rest(x[2], 9) <= 1
           ELSE x[1] \in {"bytes", "blob"} /\ x[2] \in Seq(0 .. 2 * More - 1)

-----------------------------------------------------------------------------
(* Blobs.                                                                  *)
Blob(buf, off, len) == [buf |-> buf, off |-> off, len |-> len]
NoBlob == Blob(0, 0, 0)
Freed == -1                                          \* a byte of memory that has been freed

Content(h, b) ==
    [i \in 1 .. b.len |-> IF b.buf # 0 /\ h[b.buf].live THEN h[b.buf].bytes[b.off + i] ELSE Freed]

RangeFrom(b, offset) == Blob(b.buf, b.off + offset, b.len - offset)
SubBlob(b, offset, len) == Blob(b.buf, b.off + offset, len)     \* range, assign

Shared(bytes) == [bytes |-> bytes, raw |-> FALSE, live |-> TRUE]
Raw(bytes) == [bytes |-> bytes, raw |-> TRUE, live |-> TRUE]

(* merge(begin, end): an empty blob, the first one when the others are     *)
(* empty, or a copy of all of them.  Returns the heap and the blob.        *)
MergeBlobs(h, bs) ==
    LET bytes == FlattenSeq([i \in DOMAIN bs |-> Content(h, bs[i])]) IN
    IF bytes = <<>> THEN [heap |-> h, blob |-> NoBlob]
    ELSE IF Len(bytes) = bs[1].len THEN [heap |-> h, blob |-> bs[1]]
    ELSE [heap |-> Append(h, Shared(bytes)), blob |-> Blob(Len(h) + 1, 0, Len(bytes))]

(* merge(x, y)                                                             *)
MergeTwo(h, x, y) ==
    IF x.len = 0 \/ y.len = 0 THEN [heap |-> h, blob |-> IF x.len = 0 THEN y ELSE x]
    ELSE LET bytes == Content(h, x) \o Content(h, y)
         IN  [heap |-> Append(h, Shared(bytes)), blob |-> Blob(Len(h) + 1, 0, Len(bytes))]

(* blob_prolong                                                            *)
ProlongNothing(h, b) == [heap |-> h, blob |-> b]        \* Mutant: raw memory is not copied
Prolong(h, b) ==
    IF b.buf # 0 /\ ~h[b.buf].raw THEN [heap |-> h, blob |-> b]
    ELSE [heap |-> Append(h, Shared(Content(h, b))), blob |-> Blob(Len(h) + 1, 0, b.len)]

-----------------------------------------------------------------------------
StreamsInit ==
    /\ \E r \in Reserves :
           /\ bufferSize = r
           /\ heap = IF r = 0 THEN <<>> ELSE <<Shared([i \in 1 .. r |-> 0])>>
           /\ buffer = IF r = 0 THEN 0 ELSE 1
    /\ rangeSize = 0 /\ rangeOffset = 0 /\ blobs = <<>>
    /\ items = <<>> /\ taken = {} /\ held = {}
    /\ input = [blob |-> NoBlob, pointer |-> 0] /\ got = <<>>
    /\ error = "none"

(* The stream as a record, so that an item can be written in several calls.*)
Stream == [heap |-> heap, buffer |-> buffer, size |-> bufferSize, range |-> rangeSize,
           offset |-> rangeOffset, blobs |-> blobs, error |-> "none"]

(* Copying n bytes into the current buffer at the end of the range.        *)
CopyIn(s, data) ==
    IF data = <<>> THEN s
    ELSE [s EXCEPT !.heap[s.buffer].bytes =
                        [i \in DOMAIN @ |-> LET k == i - s.offset - s.range
                                            IN  IF k \in DOMAIN data THEN data[k] ELSE @[i]],
                   !.range = @ + Len(data)]

SnapRange(s) == IF s.range > 0 THEN Append(s.blobs, Blob(s.buffer, s.offset, s.range)) ELSE s.blobs

(* The allocation of a larger buffer for the next n bytes, in which the    *)
(* stream goes on behind the snapped range.                                *)
Failed(s) == [s EXCEPT !.blobs = SnapRange(s), !.error = "bad_alloc"]
NewSize(s, n) ==
    LET grown == s.size + IF s.size # 0 THEN s.size \div 2 ELSE InitialSize
    IN  IF grown > n THEN grown ELSE n
NewBuffer(s, n) ==
    [s EXCEPT !.blobs = SnapRange(s), !.size = NewSize(s, n), !.offset = 0, !.range = 0,
              !.heap = Append(@, Shared([i \in 1 .. NewSize(s, n) |-> 0])), !.buffer = Len(s.heap) + 1]

(* Write(const void*, size): fill the buffer, then continue in a new one.  *)
Write(s, data) ==
    LET room == s.size - s.range - s.offset
        part == IF room > Len(data) THEN Len(data) ELSE room
        s1 == CopyIn(s, SubSeq(data, 1, part))
        rest == SubSeq(data, part + 1, Len(data))
    IN  IF rest = <<>> THEN s1
        ELSE IF s1.size > MaxBufferSize THEN Failed(s1)
        ELSE CopyIn(NewBuffer(s1, Len(rest)), rest)

(* Mutant: the range behind a chained blob begins where the snapped one    *)
(* did.                                                                    *)
WriteBlobInPlace(s, b) ==
    IF b.len < MinChaining \/ Len(s.blobs) >= MaxChain THEN Write(s, Content(s.heap, b))
    ELSE [s EXCEPT !.blobs = Append(SnapRange(s), b), !.range = 0]

(* Write(const blob&): copy a small blob, chain a large one behind the     *)
(* snapped range; the rest of the buffer stays in use.                     *)
WriteBlob(s, b) ==
    IF b.len < MinChaining \/ Len(s.blobs) >= MaxChain THEN Write(s, Content(s.heap, b))
    ELSE [s EXCEPT !.blobs = Append(SnapRange(s), b), !.offset = @ + s.range, !.range = 0]

(* WriteVariableUnsigned: straight into the buffer when the longest        *)
(* encoding fits; otherwise it writes a byte and calls itself for the      *)
(* rest, which may fit into the buffer that the byte has made grow.        *)
HasRoom(s, t) == Groups[t] + s.range + s.offset < s.size

WriteVarint(s, t, v) ==
    LET after[j \in 0 .. Groups[t]] ==      \* the stream at the call after j bytes
            IF j = 0 THEN s ELSE Write(after[j - 1], <<(Rest(v, j - 1) % More) + More>>)
        last == Min({j \in 0 .. Groups[t] : HasRoom(after[j], t) \/ after[j].error # "none" \/ Rest(v, j + 1) = 0})
    IN  CASE HasRoom(after[last], t) -> CopyIn(after[last], Varint(t, Rest(v, last)))
          [] ~HasRoom(after[last], t) /\ after[last].error # "none" -> after[last]
          [] ~HasRoom(after[last], t) /\ after[last].error = "none" -> Write(after[last], <<Rest(v, last)>>)

Install(s) ==
    /\ heap' = s.heap /\ buffer' = s.buffer /\ bufferSize' = s.size /\ rangeSize' = s.range
    /\ rangeOffset' = s.offset /\ blobs' = s.blobs /\ error' = s.error

Usable == error = "none" /\ Len(items) < MaxItems /\ input.blob = NoBlob

WriteItem(x) ==
    /\ Usable
    /\ items' = Append(items, x)
    /\ \/ x[1] = "bytes" /\ Install(Write(Stream, x[2]))
       \/ x[1] = "blob" /\ Install(WriteBlob([Stream EXCEPT !.heap = Append(@, Shared(x[2]))],
                                             Blob(Len(heap) + 1, 0, Len(x[2]))))
       \/ x[1] \in Varints /\ Install(WriteVarint(Stream, x[1], x[2]))
    /\ UNCHANGED <<taken, input, got, held>>

(* GetBuffers: the blobs of the list and the current range.                *)
Buffers == SnapRange(Stream)
GetBuffers ==
    /\ Usable
    /\ taken' = taken \cup {[blobs |-> Buffers, bytes |-> FlattenSeq([i \in DOMAIN Buffers |-> Content(heap, Buffers[i])])]}
    /\ UNCHANGED <<heap, outVars, items, input, got, held, error>>

(* GetBuffer, the content as one blob, and an InputBuffer over it.         *)
GetBuffer ==
    LET m == MergeBlobs(heap, blobs) IN MergeTwo(m.heap, m.blob, Blob(buffer, rangeOffset, rangeSize))

Open ==
    /\ Usable /\ items # <<>>
    /\ LET g == GetBuffer IN heap' = g.heap /\ input' = [blob |-> g.blob, pointer |-> 0]
    /\ UNCHANGED <<outVars, items, taken, got, held, error>>

(* The payload arrives in memory that the application manages: InputBuffer *)
(* over a raw pointer.                                                     *)
OpenRaw ==
    /\ Usable /\ items # <<>>
    /\ LET g == GetBuffer
       IN  /\ heap' = Append(g.heap, Raw(Content(g.heap, g.blob)))
           /\ input' = [blob |-> Blob(Len(g.heap) + 1, 0, g.blob.len), pointer |-> 0]
    /\ UNCHANGED <<outVars, items, taken, got, held, error>>

(* InputBuffer::ReadVariableUnsigned                                       *)
ReadVarint(t) ==
    LET s == SubSeq(Content(heap, input.blob), input.pointer + 1, input.blob.len)
    IN  IF input.blob.len > input.pointer + Groups[t] THEN UncheckedRead(t, s) ELSE GenericRead(s)

(* Reading the next item the way it was written.                           *)
ReadItem ==
    /\ input.blob # NoBlob /\ Len(got) < Len(items)
    /\ LET x == items[Len(got) + 1] IN
       IF x[1] \in Varints
       THEN LET r == ReadVarint(x[1])
            IN  /\ got' = Append(got, <<x[1], r.v>>)
                /\ input' = [input EXCEPT !.pointer = @ + r.n]
                /\ UNCHANGED held
       ELSE LET b == SubBlob(input.blob, input.pointer, Len(x[2]))
            IN  /\ input.blob.len - input.pointer >= Len(x[2])
                /\ got' = Append(got, <<x[1], Content(heap, b)>>)
                /\ input' = [input EXCEPT !.pointer = @ + Len(x[2])]
                /\ held' = IF x[1] = "blob" THEN held \cup {[blob |-> b, bytes |-> Content(heap, b)]} ELSE held
    /\ UNCHANGED <<heap, outVars, items, taken, error>>

(* The application makes sure that the blobs it keeps own their memory     *)
(* (blob_prolong), and then lets go of the raw memory.                     *)
ReleaseRaw ==
    /\ input.blob # NoBlob /\ heap[input.blob.buf].raw /\ heap[input.blob.buf].live
    /\ Len(got) = Len(items) /\ Cardinality(held) = 1
    /\ LET h == CHOOSE h \in held : TRUE
           g == Prolong(heap, h.blob)
       IN  /\ held' = {[h EXCEPT !.blob = g.blob]}
           /\ heap' = [g.heap EXCEPT ![input.blob.buf].live = FALSE]
    /\ UNCHANGED <<outVars, items, taken, input, got, error>>

StreamsNext ==
    \/ \E x \in Items : WriteItem(x)
    \/ GetBuffers \/ Open \/ OpenRaw \/ ReadItem \/ ReleaseRaw

StreamsSpec == StreamsInit /\ [][StreamsNext]_streamVars

-----------------------------------------------------------------------------
(* What an item is on the wire.                                            *)
Wire(x) == IF x[1] \in Varints THEN Varint(x[1], x[2]) ELSE x[2]
Log == FlattenSeq([i \in DOMAIN items |-> Wire(items[i])])

(* The chain of blobs and the current range are, at every moment, exactly  *)
(* the bytes written in the order in which they were written, whichever    *)
(* were copied, chained, or written by the fast path of varints, and lie   *)
(* within the buffer (OutputMemoryStream::Write, WriteVariableUnsigned).   *)
ContentIsLog ==
    error = "none" =>
        /\ FlattenSeq([i \in DOMAIN Buffers |-> Content(heap, Buffers[i])]) = Log
        /\ LET g == GetBuffer IN Content(g.heap, g.blob) = Log
        /\ rangeOffset + rangeSize <= bufferSize
        /\ buffer # 0 => bufferSize = Len(heap[buffer].bytes)

(* Content that GetBuffers handed out shares memory with the stream and    *)
(* does not change however the stream is written on; a blob read from raw  *)
(* memory and prolonged survives that memory.                              *)
HandedOutIsStable ==
    /\ \A t \in taken : FlattenSeq([i \in DOMAIN t.blobs |-> Content(heap, t.blobs[i])]) = t.bytes
    /\ \A h \in held : Content(heap, h.blob) = h.bytes

(* What InputBuffer reads is what was written, by the unchecked and the    *)
(* checked decoding alike, up to the end of the buffer, and OutputCounter  *)
(* counts what OutputMemoryStream writes (VariableUnsignedUnchecked,       *)
(* GenericReadVariableUnsigned, VariableUnsigned).                         *)
ReadsWhatWasWritten ==
    /\ got = SubSeq(items, 1, Len(got))
    /\ input.pointer <= input.blob.len
    /\ (input.blob # NoBlob /\ Len(got) = Len(items)) => input.pointer = input.blob.len
    /\ \A i \in DOMAIN items : items[i][1] \in Varints =>
           CountVariable(items[i][1], items[i][2]) = Len(Wire(items[i]))

=============================================================================
