--------------------------- MODULE StreamsProofs ----------------------------
(***************************************************************************)
(* For every size of the buffers, every chaining threshold and every set   *)
(* of items: an output stream contains what was written to it, what it has *)
(* handed out does not change, and an input over its content reads it      *)
(* back. The operators' own properties are those of StreamLemmas.          *)
(***************************************************************************)
EXTENDS StreamLemmas

(* b lies within its memory, which may be raw, or freed.                   *)
Within(h, b) == b \in BlobType /\ b.buf \in 1 .. Len(h) /\ b.off + b.len <= Len(h[b.buf].bytes)

(* The output stream is in order and has the items written, unless a call  *)
(* has thrown.                                                             *)
OutputInv ==
    /\ Fine(Stream) /\ items \in Seq(Items) /\ error \in {"none", "bad_alloc"}
    /\ error = "none" => Out(Stream) = WireLog(items, Len(items))

(* What GetBuffers handed out is settled, hence out of reach of the        *)
(* stream.                                                                 *)
TakenInv ==
    \A t \in taken :
        /\ t.blobs \in Seq(BlobType) /\ AllSettled(Stream, t.blobs)
        /\ FlattenSeq(Contents(heap, t.blobs)) = t.bytes

(* The reader is behind the items it has read, in a blob with the content  *)
(* of the stream; the blob's memory is live until all are read.            *)
InputInv ==
    /\ input \in [blob : BlobType, pointer : Nat]
    /\ got \in Seq(Items) /\ Len(got) <= Len(items) /\ \A i \in 1 .. Len(got) : got[i] = items[i]
    /\ input.blob = NoBlob => got = <<>> /\ held = {} /\ input.pointer = 0
    /\ input.blob # NoBlob =>
           /\ error = "none" /\ Within(heap, input.blob)
           /\ input.blob.len = Len(WireLog(items, Len(items)))
           /\ input.pointer = Len(WireLog(items, Len(got)))
           /\ heap[input.blob.buf].live => Content(heap, input.blob) = WireLog(items, Len(items))
           /\ ~heap[input.blob.buf].live => Len(got) = Len(items)

(* The blobs that the application has read have the content they had.      *)
HeldInv ==
    \A h \in held :
        /\ h \in [blob : BlobType, bytes : Seq(Int)] /\ Within(heap, h.blob)
        /\ Content(heap, h.blob) = h.bytes

(* The inductive invariant.                                                *)
StreamsInv == OutputInv /\ TakenInv /\ InputInv /\ HeldInv

-----------------------------------------------------------------------------
(* The fields of the stream in the current state.                          *)
LEMMA StreamIs ==
    /\ Stream.heap = heap /\ Stream.buffer = buffer /\ Stream.size = bufferSize /\ Stream.range = rangeSize
    /\ Stream.offset = rangeOffset /\ Stream.blobs = blobs /\ Stream.error = "none"
  BY DEF Stream

(* A heap that is left alone.                                              *)
LEMMA SameSharedReflexive == ASSUME NEW h \in Seq(Cell) PROVE SameShared(h, h)
  <1>1. Len(h) \in Nat
    OBVIOUS
  <1> QED
    BY <1>1 DEF SameShared

(* A new stream, with or without a reserved buffer.                        *)
LEMMA InitStreamsInv == StreamsInit => StreamsInv
  <1> SUFFICES ASSUME StreamsInit PROVE StreamsInv
    OBVIOUS
  <1>0. /\ rangeSize = 0 /\ rangeOffset = 0 /\ blobs = <<>> /\ items = <<>> /\ taken = {} /\ held = {}
        /\ input = [blob |-> NoBlob, pointer |-> 0] /\ got = <<>> /\ error = "none"
    BY DEF StreamsInit
  <1>r. PICK r \in Reserves : /\ bufferSize = r
                              /\ heap = IF r = 0 THEN <<>> ELSE <<Shared([i \in 1 .. r |-> 0])>>
                              /\ buffer = IF r = 0 THEN 0 ELSE 1
    BY DEF StreamsInit
  <1>1. r \in Nat
    BY <1>r, StreamsAssumption
  <1>2. PICK z : z = [i \in 1 .. r |-> 0]
    OBVIOUS
  <1>3. z \in Seq(Int) /\ Len(z) = r
    <2>1. z \in [1 .. r -> Int]
      BY <1>2
    <2> QED
      BY <2>1, <1>1, FunctionIsSeq
  <1>4. PICK c : c = Shared(z)
    OBVIOUS
  <1>5. c \in Cell /\ c.bytes = z /\ c.live /\ ~c.raw
    BY <1>4, <1>3 DEF Shared, Cell
  <1>6. heap = (IF r = 0 THEN <<>> ELSE <<c>>) /\ heap \in Seq(Cell)
    BY <1>r, <1>2, <1>4, <1>5
  <1>s. PICK s : s = Stream
    OBVIOUS
  <1>7. s.heap = heap /\ s.buffer = buffer /\ s.size = r /\ s.range = 0 /\ s.offset = 0 /\ s.blobs = <<>>
    BY <1>s, <1>0, <1>r, StreamIs
  <1>8. s \in StreamType
    <2>1. buffer \in Nat /\ <<>> \in Seq(BlobType)
      BY <1>r
    <2> QED
      BY <1>s, <1>0, <1>r, <1>1, <1>6, <2>1 DEF Stream, StreamType
  <1>9. Fine(s)
    <2>1. Used(s) = 0 /\ Used(s) <= s.size
      BY <1>7, <1>1 DEF Used
    <2>2. s.buffer = 0 => s.size = 0
      BY <1>7, <1>r
    <2>3. s.buffer # 0 => Lies(s.heap, Blob(s.buffer, 0, s.size)) /\ Len(s.heap[s.buffer].bytes) = s.size
      <3> SUFFICES ASSUME s.buffer # 0 PROVE Lies(s.heap, Blob(s.buffer, 0, s.size))
            /\ Len(s.heap[s.buffer].bytes) = s.size
        OBVIOUS
      <3>1. s.buffer = 1 /\ s.heap = <<c>>
        BY <1>6, <1>7, <1>r
      <3>2. s.heap[s.buffer] = c /\ s.buffer \in 1 .. Len(s.heap) /\ 0 + s.size <= r
        BY <3>1, <1>7, <1>1
      <3> QED
        BY <3>2, <1>3, <1>5, <1>7, BlobIs DEF Lies
    <2>4. \A i \in DOMAIN s.blobs : Settled(s, s.blobs[i])
      BY <1>7
    <2> QED
      BY <1>8, <2>1, <2>2, <2>3, <2>4 DEF Fine
  <1>10. Out(s) = <<>>
    <2>1. SnapRange(s) = <<>>
      BY <1>7 DEF SnapRange
    <2>2. Contents(s.heap, <<>>) = <<>>
      BY DEF Contents
    <2> QED
      BY <2>1, <2>2, FlattenEmpty DEF Out
  <1>11. OutputInv
    <2>1. Len(items) = 0 /\ items \in Seq(Items)
      BY <1>0
    <2>2. WireLog(items, Len(items)) = <<>>
      BY <2>1, WireLogEmpty
    <2> QED
      BY <1>s, <1>9, <1>10, <1>0, <2>1, <2>2 DEF OutputInv
  <1>12. TakenInv /\ HeldInv
    BY <1>0 DEF TakenInv, HeldInv
  <1>13. InputInv
    <2>1. NoBlob \in BlobType
      BY BlobTyped DEF NoBlob
    <2>2. input \in [blob : BlobType, pointer : Nat] /\ input.blob = NoBlob /\ input.pointer = 0
      BY <1>0, <2>1
    <2>3. Len(got) = 0 /\ Len(items) = 0 /\ got \in Seq(Items)
      BY <1>0
    <2> QED
      BY <2>2, <2>3, <1>0 DEF InputInv
  <1> QED
    BY <1>11, <1>12, <1>13 DEF StreamsInv

(* A call that writes the encoding of an item keeps the invariant.         *)
LEMMA InstallInv ==
    ASSUME StreamsInv, Usable, NEW x \in Items, items' = Append(items, x),
           NEW u, Writes(Stream, u, Wire(x)), Install(u), UNCHANGED <<taken, input, got, held>>
    PROVE  StreamsInv'
  <1>s. PICK s : s = Stream
    OBVIOUS
  <1>w. PICK w : w = Stream'
    OBVIOUS
  <1>0. /\ Fine(s) /\ items \in Seq(Items) /\ error = "none" /\ Out(s) = WireLog(items, Len(items))
             /\ s \in StreamType
        /\ input.blob = NoBlob /\ got = <<>> /\ held = {} /\ input.pointer = 0
             /\ input \in [blob : BlobType, pointer : Nat]
    BY <1>s DEF StreamsInv, OutputInv, InputInv, Usable, Fine
  <1>1. Fine(u) /\ Keeps(s, u) /\ (u.error = "none" => Out(u) = Out(s) \o Wire(x)) /\ u \in StreamType
    BY <1>s DEF Writes, Fine
  <1>2. /\ w.heap = heap' /\ w.buffer = buffer' /\ w.size = bufferSize' /\ w.range = rangeSize'
        /\ w.offset = rangeOffset' /\ w.blobs = blobs'
    BY <1>w DEF Stream
  <1>3. w.heap = u.heap /\ SameStream(u, w)
    BY <1>2 DEF Install, SameStream
  <1>4. w \in StreamType
    <2>1. heap' \in Seq(Cell) /\ buffer' \in Nat /\ bufferSize' \in Nat /\ rangeSize' \in Nat
            /\ rangeOffset' \in Nat /\ blobs' \in Seq(BlobType)
      BY <1>1, StreamFacts DEF Install
    <2> QED
      BY <2>1, <1>w DEF Stream, StreamType
  <1>5. SameShared(u.heap, w.heap)
    BY <1>1, <1>3, StreamFacts, SameSharedReflexive
  <1>6. Fine(w) /\ Out(w) = Out(u)
    BY <1>1, <1>3, <1>4, <1>5, SharedFine
  <1>7. items' \in Seq(Items) /\ WireLog(items', Len(items')) = WireLog(items, Len(items)) \o Wire(x)
    <2>1. Append(items, x) \in Seq(Items)
      BY <1>0, AppendProperties
    <2>2. WireLog(Append(items, x), Len(Append(items, x))) = WireLog(items, Len(items)) \o Wire(x)
      BY <1>0, WireLogAppend
    <2> QED
      BY <2>1, <2>2, Zenon
  <1>8. OutputInv'
    <2>1. error' = u.error /\ error' \in {"none", "bad_alloc"}
      BY <1>1 DEF Install, StreamType
    <2>2. error' = "none" => Out(w) = WireLog(items', Len(items'))
      BY <2>1, <1>0, <1>1, <1>6, <1>7
    <2> QED
      BY <2>1, <2>2, <1>6, <1>7, <1>w DEF OutputInv
  <1>9. TakenInv'
    <2> SUFFICES ASSUME NEW t \in taken
                 PROVE  t.blobs \in Seq(BlobType) /\ AllSettled(w, t.blobs)
                          /\ FlattenSeq(Contents(heap', t.blobs)) = t.bytes
      BY <1>w DEF TakenInv
    <2>1. t.blobs \in Seq(BlobType) /\ AllSettled(s, t.blobs) /\ FlattenSeq(Contents(s.heap, t.blobs)) = t.bytes
      BY <1>s, StreamIs DEF StreamsInv, TakenInv
    <2>2. AllSettled(u, t.blobs) /\ Contents(u.heap, t.blobs) = Contents(s.heap, t.blobs)
      BY <1>0, <1>1, <2>1, ContentsKept
    <2>3. AllSettled(w, t.blobs) /\ Contents(w.heap, t.blobs) = Contents(u.heap, t.blobs)
      BY <1>1, <1>3, <1>4, <1>5, <2>1, <2>2, SharedContents
    <2> QED
      BY <2>1, <2>2, <2>3, <1>2
  <1>10. InputInv'
    <2>1. input' = input /\ got' = <<>> /\ held' = {} /\ Len(got') = 0 /\ got' \in Seq(Items)
            /\ Len(items') \in Nat
      BY <1>0, <1>7
    <2> QED
      BY <2>1, <1>0 DEF InputInv
  <1>11. HeldInv'
    BY <1>0 DEF HeldInv
  <1> QED
    BY <1>8, <1>9, <1>10, <1>11 DEF StreamsInv

(* Each of the three kinds of items is written so. A blob comes in memory  *)
(* of its own, which no stream writes to.                                  *)
LEMMA WriteItemInv ==
    ASSUME StreamsInv, NEW x \in Items, WriteItem(x) PROVE StreamsInv'
  <1>s. PICK s : s = Stream
    OBVIOUS
  <1>0. Fine(s) /\ s.error = "none" /\ s \in StreamType /\ s.heap = heap
    BY <1>s, StreamIs DEF StreamsInv, OutputInv, Fine
  <1>1. Usable /\ items' = Append(items, x) /\ UNCHANGED <<taken, input, got, held>>
    BY DEF WriteItem
  <1>x. /\ x[1] \in Varints => InWidth(x[1], x[2])
        /\ x[1] \notin Varints => x[1] \in {"bytes", "blob"} /\ x[2] \in Seq(Int) /\ Wire(x) = x[2]
        /\ x[1] \in Varints => Wire(x) = Varint(x[1], x[2])
        /\ Wire(x) \in Seq(Int)
    BY ItemTyped
  <1>v. x[1] \in Varints => x[1] # "bytes" /\ x[1] # "blob"
    BY DEF Varints, Groups
  <1>2. CASE x[1] = "bytes" /\ Install(Write(Stream, x[2]))
    <2>1. Writes(s, Write(s, x[2]), Wire(x))
      BY <1>0, <1>2, <1>x, <1>v, WriteWrites
    <2> QED
      BY <2>1, <1>s, <1>1, <1>2, InstallInv
  <1>3. CASE x[1] \in Varints /\ Install(WriteVarint(Stream, x[1], x[2]))
    <2>1. Writes(s, WriteVarint(s, x[1], x[2]), Wire(x))
      BY <1>0, <1>3, <1>x, WriteVarintWrites
    <2> QED
      BY <2>1, <1>s, <1>1, <1>3, InstallInv
  <1>4. CASE /\ x[1] = "blob"
             /\ Install(WriteBlob([Stream EXCEPT !.heap = Append(@, Shared(x[2]))], Blob(Len(heap) + 1, 0, Len(x[2]))))
    <2>1. PICK d \in Seq(Int) : d = x[2] /\ d = Wire(x)
      BY <1>4, <1>x, <1>v
    <2>c. PICK c : c = Shared(d)
      OBVIOUS
    <2>h. PICK h : h = Append(s.heap, c)
      OBVIOUS
    <2>b. PICK b : b = Blob(Len(s.heap) + 1, 0, Len(d))
      OBVIOUS
    <2>2. Holds(c, d) /\ c.raw = FALSE /\ s.heap \in Seq(Cell)
      BY <2>c, <1>0, SharedCell, StreamFacts
    <2>3. Copied(s.heap, d, c, h, b)
      BY <2>2, <2>h, <2>b, CopyReadable
    <2>4. /\ h \in Seq(Cell) /\ Extends(s.heap, h) /\ b \in BlobType /\ Content(h, b) = d /\ Lies(h, b)
          /\ b.buf = Len(s.heap) + 1
      BY <2>2, <2>3 DEF Copied
    <2>5. PICK u : u = [s EXCEPT !.heap = h]
      OBVIOUS
    <2>6. /\ u \in StreamType /\ u.heap = h /\ u.buffer = s.buffer /\ u.size = s.size /\ u.range = s.range
          /\ u.offset = s.offset /\ u.blobs = s.blobs /\ u.error = s.error
      BY <2>5, <2>4, <1>0 DEF StreamType
    <2>7. SameStream(s, u) /\ SameShared(s.heap, u.heap)
      BY <2>4, <2>6, ExtendsShared DEF SameStream
    <2>8. Fine(u) /\ Out(u) = Out(s)
      BY <1>0, <2>6, <2>7, SharedFine
    <2>9. Keeps(s, u)
      <3>1. Used(u) = Used(s) /\ Used(s) \in Nat
        BY <2>6, <1>0, StreamFacts DEF Used
      <3>2. u.buffer = s.buffer /\ Used(s) <= Used(u)
        BY <2>6, <3>1
      <3> QED
        BY <1>0, <2>6, <2>h, <3>2, AppendKeeps
    <2>10. Writes(s, u, <<>>)
      <3>1. Out(s) \o <<>> = Out(s)
        BY <1>0, OutIs, ConcatEmptySeq
      <3> QED
        BY <3>1, <2>8, <2>9 DEF Writes
    <2>11. Settled(u, b)
      <3>1. s.buffer # b.buf
        <4>1. s.buffer # 0 => s.buffer \in 1 .. Len(s.heap)
          BY <1>0, BlobIs DEF Fine, Lies
        <4> QED
          BY <4>1, <2>4, <1>0, StreamFacts
      <3> QED
        BY <3>1, <2>4, <2>6 DEF Settled
    <2>w. PICK w : w = WriteBlob(u, b)
      OBVIOUS
    <2>12. Writes(u, w, d)
      BY <2>w, <2>4, <2>6, <2>8, <2>11, <1>0, WriteBlobWrites
    <2>13. Writes(s, w, <<>> \o d)
      <3>1. <<>> \in Seq(Int) /\ u.error = "none"
        BY <2>6, <1>0
      <3> QED
        BY <3>1, <1>0, <2>10, <2>12, WritesThenWrites
    <2>14. Writes(s, w, d)
      BY <2>13, ConcatEmptySeq
    <2>15. Install(w)
      <3>1. [Stream EXCEPT !.heap = Append(@, Shared(x[2]))] = [s EXCEPT !.heap = Append(s.heap, Shared(d))]
        BY <1>s, <2>1 DEF Stream
      <3>2. Blob(Len(heap) + 1, 0, Len(x[2])) = b
        BY <1>0, <2>1, <2>b
      <3> QED
        BY <3>1, <3>2, <1>4, <2>w, <2>5, <2>h, <2>c, Zenon
    <2> QED
      BY <2>14, <2>15, <2>1, <1>s, <1>1, InstallInv
  <1> QED
    BY <1>2, <1>3, <1>4 DEF WriteItem

(* Steps that leave the stream alone and of the heap at least the memory   *)
(* that is not raw.                                                        *)
LEMMA OthersKept ==
    ASSUME StreamsInv, heap' \in Seq(Cell), SameShared(heap, heap'), UNCHANGED <<outVars, items, taken, error>>
    PROVE  OutputInv' /\ TakenInv'
  <1>s. PICK s : s = Stream
    OBVIOUS
  <1>w. PICK w : w = Stream'
    OBVIOUS
  <1>0. Fine(s) /\ s \in StreamType /\ items \in Seq(Items) /\ error \in {"none", "bad_alloc"}
          /\ (error = "none" => Out(s) = WireLog(items, Len(items)))
    BY <1>s DEF StreamsInv, OutputInv, Fine
  <1>1. /\ s.heap = heap /\ s.buffer = buffer /\ s.size = bufferSize /\ s.range = rangeSize
        /\ s.offset = rangeOffset /\ s.blobs = blobs
    BY <1>s, StreamIs
  <1>2. /\ w.heap = heap' /\ w.buffer = buffer' /\ w.size = bufferSize' /\ w.range = rangeSize'
        /\ w.offset = rangeOffset' /\ w.blobs = blobs'
    BY <1>w DEF Stream
  <1>u. buffer' = buffer /\ bufferSize' = bufferSize /\ rangeSize' = rangeSize /\ rangeOffset' = rangeOffset
          /\ blobs' = blobs
    BY DEF outVars
  <1>3. SameStream(s, w) /\ SameShared(s.heap, w.heap)
    BY <1>1, <1>2, <1>u DEF SameStream
  <1>4. w \in StreamType
    <2>1. buffer' \in Nat /\ bufferSize' \in Nat /\ rangeSize' \in Nat /\ rangeOffset' \in Nat
            /\ blobs' \in Seq(BlobType)
      BY <1>0, <1>1, <1>u, StreamFacts
    <2> QED
      BY <2>1, <1>w DEF Stream, StreamType
  <1>5. Fine(w) /\ Out(w) = Out(s)
    BY <1>0, <1>3, <1>4, SharedFine
  <1>6. OutputInv'
    BY <1>0, <1>5, <1>w DEF OutputInv
  <1>7. TakenInv'
    <2> SUFFICES ASSUME NEW t \in taken
                 PROVE  t.blobs \in Seq(BlobType) /\ AllSettled(w, t.blobs)
                          /\ FlattenSeq(Contents(heap', t.blobs)) = t.bytes
      BY <1>w DEF TakenInv
    <2>1. t.blobs \in Seq(BlobType) /\ AllSettled(s, t.blobs) /\ FlattenSeq(Contents(s.heap, t.blobs)) = t.bytes
      BY <1>s, StreamIs DEF StreamsInv, TakenInv
    <2>2. AllSettled(w, t.blobs) /\ Contents(w.heap, t.blobs) = Contents(s.heap, t.blobs)
      BY <1>0, <1>3, <1>4, <2>1, SharedContents
    <2> QED
      BY <2>1, <2>2, <1>2
  <1> QED
    BY <1>6, <1>7

(* Handing out content: it is settled at once.                             *)
LEMMA GetBuffersInv == StreamsInv /\ GetBuffers => StreamsInv'
  <1> SUFFICES ASSUME StreamsInv, GetBuffers PROVE StreamsInv'
    OBVIOUS
  <1>u. UNCHANGED <<heap, outVars, items, input, got, held, error>>
    BY DEF GetBuffers
  <1>s. Stream' = Stream
    BY <1>u DEF outVars, Stream
  <1>f. Fine(Stream)
    BY DEF StreamsInv, OutputInv
  <1>1. OutputInv'
    BY <1>u, <1>s DEF StreamsInv, OutputInv
  <1>2. InputInv' /\ HeldInv'
    <2>1. heap' = heap /\ items' = items /\ input' = input /\ got' = got /\ held' = held /\ error' = error
      BY <1>u
    <2> QED
      BY <2>1 DEF StreamsInv, InputInv, HeldInv
  <1>3. TakenInv'
    <2>1. PICK e : e = [blobs |-> Buffers, bytes |-> FlattenSeq([i \in DOMAIN Buffers |-> Content(heap, Buffers[i])])]
      OBVIOUS
    <2>2. taken' = taken \cup {e}
      BY <2>1 DEF GetBuffers
    <2>3. e.blobs = SnapRange(Stream) /\ e.bytes = FlattenSeq(Contents(heap, SnapRange(Stream)))
      BY <2>1 DEF Buffers, Contents
    <2>4. SnapRange(Stream) \in Seq(BlobType) /\ AllSettled(Stream, SnapRange(Stream))
      BY <1>f, OutIs
    <2>5. heap' = heap
      BY <1>u
    <2> SUFFICES ASSUME NEW t \in taken'
                 PROVE  t.blobs \in Seq(BlobType) /\ AllSettled(Stream, t.blobs)
                          /\ FlattenSeq(Contents(heap, t.blobs)) = t.bytes
      BY <1>s, <2>5 DEF TakenInv
    <2>6. CASE t \in taken
      BY <2>6 DEF StreamsInv, TakenInv
    <2>7. CASE t = e
      BY <2>7, <2>3, <2>4
    <2> QED
      BY <2>2, <2>6, <2>7
  <1> QED
    BY <1>1, <1>2, <1>3 DEF StreamsInv

(* GetBuffer merges the content of the stream.                             *)
LEMMA GetBufferIs ==
    ASSUME StreamsInv, error = "none", NEW g, g = GetBuffer
    PROVE  /\ g.heap \in Seq(Cell) /\ heap \in Seq(Cell) /\ Extends(heap, g.heap) /\ Readable(g.heap, g.blob)
           /\ Content(g.heap, g.blob) = WireLog(items, Len(items))
           /\ g.blob.len = Len(WireLog(items, Len(items))) /\ WireLog(items, Len(items)) \in Seq(Int)
  <1>s. PICK s : s = Stream
    OBVIOUS
  <1>0. Fine(s) /\ Out(s) = WireLog(items, Len(items)) /\ s \in StreamType /\ s.heap = heap
    BY <1>s, StreamIs DEF StreamsInv, OutputInv, Fine
  <1>1. g = Merged(s)
    <2>1. s.heap = heap /\ s.blobs = blobs /\ s.buffer = buffer /\ s.offset = rangeOffset /\ s.range = rangeSize
      BY <1>s, StreamIs
    <2> QED
      BY <2>1, Zenon DEF GetBuffer, Merged, Current
  <1>2. /\ g.heap \in Seq(Cell) /\ Extends(s.heap, g.heap) /\ Readable(g.heap, g.blob)
        /\ Content(g.heap, g.blob) = Out(s)
    BY <1>0, <1>1, MergedIs
  <1>3. Len(Content(g.heap, g.blob)) = g.blob.len /\ Content(g.heap, g.blob) \in Seq(Int)
    BY <1>2, ReadableTyped
  <1> QED
    BY <1>0, <1>2, <1>3, StreamFacts

(* An input over a blob that holds the content of the stream.              *)
LEMMA OpenedInv ==
    ASSUME StreamsInv, Usable, UNCHANGED <<outVars, items, taken, got, held, error>>,
           heap' \in Seq(Cell), SameShared(heap, heap'),
             NEW b \in BlobType, input' = [blob |-> b, pointer |-> 0],
           b # NoBlob => /\ Within(heap', b) /\ heap'[b.buf].live /\ b.len = Len(WireLog(items, Len(items)))
                         /\ Content(heap', b) = WireLog(items, Len(items))
    PROVE  StreamsInv'
  <1>1. OutputInv' /\ TakenInv'
    BY OthersKept
  <1>0. got = <<>> /\ held = {} /\ error = "none" /\ items \in Seq(Items)
    BY DEF StreamsInv, OutputInv, InputInv, Usable
  <1>2. HeldInv'
    BY <1>0 DEF HeldInv
  <1>3. input' \in [blob : BlobType, pointer : Nat] /\ input'.blob = b /\ input'.pointer = 0
    OBVIOUS
  <1>4. got' = <<>> /\ held' = {} /\ error' = "none" /\ items' = items /\ Len(got') = 0
          /\ Len(items) \in Nat /\ got' \in Seq(Items)
    BY <1>0
  <1>5. Len(WireLog(items, 0)) = 0
    BY WireLogEmpty
  <1>6. InputInv'
    BY <1>3, <1>4, <1>5 DEF InputInv
  <1> QED
    BY <1>1, <1>2, <1>6 DEF StreamsInv

(* An InputBuffer over what GetBuffer returns.                             *)
LEMMA OpenInv == StreamsInv /\ Open => StreamsInv'
  <1> SUFFICES ASSUME StreamsInv, Open PROVE StreamsInv'
    OBVIOUS
  <1>g. PICK g : g = GetBuffer
    OBVIOUS
  <1>1. /\ Usable /\ heap' = g.heap /\ input' = [blob |-> g.blob, pointer |-> 0]
        /\ UNCHANGED <<outVars, items, taken, got, held, error>>
    BY <1>g DEF Open
  <1>2. /\ g.heap \in Seq(Cell) /\ heap \in Seq(Cell) /\ Extends(heap, g.heap) /\ Readable(g.heap, g.blob)
        /\ Content(g.heap, g.blob) = WireLog(items, Len(items))
        /\ g.blob.len = Len(WireLog(items, Len(items)))
    BY <1>1, <1>g, GetBufferIs DEF Usable
  <1>3. SameShared(heap, g.heap) /\ g.blob \in BlobType
    BY <1>2, ExtendsShared DEF Readable
  <1>4. g.blob # NoBlob => Within(g.heap, g.blob) /\ g.heap[g.blob.buf].live
    BY <1>2 DEF Readable, Within, Lies
  <1> QED
    BY <1>1, <1>2, <1>3, <1>4, OpenedInv

(* An InputBuffer over a raw copy of it.                                   *)
LEMMA OpenRawInv == StreamsInv /\ OpenRaw => StreamsInv'
  <1> SUFFICES ASSUME StreamsInv, OpenRaw PROVE StreamsInv'
    OBVIOUS
  <1>g. PICK g : g = GetBuffer
    OBVIOUS
  <1>d. PICK d : d = Content(g.heap, g.blob)
    OBVIOUS
  <1>c. PICK c : c = Raw(d)
    OBVIOUS
  <1>1. /\ Usable /\ heap' = Append(g.heap, c)
             /\ input' = [blob |-> Blob(Len(g.heap) + 1, 0, g.blob.len), pointer |-> 0]
        /\ UNCHANGED <<outVars, items, taken, got, held, error>>
    BY <1>g, <1>d, <1>c DEF OpenRaw
  <1>2. /\ g.heap \in Seq(Cell) /\ heap \in Seq(Cell) /\ Extends(heap, g.heap)
        /\ d = WireLog(items, Len(items)) /\ d \in Seq(Int)
        /\ g.blob.len = Len(d)
    <2>1. /\ g.heap \in Seq(Cell) /\ heap \in Seq(Cell) /\ Extends(heap, g.heap) /\ Readable(g.heap, g.blob)
          /\ Content(g.heap, g.blob) = WireLog(items, Len(items))
          /\ g.blob.len = Len(WireLog(items, Len(items))) /\ WireLog(items, Len(items)) \in Seq(Int)
      BY <1>1, <1>g, GetBufferIs DEF Usable
    <2> QED
      BY <2>1, <1>d
  <1>b. PICK b : b = Blob(Len(g.heap) + 1, 0, Len(d))
    OBVIOUS
  <1>h. PICK h : h = Append(g.heap, c)
    OBVIOUS
  <1>3. Copied(g.heap, d, c, h, b)
    BY <1>2, <1>c, <1>b, <1>h, CopyReadable, RawCell
  <1>4. /\ h \in Seq(Cell) /\ Extends(g.heap, h) /\ b \in BlobType /\ Content(h, b) = d
        /\ b.buf \in 1 .. Len(h) /\ h[b.buf] = c /\ b.off = 0 /\ b.len = Len(d) /\ c.bytes = d /\ c.live
    BY <1>3, <1>2, <1>c, RawCell DEF Copied, Holds
  <1>5. Within(h, b) /\ h[b.buf].live
    <2>1. 0 + Len(d) <= Len(d)
      BY <1>2
    <2> QED
      BY <1>4, <2>1 DEF Within
  <1>6. SameShared(heap, h)
    BY <1>2, <1>4, ExtendsTransitive, ExtendsShared
  <1>7. heap' = h /\ input' = [blob |-> b, pointer |-> 0]
    BY <1>1, <1>2, <1>h, <1>b
  <1> QED
    BY <1>1, <1>2, <1>4, <1>5, <1>6, <1>7, OpenedInv

(* The next item lies at the pointer.                                      *)
LEMMA NextItem ==
    ASSUME StreamsInv, input.blob # NoBlob, Len(got) < Len(items),
           NEW x, x = items[Len(got) + 1], NEW d, d = Content(heap, input.blob)
    PROVE  /\ x \in Items /\ Len(got) \in Nat /\ Len(got) + 1 <= Len(items)
           /\ Wire(x) \in Seq(Int) /\ input.pointer \in Nat /\ input.blob.len \in Nat /\ input.blob.off \in Nat
           /\ input.pointer + Len(Wire(x)) = Len(WireLog(items, Len(got) + 1))
           /\ input.pointer + Len(Wire(x)) <= input.blob.len
           /\ \A i \in 1 .. Len(Wire(x)) : d[input.pointer + i] = Wire(x)[i]
           /\ \E r \in Seq(Int) : SubSeq(d, input.pointer + 1, input.blob.len) = Wire(x) \o r
           /\ heap[input.blob.buf].live /\ Within(heap, input.blob) /\ error = "none"
  <1>k. PICK k \in Nat : k = Len(got)
    BY DEF StreamsInv, InputInv
  <1>n. PICK n \in Nat : n = Len(items)
    BY DEF StreamsInv, OutputInv
  <1>0. items \in Seq(Items) /\ k + 1 <= n /\ k <= n
    BY <1>k, <1>n DEF StreamsInv, OutputInv
  <1>1. x \in Items
    <2>1. k + 1 \in 1 .. Len(items)
      BY <1>0, <1>n
    <2> QED
      BY <2>1, <1>0, <1>k, ElementOfSeq
  <1>a. PICK a \in Seq(Int) : a = WireLog(items, k)
    BY <1>0, <1>n, WireLogTyped
  <1>w. PICK w \in Seq(Int) : w = Wire(x)
    BY <1>1, ItemTyped
  <1>2. /\ input.pointer = Len(a) /\ input.blob.len = Len(WireLog(items, n)) /\ error = "none"
        /\ (heap[input.blob.buf].live => Content(heap, input.blob) = WireLog(items, n))
             /\ heap[input.blob.buf].live
        /\ Within(heap, input.blob)
    <2>1. /\ input.pointer = Len(WireLog(items, Len(got)))
               /\ input.blob.len = Len(WireLog(items, Len(items))) /\ error = "none"
          /\ (heap[input.blob.buf].live => Content(heap, input.blob) = WireLog(items, Len(items)))
          /\ (~heap[input.blob.buf].live => Len(got) = Len(items)) /\ Within(heap, input.blob)
      BY DEF StreamsInv, InputInv
    <2>2. Len(got) # Len(items)
      BY <1>0, <1>k, <1>n
    <2> QED
      BY <2>1, <2>2, <1>k, <1>n, <1>a
  <1>3. d = WireLog(items, n)
    BY <1>2
  <1>4. WireLog(items, k + 1) = a \o w
    BY <1>0, <1>n, <1>a, <1>w, <1>k, WireLogNext
  <1>b. PICK b \in Seq(Int) : b = a \o w
    BY ConcatProperties
  <1>5. StartsWith(Int, b, d)
    <2>1. PICK j \in Nat : j = k + 1 /\ j <= n
      BY <1>0
    <2>2. StartsWith(Int, WireLog(items, j), WireLog(items, n))
      BY <2>1, <1>0, <1>n, WireLogSplit
    <2> QED
      BY <2>1, <2>2, <1>3, <1>4, <1>b
  <1>6. PICK r \in Seq(Int) : d = b \o r
    BY <1>5 DEF StartsWith
  <1>7. d = (a \o w) \o r
    BY <1>6, <1>b
  <1>8. Between(a, w, r, d)
    BY <1>a, <1>w, <1>6, <1>7, ConcatBetween
  <1>9. /\ Len(b) = Len(a) + Len(w) /\ Len(a) \in Nat /\ Len(w) \in Nat /\ Len(r) \in Nat
             /\ Len(d) = Len(b) + Len(r)
        /\ \A i \in 1 .. Len(w) : d[Len(a) + i] = w[i]
    BY <1>8, <1>b DEF Between
  <1>10. SubSeq(d, Len(a) + 1, Len(d)) = w \o r
    BY <1>8 DEF Between
  <1>11. input.pointer + Len(w) = Len(WireLog(items, k + 1)) /\ input.pointer + Len(w) <= input.blob.len
    BY <1>2, <1>3, <1>4, <1>b, <1>9
  <1>12. input.blob.off \in Nat /\ input.blob.len \in Nat
    BY <1>2 DEF Within, BlobType
  <1>13. SubSeq(d, input.pointer + 1, input.blob.len) = w \o r
    BY <1>2, <1>3, <1>10
  <1> QED
    BY <1>0, <1>1, <1>2, <1>9, <1>11, <1>12, <1>13, <1>6, <1>k, <1>n, <1>w

(* The reader goes on by one item.                                         *)
LEMMA ReadOn ==
    ASSUME StreamsInv, input.blob # NoBlob, Len(got) < Len(items), NEW x, x = items[Len(got) + 1],
           got' = Append(got, x), input' = [input EXCEPT !.pointer = @ + Len(Wire(x))],
           UNCHANGED <<heap, outVars, items, taken, error>>, HeldInv'
    PROVE  StreamsInv'
  <1>d. PICK d : d = Content(heap, input.blob)
    OBVIOUS
  <1>1. /\ x \in Items /\ Len(got) \in Nat /\ Len(got) + 1 <= Len(items)
        /\ Wire(x) \in Seq(Int) /\ input.pointer \in Nat
        /\ input.pointer + Len(Wire(x)) = Len(WireLog(items, Len(got) + 1))
        /\ heap[input.blob.buf].live
    BY <1>d, NextItem
  <1>2. OutputInv' /\ TakenInv'
    <2>1. heap \in Seq(Cell)
      BY StreamIs, StreamFacts DEF StreamsInv, OutputInv, Fine
    <2>2. SameShared(heap, heap') /\ heap' \in Seq(Cell)
      BY <2>1, SameSharedReflexive
    <2> QED
      BY <2>2, OthersKept
  <1>k. PICK k \in Nat : k = Len(got)
    BY <1>1
  <1>g. PICK g : g = got'
    OBVIOUS
  <1>3. g \in Seq(Items) /\ Len(g) = k + 1 /\ (\A i \in 1 .. k : g[i] = got[i]) /\ g[k + 1] = x
    <2>1. got \in Seq(Items)
      BY DEF StreamsInv, InputInv
    <2> QED
      BY <2>1, <1>1, <1>g, <1>k, AppendProperties
  <1>4. ASSUME NEW i \in 1 .. Len(g) PROVE g[i] = items[i]
    <2>1. i \in 1 .. k \/ i = k + 1
      BY <1>3
    <2>2. i \in 1 .. k => got[i] = items[i]
      BY <1>k DEF StreamsInv, InputInv
    <2> QED
      BY <2>1, <2>2, <1>3, <1>k
  <1>5. /\ input' \in [blob : BlobType, pointer : Nat] /\ input'.blob = input.blob
        /\ input'.pointer = Len(WireLog(items, k + 1))
    <2>1. input \in [blob : BlobType, pointer : Nat]
      BY DEF StreamsInv, InputInv
    <2>2. PICK m \in Nat : m = input.pointer + Len(Wire(x))
      BY <1>1
    <2>3. input' = [input EXCEPT !.pointer = m]
      BY <2>1, <2>2
    <2>4. input' \in [blob : BlobType, pointer : Nat] /\ input'.blob = input.blob /\ input'.pointer = m
      BY <2>1, <2>2, <2>3
    <2> QED
      BY <2>2, <2>4, <1>1, <1>k
  <1>6. InputInv'
    <2>1. /\ error = "none" /\ Within(heap, input.blob) /\ input.blob.len = Len(WireLog(items, Len(items)))
          /\ (heap[input.blob.buf].live => Content(heap, input.blob) = WireLog(items, Len(items)))
      BY DEF StreamsInv, InputInv
    <2>2. heap' = heap /\ items' = items /\ error' = error /\ Len(g) <= Len(items)
      BY <1>1, <1>3, <1>k
    <2> QED
      BY <2>1, <2>2, <1>1, <1>3, <1>4, <1>5, <1>g DEF InputInv
  <1> QED
    BY <1>2, <1>6 DEF StreamsInv

(* Reading the next item, by whichever way ReadVariableUnsigned takes.     *)
LEMMA ReadItemInv == StreamsInv /\ ReadItem => StreamsInv'
  <1> SUFFICES ASSUME StreamsInv, ReadItem PROVE StreamsInv'
    OBVIOUS
  <1>x. PICK x : x = items[Len(got) + 1]
    OBVIOUS
  <1>d. PICK d : d = Content(heap, input.blob)
    OBVIOUS
  <1>0. input.blob # NoBlob /\ Len(got) < Len(items) /\ UNCHANGED <<heap, outVars, items, taken, error>>
    BY DEF ReadItem
  <1>1. /\ x \in Items /\ Wire(x) \in Seq(Int) /\ input.pointer \in Nat /\ input.blob.len \in Nat
             /\ input.blob.off \in Nat
        /\ input.pointer + Len(Wire(x)) <= input.blob.len
        /\ \A i \in 1 .. Len(Wire(x)) : d[input.pointer + i] = Wire(x)[i]
        /\ \E r \in Seq(Int) : SubSeq(d, input.pointer + 1, input.blob.len) = Wire(x) \o r
        /\ heap[input.blob.buf].live /\ Within(heap, input.blob)
    BY <1>0, <1>x, <1>d, NextItem
  <1>2. x = <<x[1], x[2]>>
    BY <1>1, ItemsAssumption
  <1>t. /\ x[1] \in Varints => InWidth(x[1], x[2]) /\ OneBit(x[1], x[2])
        /\ x[1] \notin Varints => x[1] \in {"bytes", "blob"} /\ x[2] \in Seq(Int) /\ Wire(x) = x[2]
        /\ x[1] \in Varints => Wire(x) = Varint(x[1], x[2])
    BY <1>1, ItemTyped, ItemsAssumption DEF OneBit
  <1>3. CASE x[1] \in Varints
    <2>r. PICK r : r = ReadVarint(x[1])
      OBVIOUS
    <2>1. got' = Append(got, <<x[1], r.v>>) /\ input' = [input EXCEPT !.pointer = @ + r.n] /\ held' = held
      BY <1>3, <1>x, <2>r DEF ReadItem
    <2>2. r.v = x[2] /\ r.n = Len(Wire(x))
      <3>1. PICK s : s = SubSeq(d, input.pointer + 1, input.blob.len)
        OBVIOUS
      <3>2. PICK q \in Seq(Int) : s = Varint(x[1], x[2]) \o q
        BY <1>1, <1>t, <1>3, <3>1
      <3>3. PICK t \in Varints : t = x[1]
        BY <1>3
      <3>v. PICK v : v = x[2]
        OBVIOUS
      <3>4. /\ GenericRead(s).v = v /\ GenericRead(s).n = Len(Varint(t, v))
            /\ UncheckedRead(t, s).v = v /\ UncheckedRead(t, s).n = Len(Varint(t, v))
        <4>1. InWidth(t, v) /\ OneBit(t, v) /\ s = Varint(t, v) \o q
          BY <3>2, <3>3, <3>v, <1>t
        <4> QED
          <5>1. Decoded(t, v, Varint(t, v) \o q)
            BY <4>1, <3>2, <3>3, <3>v, ReadsVarint
          <5> QED
            BY <4>1, <5>1 DEF Decoded
      <3>5. r = GenericRead(s) \/ r = UncheckedRead(t, s)
        BY <2>r, <3>1, <3>3, <1>d DEF ReadVarint
      <3> QED
        BY <3>3, <3>v, <3>4, <3>5, <1>t
    <2>3. got' = Append(got, x) /\ input' = [input EXCEPT !.pointer = @ + Len(Wire(x))]
      BY <2>1, <2>2, <1>2
    <2>4. HeldInv'
      BY <2>1, <1>0 DEF StreamsInv, HeldInv
    <2> QED
      BY <1>0, <1>x, <2>3, <2>4, ReadOn
  <1>4. CASE x[1] \notin Varints
    <2>m. PICK m \in Nat, w \in Seq(Int) : w = x[2] /\ w = Wire(x) /\ m = Len(w)
      BY <1>t, <1>4
    <2>b. PICK b : b = SubBlob(input.blob, input.pointer, Len(x[2]))
      OBVIOUS
    <2>1. /\ got' = Append(got, <<x[1], Content(heap, b)>>)
          /\ input' = [input EXCEPT !.pointer = @ + Len(x[2])]
          /\ held' = IF x[1] = "blob" THEN held \cup {[blob |-> b, bytes |-> Content(heap, b)]} ELSE held
      BY <1>4, <1>x, <2>b DEF ReadItem
    <2>2. b \in BlobType /\ b.buf = input.blob.buf /\ b.off = input.blob.off + input.pointer /\ b.len = m
      <3>1. b = Blob(input.blob.buf, input.blob.off + input.pointer, m)
        BY <2>b, <2>m DEF SubBlob
      <3>2. input.blob.buf \in Nat
        BY <1>1 DEF Within, BlobType
      <3>3. input.blob.off + input.pointer \in Nat
        <4>1. input.blob.off \in Nat /\ input.pointer \in Nat
          BY <1>1
        <4> QED
          BY <4>1
      <3> QED
        BY <3>1, <3>2, <3>3, <2>m, BlobIs, BlobTyped
    <2>3. Within(heap, b)
      <3>1. heap \in Seq(Cell)
        BY StreamIs, StreamFacts DEF StreamsInv, OutputInv, Fine
      <3>2. input.blob.buf \in 1 .. Len(heap)
              /\ input.blob.off + input.blob.len <= Len(heap[input.blob.buf].bytes)
        BY <1>1 DEF Within
      <3>3. Len(heap[input.blob.buf].bytes) \in Nat
        <4>1. heap[input.blob.buf] \in Cell
          BY <3>1, <3>2, ElementOfSeq
        <4> QED
          BY <4>1 DEF Cell
      <3>4. input.pointer + m <= input.blob.len
        BY <1>1, <2>m
      <3>5. input.blob.off + input.pointer + m <= Len(heap[input.blob.buf].bytes)
        <4>1. PICK o \in Nat, p \in Nat, l \in Nat, z \in Nat :
                  o = input.blob.off /\ p = input.pointer /\ l = input.blob.len
                    /\ z = Len(heap[input.blob.buf].bytes)
          BY <1>1, <3>3
        <4>2. o + l <= z /\ p + m <= l
          BY <4>1, <3>2, <3>4, Zenon
        <4>3. o + p + m <= z
          <5>1. o \in Nat /\ p \in Nat /\ l \in Nat /\ z \in Nat /\ m \in Nat
            BY <4>1, <2>m
          <5> QED
            BY <5>1, <4>2
        <4> QED
          BY <4>1, <4>3, Zenon
      <3> QED
        BY <2>2, <3>2, <3>5 DEF Within
    <2>4. Content(heap, b) = w
      <3>1. PICK a : a = heap[input.blob.buf].bytes
        OBVIOUS
      <3>2. input.blob.buf # 0
        BY <1>1 DEF Within
      <3>3. d = [i \in 1 .. input.blob.len |-> a[input.blob.off + i]]
        BY <1>1, <1>d, <3>1, <3>2 DEF Content
      <3>4. Content(heap, b) = [i \in 1 .. m |-> a[(input.blob.off + input.pointer) + i]]
        BY <1>1, <2>2, <3>1, <3>2 DEF Content
      <3>5. ASSUME NEW i \in 1 .. m PROVE a[(input.blob.off + input.pointer) + i] = w[i]
        <4>1. d[input.pointer + i] = w[i]
          BY <1>1, <2>m
        <4>2. input.pointer + i \in 1 .. input.blob.len
          <5>1. PICK p \in Nat, l \in Nat : p = input.pointer /\ l = input.blob.len
            BY <1>1
          <5>2. p + m <= l
            BY <5>1, <1>1, <2>m, Zenon
          <5>3. p + i \in 1 .. l
            BY <5>1, <5>2, <2>m, OffsetIn, Zenon
          <5> QED
            BY <5>1, <5>3, Zenon
        <4>3. d[input.pointer + i] = a[input.blob.off + (input.pointer + i)]
          BY <3>3, <4>2
        <4>4. input.blob.off + (input.pointer + i) = (input.blob.off + input.pointer) + i
          BY <1>1
        <4> QED
          BY <4>1, <4>3, <4>4
      <3>6. Content(heap, b) = [i \in 1 .. m |-> w[i]]
        BY <3>4, <3>5
      <3>7. w = [i \in 1 .. m |-> w[i]]
        BY <2>m
      <3> QED
        BY <3>6, <3>7
    <2>5. got' = Append(got, x) /\ input' = [input EXCEPT !.pointer = @ + Len(Wire(x))]
      BY <2>1, <2>4, <2>m, <1>2
    <2>6. HeldInv'
      <3> SUFFICES ASSUME NEW h \in held'
                   PROVE  h \in [blob : BlobType, bytes : Seq(Int)] /\ Within(heap, h.blob)
                            /\ Content(heap, h.blob) = h.bytes
        BY <1>0 DEF HeldInv
      <3>1. CASE h \in held
        BY <3>1 DEF StreamsInv, HeldInv
      <3>2. CASE h = [blob |-> b, bytes |-> Content(heap, b)]
        BY <3>2, <2>2, <2>3, <2>4, <2>m
      <3> QED
        BY <2>1, <3>1, <3>2
    <2> QED
      BY <1>0, <1>x, <2>5, <2>6, ReadOn
  <1> QED
    BY <1>3, <1>4

(* Freeing the raw memory: what was prolonged is not in it.                *)
LEMMA ReleaseRawInv == StreamsInv /\ ReleaseRaw => StreamsInv'
  <1> SUFFICES ASSUME StreamsInv, ReleaseRaw PROVE StreamsInv'
    OBVIOUS
  <1>h. PICK h : h = CHOOSE e \in held : TRUE
    OBVIOUS
  <1>g. PICK g : g = Prolong(heap, h.blob)
    OBVIOUS
  <1>n. PICK n : n = input.blob.buf
    OBVIOUS
  <1>0. /\ input.blob # NoBlob /\ heap[n].raw /\ heap[n].live /\ Len(got) = Len(items) /\ Cardinality(held) = 1
        /\ held' = {[h EXCEPT !.blob = g.blob]} /\ heap' = [g.heap EXCEPT ![n].live = FALSE]
        /\ UNCHANGED <<outVars, items, taken, input, got, error>>
    BY <1>h, <1>g, <1>n DEF ReleaseRaw
  <1>1. h \in held
    <2>1. held # {}
      <3>1. Cardinality({}) = 0 /\ 0 # 1
        BY FS_EmptySet
      <3> QED
        BY <3>1, <1>0, Zenon
    <2> QED
      BY <2>1, <1>h
  <1>2. h \in [blob : BlobType, bytes : Seq(Int)] /\ Within(heap, h.blob) /\ Content(heap, h.blob) = h.bytes
    BY <1>1 DEF StreamsInv, HeldInv
  <1>3. heap \in Seq(Cell) /\ Len(heap) \in Nat
    BY StreamIs, StreamFacts DEF StreamsInv, OutputInv, Fine
  <1>4. Within(heap, input.blob) /\ n \in 1 .. Len(heap)
    BY <1>0, <1>n DEF StreamsInv, InputInv, Within
  (* The prolonged blob is not in the raw memory. *)
  <1>5. /\ g.heap \in Seq(Cell) /\ Extends(heap, g.heap) /\ Within(g.heap, g.blob)
        /\ Content(g.heap, g.blob) = h.bytes /\ g.blob.buf # n
    <2>b. PICK b \in BlobType : b = h.blob
      BY <1>2
    <2>0. b.buf # 0 /\ b.buf \in 1 .. Len(heap) /\ b.len \in Nat
      BY <1>2, <2>b DEF Within, BlobType
    <2>1. CASE ~heap[b.buf].raw
      <3>1. g = [heap |-> heap, blob |-> b]
        BY <1>g, <2>0, <2>1, <2>b DEF Prolong
      <3>2. b.buf # n
        BY <1>0, <2>1
      <3>3. Extends(heap, heap)
        BY <1>3 DEF Extends
      <3> QED
        BY <3>1, <3>2, <3>3, <1>2, <1>3, <2>b
    <2>2. CASE heap[b.buf].raw
      <3>d. PICK d \in Seq(Int) : d = Content(heap, b) /\ d = h.bytes
        BY <1>2, <2>b
      <3>c. PICK c : c = Shared(d)
        OBVIOUS
      <3>1. Len(d) = b.len
        <4>1. d = [i \in 1 .. b.len |-> d[i]]
          BY <3>d DEF Content
        <4> QED
          BY <4>1, <2>0
      <3>2. g = [heap |-> Append(heap, c), blob |-> Blob(Len(heap) + 1, 0, Len(d))]
        BY <1>g, <2>0, <2>2, <2>b, <3>d, <3>c, <3>1 DEF Prolong
      <3>3. Copied(heap, d, c, Append(heap, c), Blob(Len(heap) + 1, 0, Len(d))) /\ Holds(c, d)
        BY <1>3, <3>c, <3>d, CopyReadable, SharedCell
      <3>4. Copied(heap, d, c, g.heap, g.blob)
        BY <3>2, <3>3
      <3>5. /\ g.heap \in Seq(Cell) /\ Extends(heap, g.heap) /\ g.blob \in BlobType
                 /\ Content(g.heap, g.blob) = d
            /\ g.blob.buf = Len(heap) + 1 /\ g.blob.buf \in 1 .. Len(g.heap) /\ g.heap[g.blob.buf] = c
            /\ g.blob.off = 0 /\ g.blob.len = Len(d) /\ c.bytes = d
        BY <3>3, <3>4 DEF Copied, Holds
      <3>6. Within(g.heap, g.blob)
        <4>1. 0 + Len(d) <= Len(d)
          BY <3>d
        <4> QED
          BY <3>5, <4>1 DEF Within
      <3>7. g.blob.buf # n
        BY <3>5, <1>3, <1>4
      <3> QED
        BY <3>5, <3>6, <3>7, <3>d
    <2> QED
      BY <2>1, <2>2
  <1>k. PICK k : k = g.heap
    OBVIOUS
  <1>6. k \in Seq(Cell) /\ Len(k) \in Nat /\ n \in 1 .. Len(k) /\ k[n] \in Cell /\ k[n] = heap[n]
    BY <1>3, <1>4, <1>5, <1>k, ElementOfSeq DEF Extends
  <1>e. PICK e : e = [k[n] EXCEPT !.live = FALSE]
    OBVIOUS
  <1>7. e \in Cell /\ e.bytes = k[n].bytes /\ e.raw = k[n].raw /\ e.live = FALSE
    BY <1>6, <1>e DEF Cell
  <1>8. heap' = [k EXCEPT ![n] = e]
    BY <1>0, <1>6, <1>e, <1>k
  <1>9. /\ heap' \in Seq(Cell) /\ Len(heap') = Len(k) /\ heap'[n] = e
        /\ \A i \in 1 .. Len(k) : i # n => heap'[i] = k[i]
    BY <1>6, <1>7, <1>8
  <1>10. SameShared(heap, heap')
    <2>1. Len(heap) <= Len(heap') /\ \A i \in 1 .. Len(heap) : i \in 1 .. Len(k) /\ k[i] = heap[i]
      BY <1>3, <1>5, <1>6, <1>9, <1>k DEF Extends
    <2>2. ASSUME NEW i \in 1 .. Len(heap), ~heap[i].raw PROVE heap'[i] = heap[i]
      <3>1. i # n
        BY <1>0, <2>2
      <3> QED
        BY <3>1, <2>1, <1>9
    <2> QED
      BY <2>1, <2>2 DEF SameShared
  <1>11. OutputInv' /\ TakenInv'
    BY <1>0, <1>9, <1>10, OthersKept
  <1>12. HeldInv'
    <2>f. PICK f : f = [h EXCEPT !.blob = g.blob]
      OBVIOUS
    <2>b. PICK b \in BlobType : b = g.blob
      BY <1>5 DEF Within
    <2>1. f \in [blob : BlobType, bytes : Seq(Int)] /\ f.blob = b /\ f.bytes = h.bytes
      BY <2>f, <2>b, <1>2
    <2>2. b.buf \in 1 .. Len(k) /\ heap'[b.buf] = k[b.buf]
      BY <1>5, <1>9, <2>b, <1>k DEF Within
    <2>3. Within(heap', b)
      BY <1>5, <1>9, <2>2, <2>b, <1>k DEF Within
    <2>4. Content(heap', b) = Content(k, b)
      BY <2>2 DEF Content
    <2>5. Content(heap', f.blob) = f.bytes
      BY <2>1, <2>4, <1>5, <2>b, <1>k
    <2> SUFFICES ASSUME NEW q \in held'
                 PROVE  q \in [blob : BlobType, bytes : Seq(Int)] /\ Within(heap', q.blob)
                          /\ Content(heap', q.blob) = q.bytes
      BY DEF HeldInv
    <2>6. q = f
      BY <1>0, <2>f
    <2> QED
      BY <2>6, <2>1, <2>3, <2>5
  <1>13. InputInv'
    <2>1. /\ input \in [blob : BlobType, pointer : Nat]
          /\ got \in Seq(Items) /\ Len(got) <= Len(items) /\ (\A i \in 1 .. Len(got) : got[i] = items[i])
          /\ error = "none" /\ input.blob.len = Len(WireLog(items, Len(items)))
          /\ input.pointer = Len(WireLog(items, Len(got)))
      BY <1>0 DEF StreamsInv, InputInv
    <2>2. Within(heap', input.blob)
      BY <1>4, <1>6, <1>7, <1>9, <1>n DEF Within
    <2>3. ~heap'[input.blob.buf].live
      BY <1>7, <1>9, <1>n
    <2>4. input' = input /\ got' = got /\ items' = items /\ error' = error
      BY <1>0
    <2> QED
      BY <2>1, <2>2, <2>3, <2>4, <1>0 DEF InputInv
  <1> QED
    BY <1>11, <1>12, <1>13 DEF StreamsInv

(* Every step keeps the invariant.                                         *)
LEMMA NextStreamsInv == StreamsInv /\ [StreamsNext]_streamVars => StreamsInv'
  <1> SUFFICES ASSUME StreamsInv, [StreamsNext]_streamVars PROVE StreamsInv'
    OBVIOUS
  <1>1. ASSUME NEW x \in Items, WriteItem(x) PROVE StreamsInv'
    BY <1>1, WriteItemInv
  <1>2. CASE GetBuffers
    BY <1>2, GetBuffersInv
  <1>3. CASE Open
    BY <1>3, OpenInv
  <1>4. CASE OpenRaw
    BY <1>4, OpenRawInv
  <1>5. CASE ReadItem
    BY <1>5, ReadItemInv
  <1>6. CASE ReleaseRaw
    BY <1>6, ReleaseRawInv
  <1>7. CASE UNCHANGED streamVars
    <2>1. /\ heap' = heap /\ items' = items /\ taken' = taken /\ input' = input /\ got' = got
               /\ held' = held /\ error' = error
          /\ Stream' = Stream
      BY <1>7 DEF streamVars, outVars, Stream
    <2>2. OutputInv' /\ TakenInv'
      BY <2>1 DEF StreamsInv, OutputInv, TakenInv
    <2>3. InputInv' /\ HeldInv'
      BY <2>1 DEF StreamsInv, InputInv, HeldInv
    <2> QED
      BY <2>2, <2>3 DEF StreamsInv
  <1> QED
    BY <1>1, <1>2, <1>3, <1>4, <1>5, <1>6, <1>7 DEF StreamsNext

(* The invariant holds of every behaviour, for every buffer size, growth,  *)
(* chaining threshold and set of items.                                    *)
THEOREM StreamsInvariant == StreamsSpec => []StreamsInv
  <1> QED
    BY InitStreamsInv, NextStreamsInv, PTL DEF StreamsSpec

(* The log of the items.                                                   *)
LEMMA LogIs == ASSUME items \in Seq(Items) PROVE Log = WireLog(items, Len(items))
  <1>1. DOMAIN items = 1 .. Len(items)
    OBVIOUS
  <1> QED
    BY <1>1, Zenon DEF Log, WireLog

(* OutputMemoryStream (output_buffer.h:213-337): until a call throws, its  *)
(* blobs and its range, and the blob that GetBuffer merges them into, are  *)
(* exactly the bytes written, in order, however they were divided between  *)
(* buffers, copied or chained.                                             *)
THEOREM ContentIsWritten == StreamsSpec => []ContentIsLog
  <1>1. StreamsInv => ContentIsLog
    <2> SUFFICES ASSUME StreamsInv, error = "none"
                 PROVE  /\ FlattenSeq([i \in DOMAIN Buffers |-> Content(heap, Buffers[i])]) = Log
                        /\ LET g == GetBuffer IN Content(g.heap, g.blob) = Log
                        /\ rangeOffset + rangeSize <= bufferSize
                        /\ buffer # 0 => bufferSize = Len(heap[buffer].bytes)
      BY DEF ContentIsLog
    <2>0. Fine(Stream) /\ Out(Stream) = WireLog(items, Len(items)) /\ items \in Seq(Items)
      BY DEF StreamsInv, OutputInv
    <2>1. Log = WireLog(items, Len(items))
      BY <2>0, LogIs
    <2>2. FlattenSeq([i \in DOMAIN Buffers |-> Content(heap, Buffers[i])]) = Out(Stream)
      BY StreamIs, Zenon DEF Buffers, Out, Contents
    <2>3. PICK g : g = GetBuffer
      OBVIOUS
    <2>4. Content(g.heap, g.blob) = Log
      BY <2>1, <2>3, GetBufferIs
    <2>5. rangeOffset + rangeSize <= bufferSize
      BY <2>0, StreamIs DEF Fine, Used
    <2>6. buffer # 0 => bufferSize = Len(heap[buffer].bytes)
      BY <2>0, StreamIs DEF Fine
    <2> QED
      BY <2>0, <2>1, <2>2, <2>3, <2>4, <2>5, <2>6
  <1> QED
    BY <1>1, StreamsInvariant, PTL

(* GetBuffers, blob_prolong: content handed out does not change when the   *)
(* stream is written on into the memory it shares, and a prolonged blob    *)
(* survives the raw memory it was read from.                               *)
THEOREM HandedOutStays == StreamsSpec => []HandedOutIsStable
  <1>1. StreamsInv => HandedOutIsStable
    BY DEF StreamsInv, TakenInv, HeldInv, HandedOutIsStable, Contents
  <1> QED
    BY <1>1, StreamsInvariant, PTL

(* InputBuffer (input_buffer.h), OutputCounter (output_counter.h): what is *)
(* read is what was written, integers of one to ten bytes by the checked   *)
(* and the unchecked decoding alike, all of it and no more, and as many    *)
(* bytes as OutputCounter counts.                                          *)
THEOREM ReadBack == StreamsSpec => []ReadsWhatWasWritten
  <1>1. StreamsInv => ReadsWhatWasWritten
    <2> SUFFICES ASSUME StreamsInv PROVE ReadsWhatWasWritten
      OBVIOUS
    <2>0. /\ items \in Seq(Items) /\ got \in Seq(Items) /\ Len(got) <= Len(items)
          /\ (\A i \in 1 .. Len(got) : got[i] = items[i]) /\ Len(got) \in Nat /\ Len(items) \in Nat
      BY DEF StreamsInv, OutputInv, InputInv
    <2>1. got = SubSeq(items, 1, Len(got))
      <3>1. PICK k \in Nat : k = Len(got)
        BY <2>0
      <3>2. PICK s : s = SubSeq(items, 1, k)
        OBVIOUS
      <3>3. s \in Seq(Items) /\ Len(s) = k /\ \A i \in 1 .. k : s[i] = items[i]
        BY <2>0, <3>1, <3>2
      <3>4. got = s
        BY <2>0, <3>1, <3>3, SeqEqual
      <3> QED
        BY <3>1, <3>2, <3>4
    <2>2. /\ input.pointer <= input.blob.len
          /\ (input.blob # NoBlob /\ Len(got) = Len(items)) => input.pointer = input.blob.len
      <3>1. CASE input.blob = NoBlob
        <4>1. input.pointer = 0 /\ input.blob.len = 0
          BY <3>1, BlobIs DEF StreamsInv, InputInv, NoBlob
        <4> QED
          BY <4>1, <3>1
      <3>2. CASE input.blob # NoBlob
        <4>1. input.blob.len = Len(WireLog(items, Len(items))) /\ input.pointer = Len(WireLog(items, Len(got)))
          BY <3>2 DEF StreamsInv, InputInv
        <4>2. PICK a \in Seq(Int), b \in Seq(Int) : a = WireLog(items, Len(got))
                /\ b = WireLog(items, Len(items))
          BY <2>0, WireLogTyped
        <4>3. StartsWith(Int, a, b)
          <5>1. PICK k \in Nat, n \in Nat : k = Len(got) /\ n = Len(items) /\ k <= n /\ n <= Len(items)
            BY <2>0
          <5>2. StartsWith(Int, WireLog(items, k), WireLog(items, n))
            BY <5>1, <2>0, WireLogSplit
          <5> QED
            BY <5>1, <5>2, <4>2
        <4>4. PICK r \in Seq(Int) : b = a \o r
          BY <4>3 DEF StartsWith
        <4>5. Len(b) = Len(a) + Len(r) /\ Len(a) \in Nat /\ Len(r) \in Nat
          BY <4>2, <4>4, ConcatParts
        <4>6. Len(a) <= Len(b)
          BY <4>5
        <4> QED
          BY <4>1, <4>2, <4>6, <3>2
      <3> QED
        BY <3>1, <3>2
    <2>3. ASSUME NEW i \in DOMAIN items, items[i][1] \in Varints
          PROVE  CountVariable(items[i][1], items[i][2]) = Len(Wire(items[i]))
      <3>1. PICK x \in Items : x = items[i]
        BY <2>0, ElementOfSeq
      <3>2. InWidth(x[1], x[2]) /\ Wire(x) = Varint(x[1], x[2])
        BY <3>1, <2>3, ItemTyped
      <3> QED
        BY <3>1, <3>2, <2>3, CountIs
    <2> QED
      BY <2>1, <2>2, <2>3 DEF ReadsWhatWasWritten
  <1> QED
    BY <1>1, StreamsInvariant, PTL
=============================================================================
