# A TLA+ model of Bond's C++ run time

Bond is a framework for schematized data: a compiler (`compiler/`, Haskell)
turns `.bond` files into code for C++, C#, Java and Python, and a library per
language serializes, parses and transforms the data and, for C++, carries it
over gRPC. This project models the C++ library (`src/cpp/inc/bond/`): the gRPC
integration in `ext/grpc` and the shared counters in `ext`, whose correctness
depends on the order of events; the streams, `nullable` and `bonded`, which own
and share memory; and the writers, readers, parsers and transforms of the
protocols, which have to agree with each other on payloads of every shape and
of other schema versions. The modules are checked by TLC on small instances; the
safety properties of the gRPC integration, of the capped allocator, of the
schema cache, of the streams and of the tagged parser are also proved by TLAPS
for every instance.

## 1. Inventory

| Component | State it keeps | Operations | Module |
|---|---|---|---|
| Server-side call, `ext/grpc/detail/unary_call_impl.h`, `unary_call.h`, `shared_unary_call.h` | reference count, response flag, responder, and the owner objects | copy, move, share, `Finish` (three overloads), destruction, completion of the send | `UnaryCall` |
| Service and server, `detail/service.h`, `server.h` | per method the call to be received next; the gRPC server, the services and the io_manager | start of a method, receive, schedule the callback, `Shutdown`, `Wait`, destruction | `GrpcServer` |
| io_manager, `io_manager.h` | vector of threads, shutdown flag, once flag, completion queue | `start`, `shutdown`, `wait`, `run` | `IoManager` |
| Thread pool, `basic_thread_pool.h`, `scheduler.h` | asio service, work object, threads, shared by the copies of the pool | schedule, copy, destruction | `ThreadPool` |
| `wait_callback.h` | mutex, condition variable, optional result | invoke, `wait`, `wait_for`, accessors | `WaitCallback` |
| Client, `detail/client.h` | per call a self reference, response buffer, status, tag | `dispatch` (callback, future, neither), completion | `ClientCall` |
| Capped allocator, `ext/capped_allocator.h`, `multi_threaded_counter.h`, `shared_counter.h` | an atomic counter with a maximum | `allocate`, `deallocate`, `try_add`, `subtract` | `CappedAllocator` |
| Streams, `stream/*_buffer.h`, `output_counter.h`, `core/blob.h` | chain of blobs, range of the current buffer, read position | write bytes, blobs and integers, `GetBuffers`, read, `merge`, `blob_prolong` | `Streams` |
| `nullable`, `core/nullable.h` | a pointer to a value and its allocator | construct, copy, move, assign, swap, `set`, `reset` | `Nullable` |
| `bonded`, `core/bonded*.h`, `detail/marshaled_bonded.h`, `detail/pass_through.h`, `ext/grpc/detail/lazy_bonded.h` | an object, or a reader with the schema of its payload; a flag that says whether to skip | cast, deserialize, merge, marshal, transcode, pass through, skip on destruction | `Bonded` |
| Binary protocols, `protocol/encoding.h`, `compact_binary.h`, `fast_binary.h`, `simple_binary.h` | read and write positions, the lengths of Compact Binary 2 | headers, integers, strings, containers, skip; two passes | `Encoding`, `CompactBinary`, `FastBinary`, `SimpleBinary`, `BinaryProtocols`, `BinaryWriter` |
| Values and the `Serializer` transform, `core/value.h`, `detail/typeid_value.h`, `transforms.h`, `parser.h` | position in the payload | deserialize, skip, promote, transcode, by compile-time type and by runtime schema | `Values`, `Serializer` |
| Tagged parser and transforms, `core/parser.h`, `detail/inheritance.h`, `transforms.h`, `merge.h` | position in payload and schema, next required field | `DynamicParser` over `To`, `Serializer`, `Merger` | `TaggedParser` |
| `MapTo`, `core/transforms.h` | position in the payload, the variable | read a payload along mappings | `Mapping` |
| Schemas, `core/schema.h`, `validate.h`, `detail/validate.h` | the cache of `SchemaDef`s, one once flag per type | `Get` by several threads, `Validate` | `SchemaCache`, `Schemas`, `SchemaValidator` |
| Simple JSON, `protocol/simple_json_*.h`, `detail/rapidjson_helper.h`, `DOMParser` | a comma counter; the document | write objects and payloads, find fields, read | `SimpleJson` |
| Windows pool, compiler, other languages | | | not modelled (section 8) |

How the parts interact. `server::Start` creates an io_manager and starts the
methods of every service. A method registers a *receive* with gRPC, giving it
pointers into its `_receivedCall` and itself as tag. When a request arrives, an
io_manager thread dequeues the tag and calls `invoke`: it takes the received
call, allocates a new one, registers the next receive and hands a closure with
the call to the scheduler (a thread pool as a rule). The callback finishes the
call through a `unary_call`, possibly shared with other threads; the responder
queues a second tag, the call itself, whose `invoke` gives up the call's
reference on itself. `~server` waits for gRPC, then destroys the io_manager
(shut down, drain, join) and then the services. A client uses an io_manager
and a scheduler in the same way.

Requests and responses are `bonded` payloads. A *writer* puts an object into an
output stream, driven by the transform `Serializer`; a *parser* walks a payload
with a schema, known at compile time or at runtime, and calls a *transform* for
each field with a `value` or `bonded` that stands for data still unread in the
reader. The transform reads it into a variable (`To`, `MapTo`), writes it to
another writer (`Serializer`, `Merger`), inspects it (`SchemaValidator`), or
leaves it alone, and then its destructor skips it. So every reader must be able
to skip precisely what it could read, and every writer must be understood by
readers that know another version of the schema.

What is hard here: threads that release shared objects at the same time;
completions that overtake the function that started the operation; shutdown
while receives, callbacks and responses are in flight; a timeout that races a
result; exceptions between two steps; arithmetic that wraps; memory that is
shared without a copy; state that one pass leaves for the next; and payloads
whose fields come from other versions of a schema, in all combinations.
`PROJECT.json` lists these hazards line by line.

What makes each component correct:

* a call is answered once, never used after it is freed, and freed at last;
* a method's receive state is used by one thread at a time, gRPC's pointers
  stay valid, nothing is started on a dead queue, requests are answered, and
  destroying the server ends;
* `shutdown` and `wait` may be called from anywhere and mean what they say;
* a scheduled callback runs, also during destruction;
* waiters get the one recorded result and miss no notification;
* a client call delivers its result once and is released in every case;
* the counter is exact, and the allocator never hands out more than its cap;
* a stream's content is what was written, what was handed out does not change,
  and both ways of decoding an integer agree up to the last byte;
* each value has one `nullable` that owns it and the right allocator frees it;
* a `bonded` stands for the same struct wherever it is moved, and the reader is
  behind the field at the end, whoever has read it;
* what is written is read back, skipping ends where reading ends, a missing
  required field throws, and of a payload that is cut short nothing beyond the
  end is used, and the end is noticed by whoever reads all of it;
* a parse assigns exactly the readable fields, enforces required ones, passes
  unknown fields on, and always ends at the end of the struct;
* nobody sees a schema half built, and a payload whose schema was validated can
  be read.

## 2. Modules

Every module begins with a comment on what it stands for; comments at the
definitions name the function. Names of definitions follow the source.
Operators whose comment begins with "Mutant" are not part of the
specification: each is a defective variant of the definition below it that one
of the properties must detect.

**UnaryCall.** The processes are the *owner* objects (`unary_call`,
`shared_unary_call`, or the closure that carries the call to the scheduler):
an owner is used by one thread at a time, different owners by different
threads. A step is one atomic operation: the load in `TryFinishWithError`, the
`test_and_set` in `Finish`, the call of the responder, the `fetch_sub` in
`Release`, and so on. `SerializeThrows` is the exception out of
`Serialize(response)`, between the flag and the responder; the constant
`MayThrow` turns it on. gRPC's side is the variable `tag`.

**GrpcServer** composes the receive loop of each method, the io threads, the
callbacks, the calls and the destructor. `queue_receive()` is three steps,
because after the third another io thread may enter the same object. A
scheduler takes the closure by reference to const, so it has to copy it: a call
has the two owners `closure` and `user`, and the io thread destroys its own
copy while the callback may be running. `CallsFollowUnaryCall` states that each
call is a `UnaryCall` (`INSTANCE UnaryCall WITH` the call's fields): it begins
in `Init` and every step of the server is a step of it or leaves it alone, so
the theorems about one call apply to all of them. `Terminated` is the idle step
of a server that is gone.

**IoManager, ThreadPool, WaitCallback, ClientCall** model one class each, with
its callers as processes. `WaitCallback` describes the mutex and the condition
variable step by step, with spurious wake-ups.

**CappedAllocator.** The processes are memory blocks. `try_add` is a load and a
loop of `compare_exchange_weak`, which may fail spuriously. All sizes live in a
word of `Word` values, so `n * sizeof(value_type)` wraps. The only assumption on
the underlying allocator is that it cannot return more bytes than there are
addresses; it may throw at any time. `Keeping` are the blocks of an allocator
constructed with `subtract_on_deallocate = false`.

**Streams.** A heap of buffers, each shared or raw (memory that somebody else
frees, `ReleaseRaw`), and blobs as ranges of them. `WriteItem` is one call of
the output stream, with growth, chaining and the errors of a limited buffer;
`GetBuffers` hands out blobs that share memory with a stream that writes on. An
integer is written in groups, numbers below `More` (the continuation bit, 0x80
in the code), with the same numbers of bytes per type as in the code; a small
`More` keeps the largest values within TLC's integers, and the proofs are for
every `More`.

**Nullable.** Memory cells that hold a nullable again, variables, and two
allocators. Operations are functions of the memory that may fail, because every
allocation may throw; `abandoned` are the cells that the code leaks (section 5).

**Encoding, CompactBinary, FastBinary, SimpleBinary, BinaryProtocols** are pure
operators: the bytes that each writer call produces, and the reads and skips of
the readers as functions from a position to a value and the next position.
`BinaryProtocols` selects by protocol and version. **Values** is `value<T,
Reader>`: deserializing a serialized value of one type into a variable of
another, or skipping it. Its template parameter `Reader` is a set of constant
operators (`ReaderBasic`, `ReaderSkip`, ...); every configuration gives them the
readers of `BinaryProtocols` (`ProtocolReadBasic`, `ProtocolSkipType`, ...).
A struct is read level by level through the transform `To`, with its validator
of required fields (`MissingField`), the choice of the field that takes a value
(`FieldsFor`) and the alignment of hierarchies of different depths: one that is
deeper than the variable is cut at the root, one that is less deep is read into
the most derived structs (`Above`).
**Serializer** is the list of writer calls for an object, and for a payload that
a parser drives through the transform.

**BinaryWriter** is one writer that serializes one object after another; a step
is one call. For Compact Binary 2 it has both passes with `_stack`, `_lengths`
and `_it`, and an exception may end the writing pass; the writer is then used again.
`Transcode` feeds the output to a writer of another protocol. What a variable of
another type is expected to get is stated separately from how it is read:
`Seen` is the value and `Refused` says when a read has to throw, both in terms
of the two types and the object alone; `TakesAll` says that a type leaves out
nothing of another.

**Bonded.** `Slots` are variables of type `bonded<T>`; a message with a bonded
field and a trailer behind it is sent in any protocol, and whoever parses it
gets a handle that may be consumed, moved, kept or dropped. (A handle is a
`bonded<T, Reader&>`; its copies and casts are not modelled, section 8.) The
payload of a gRPC call goes through `CallRemote`.

**SchemaCache** has the threads that call `GetRuntimeSchema` for the first time: a
stack of `InitSchemaDef` transforms per thread, appending to one vector, behind
`call_once`. What a type is made of and its `TypeDef` are constant operators
(`StructIn`, `TypeDef`). **Schemas** extends it: it gives C++ types and their
`TypeDef`s (`StructOf`, `GetTypeDef`, which every configuration hands to the
constants) and compares the schemas that result by `Validate`, which is
recursive.
**SchemaValidator** is the second `Validate`, over a serialized schema, which
looks for fields that this version of the library does not know.

**Mapping** is `MapTo` over tagged and untagged payloads, with mappings of
fields, nested structs and bases.

**TaggedParser** is one parse of one struct with its bases. The payload is a
sequence of structs, base first, each a sequence of tags (id and type); a
nested struct or container is one value. `mode` chooses the compile-time or the
runtime `ReadFields`, `transform` one of `To`, `Serializer`, `Merger`, and
`depth` how many structs of the hierarchy the target type has. The
actions are the branches of the loops of `parser.h`; the transform callbacks are
operators with a case per transform. `To` keeps the set of assigned fields and
the validator's next required field; the writers keep the tags they wrote and
where each value came from (payload, object, or merged). Types are two integers,
one promotable to the other, a list and a struct: what `is_matching_basic` and
the tests for container types tell apart. `Ended` is the idle step of a parse
that has returned or thrown.

**SimpleJson.** The writer produces tokens; RapidJSON, which is external, makes
a document of them; `DOMParser` looks up the fields of its schema. `WriteJson`
writes an object, or the payload of one under a schema that may know fewer or
other fields (`V`); `ReadJson` reads it into a variable of another version, with
the compile-time or a runtime schema, and throws when a required field has no
member. `JsonRoundTrip` uses the same `Seen` and `Refused` as the binary
protocols. Characters are modelled where they are
converted, in strings.

The `*Proofs` modules hold the theorems about the module they are named after,
`ConcurrencyProofs` those about `IoManager`, `WaitCallback` and `ClientCall`;
`StreamLemmas` has what the operators of `Streams` compute (section 6).

The `MC*` modules add model values, objects, schemas and payloads. Three of them
compose modules that share no state, so that one run covers several:
`MCConcurrency`, `MCMemory` and `MCSerialization` have a variable `focus` which
the initial state chooses, and only the module it names takes steps. No
definition is replaced by a configuration.

## 3. Runs

| Run | Shows |
|---|---|
| `shared_call` | counting, deletion, single response and freeing of a call with three concurrent owners and responses that may throw |
| `abandoned_shared_call` (violation) | two owners released at once: no error is sent |
| `server` | well-behaved callbacks: every request is answered, no callback is entered behind the destruction, and destruction ends |
| `server_abandoning` | callbacks that drop their call, and a one-way method: exclusive receive loop, live buffers, nothing on a queue that is shut down, calls refine `UnaryCall` |
| `server_one_way` (violation) | the callback of a one-way call is entered after the service was destroyed |
| `concurrent_objects` | io_manager: `WaitMeansStopped`, `ManagerDrains`; thread pool: `PoolDrains`; wait_callback: `OutcomeMatchesResult`, `WaitersComeBack`; client calls: `NoUseAfterFree`, `SuccessIsDelivered`, `EverythingReleased`; schemas: `GetSeesCompleteSchema`, `GetReturnsEventually`, `ValidatedIsReadable` |
| `memory` | allocator: `CounterExact`, `BytesWithinCap`; streams: `ContentIsLog`, `HandedOutIsStable`, `ReadsWhatWasWritten`; `NullableOwnsItsValue`; bonded: `BondedKeepsStruct`, `ReaderIsBehindField` |
| `serialization` | writers and readers: `RoundTrip`, `SkipAgreesWithRead`, `TruncationContained`; `MapToMapsWithBases`; `ValidatorFindsUnknown`; the tagged parser: `ObjectMatchesPayload`, `UnknownFieldsKept`, `MergeLossIsKnown`; `JsonRoundTrip` |
| `merge_lost` (violation) | a merge that loses a field of the object |
| `validate_identical` (violation) | two schemas without a common field are "wire-format equivalent" |
| `map_without_base` (violation) | a mapping that does not mention the base maps nothing of the derived struct either |
| `validator_attributes` (violation) | a schema with attributes is reported as unknown |

`EveryRequestAnswered` is checked in `server` only: with callbacks that drop
their call it fails, by the race of `abandoned_shared_call`. `MapToMapsWithBases`
and the objects of `ValidatorFindsUnknown` in `serialization` leave out the
cases of the two findings about them; the violation runs have them.

**Bounds.** Three owners suffice for every interleaving of two that race while
a third is created from either. The server has one or two methods, two io
threads (two threads are needed to enter one method twice) and up to two
requests (`MaxRequests`), so that a receive is registered again while the call
before it is in progress. The io_manager has two workers, two callers and two
operations; the pool two threads, two copies and three callbacks, one more than
there are threads. `wait_callback` has two invokers (one is refused), two plain
waiters (to tell `notify_all` from `notify_one`) and a timed one. The client has
one call with a future, one without a callback and two io threads; a call with a
plain callback takes the path of the future, whose promise is such a callback. Two threads get schemas, of types that
are nested, recursive, derived and bonded (11 275 states for all of
`concurrent_objects`).

The allocator has a word of 7 with elements of 2, a maximum of 3 and a counter
that charges 1 for itself: requests of 4 elements and more wrap, one element
fits and two do not; the proofs cover every other choice. Streams take up to
three items (`MaxItems`), among them integers of one byte, of the most bytes and
of one less, and blobs below and above the size from which they are chained,
into buffers that are empty, nearly full and at their limit. Two variables of
type nullable and four cells allow a value to be assigned from its own
descendant. The application takes up to three steps (`MaxSteps`) with two bonded
variables, so that a payload can be captured, sent, kept by the receiver and
sent on. The run has 311 996 states.

`serialization` serializes up to two objects with one writer (`MaxObjects`), the
second after the first has been written or has failed. The samples have every
kind of type and the values at which an encoding changes: ids 5, 6, 255 and 256,
containers of 6 and 7 elements, integers and lengths around 128. Each output is
read as every target type, skipped, transcoded, and cut at every byte. Among the
targets are structs that lack fields, ask for required ones that are there, are
absent, stand in a base or in the elements of a list, take wider integers, and
have fewer and more levels. A cut payload is skipped, and read as every target
type of its kind; among these are variables that take all of it and variables
that skip the part where it is cut. The
parser's base struct has two known fields with an unknown one before, between
and behind them; the derived struct has one of each; a further derived struct is
unknown altogether. So every neighbourhood of known, unknown, omitted and
mismatched fields occurs, at every level, in a promotable, an equal and two
unreadable types. JSON has hierarchies with every kind of container, each empty
and not, written from objects and payloads with and without all fields, under
two schemas and read as up to five types, with required members that are there
and that are absent (575 752 states in all).

Symmetry is used only where no liveness property is checked (io threads in
`server_abandoning`, blocks, bonded and nullable variables and allocators in
`memory`).

**Deadlock** is checked in `server` and `server_one_way`, where the destroyed
server has an explicit idle step. The models of the other passing runs describe
objects that may simply not be used any more, or end when everything has been
written and read.

## 4. Fairness

Weak fairness is given to threads inside a library function, to io threads and
pool threads that have work, to the destructor once entered, and to gRPC
completing an operation that was started: `CompletionQueue::Next` returns each
of them, and `scheduler.h` demands that what is scheduled is executed. A thread
inside `GetRuntimeSchema` goes on, and `call_once` lets a waiting thread return
when the first one has. Nothing is assumed of users: no one has to finish a call
(`UnaryCall`), start an io_manager, post a callback, send a request or destroy a
server. The liveness runs of `GrpcServer` assume that a callback goes on until
it has finished or dropped its call, since `~server` waits for precisely that.
In `WaitCallback` taking the mutex and the expiry of a timeout have strong
fairness: other threads may hold the mutex again and again, and a spurious
wake-up may interrupt the sleep, but a thread that competes for the mutex gets
it at some time and the clock does not stop.

## 5. Findings

The violation runs record places where the code does not do what its
documentation or comments say; `PROJECT.json` quotes the lines.

1. `abandoned_shared_call`, `unary_call_impl.h:130`: the count is read and
   decremented in two operations. When the last two owners go at once, both
   read 3 and the documented internal error is not sent; the call is leaked as
   well. A plain `unary_call` is exposed too, because the scheduler has to copy
   the closure and the io thread destroys its own copy (`service.h:181`); the
   shutdown of the server then waits for ever.
2. `server_one_way`, `unary_call_impl.h:314`: a one-way call is finished before
   its callback is entered, so `~server` does not wait for that callback.
3. `merge_lost`, `parser.h:290`: the compile-time parser does not report a
   schema field as omitted when an unknown field stands directly before it; a
   merge then drops the object's value. `MergeLossIsKnown` shows that there is
   just one other way to lose a value: at `parser.h:323`, for a payload with a
   promotable integer type, a merge writes the payload's value instead.
4. `validate_identical`, `detail/validate.h:122`: the flag for identical schemas
   is cleared when the numbers of fields differ, not when the fields do.
5. `map_without_base`, `transforms.h:820`: in a tagged protocol the base ignored
   by `MapTo` is skipped by skipping the whole struct, the mapped fields of the
   derived struct included.
6. `validator_attributes`, `detail/validate.h:252`: the elements of a map of
   basic types are neither read nor skipped, so the validator goes on at the
   wrong place in the payload.

Without a run of their own:

* `input_buffer.h:199`: `Skip` of more bytes than are left returns without moving
  and without an exception, and `~value` and `~bonded` swallow exceptions
  besides. A payload cut inside a value that the variable does not take can thus
  be accepted: a Simple Binary struct whose last string is cut, read as a type
  without that string, or a Fast Binary `nullable<uint32>` read as a
  `nullable<uint16>`. The comment at `test/core/exception_tests.cpp:27`, "Attempt
  to de-serialize or skip the field leads to Eof exception", is not true of the
  skip. `TruncationContained` states what holds: a cut is noticed by a variable
  that takes everything, and no position is ever behind the end.
* `detail/inheritance.h:168`: a runtime schema that is less deep than the variable is
  read into the most derived structs, and the bases above are not entered, so that
  their required fields are not asked for.
* `bonded.h:72-77`, `94-103`: the copy of a `bonded<T, Reader&>`, and a cast of it,
  has `_skip` set whatever the source has, so that each of them skips a struct if
  it is not read; the library passes these by reference or moves them.
* `unary_call_impl.h:93`: the flag is set before the response is serialized. If
  that throws (`SerializeThrows` in `UnaryCall`), the flag no longer "tracks
  whether any response has been sent" (line 164), and every later answer is
  suppressed, the error of the last destructor included.
* `nullable.h:307-314`: a move to another allocator that is not equal moves the
  value into a new cell and leaves the old one behind; `NullableOwnsItsValue`
  exempts these cells (`abandoned`).
* Simple JSON: unknown fields are written by id into the object that all structs
  of a hierarchy share, so a base and a derived field with the same id cannot be
  told apart unless their types differ (the documentation supports such payloads
  only when the schema is known, `bond_cpp.md:1317`). An empty nullable of an
  object is written as `null`, one of a payload as `[]`; the reader takes both.
  An integer that does not fit the variable is truncated (`Narrow`), and the
  values of a map are read without a check of their type (`JsonMapped`). The
  comment at `simple_json_reader.h:81` expects nothing bad of a string that is
  found for an int32 field with a runtime schema, but `GetInt64` then fails an
  assertion of RapidJSON.

## 6. Proofs

Each proof module extends the module it is about and proves
`Init => IInv`, `IInv /\ [Next]_vars => IInv'` and `IInv => Property` for an
inductive invariant `IInv` whose conjuncts are named parts. The step of the
induction has one lemma or step per action, and under it one step per conjunct
that the action can disturb. The theorems hold for every value of the constants
that satisfies the assumptions named below; TLC evaluates these in the runs.

| Module | Theorem | Property |
|---|---|---|
| `UnaryCallProofs` | `RefCountIsExact`, `NeverUsedAfterFree`, `SingleResponse`, `ErrorOnlyFromLast` | `RefCountExact`, `NoUseAfterFree`, `AtMostOneResponse`, `InternalErrorOnlyFromLast` |
| | `TypeCorrect`, `ResponseNeverChanges` | `TypeOK`, `ResponseIsFinal` |
| `CappedAllocatorProofs` | `CounterIsExact`, `CapHolds` | `CounterExact`, `BytesWithinCap` |
| | `TypeCorrect`, `SubtractNeverUnderflows` | `TypeOK`, `NoUnderflow` |
| `ConcurrencyProofs` | `WaitStops`, `QueueShutDownOnce` | `WaitMeansStopped`, one `Shutdown` of the queue |
| | `OutcomesMatch`, `OneInvocationSucceeds` | `OutcomeMatchesResult`, mutual exclusion and one successful invocation |
| | `CallDataAlive`, `CallbackOnce` | `NoUseAfterFree`, `CallbackAtMostOnce` |
| `GrpcServerProofs` | `ReceivesAreExclusive`, `BuffersStayLive`, `QueueStaysShut` | `ReceiveIsExclusive`, `ReceiveBuffersLive`, `NothingAfterCqShutdown` |
| | `CallsRefineUnaryCall` | `CallsFollowUnaryCall`, the refinement |
| | `CallbacksEnterLiveServices` | `CallbackEntersLiveService`, if `OneWay = {}` |
| | `ServerCallsAreSafe` | one response and no use after free, for every call of the server |
| `TaggedParserProofs` | `ParsedObjectsMatch`, `UnknownFieldsAreKept`, `MergeLossesAreKnown` | `ObjectMatchesPayload`, `UnknownFieldsKept`, `MergeLossIsKnown` |
| `SchemaCacheProofs` | `GetHandsOutCompleteSchema`, `CacheInvariant` | `GetSeesCompleteSchema`, the inductive invariant |
| `StreamsProofs` (with `StreamLemmas`) | `ContentIsWritten`, `HandedOutStays`, `ReadBack`, `StreamsInvariant` | `ContentIsLog`, `HandedOutIsStable`, `ReadsWhatWasWritten`, the inductive invariant |

**UnaryCallProofs**, for every finite set of owners (`OwnersAssumption`). None of
the properties is inductive alone. `IInv` adds

* `FlagInv`: one owner at most is between the flag and the responder, and the
  responder has seen nothing before that owner calls it, which makes the
  response unique;
* `LastInv`: an owner that read 2 while nothing was sent is the only holder.
  This is where the exact count is needed: nothing sent means that the call
  still holds its own reference, so the other one is the reader's, and nobody
  else is left who could make a copy;
* `PhaseInv`: the object is deleted exactly when the count is 0, and has no
  holder while it waits for a request.

The lemmas `HoldersPlus`, `HoldersMinus` and `SingleHolder` say how the number
of holders changes.

**CappedAllocatorProofs**, for every finite set of blocks, every word, element
size, maximum and initial charge (`WordAssumption`, `SizeAssumption`,
`BaseAssumption`, `BlocksAssumption`). `IInv` adds `SizesFit` (an accepted size
is at most the maximum, the value about to be exchanged leaves room for it, a
live block's size did not wrap) and that the counter is at most the maximum. The
sum of the sizes is the cardinality of a set with one element per byte
(`ChargedBytes`), so that the theorems on finite sets give how it changes.

**ConcurrencyProofs, io_manager** (`IoInv`), for any threads, callers and
operations; the only assumption used is that an operation is not the name of a thread state (`OpsAssumption`).
`WaitMeansStopped` speaks of the moment `wait` returns and needs what was true
before: `ShutdownInv` (the queue is shut down by the one caller that found the
flag clear), `ExitInv` (a thread leaves `run` only when the queue is drained),
`TagInv` (a tag that is being invoked is with exactly one thread) and `CallOnceInv`
(a caller is past `call_once` only when the threads are joined).

**ConcurrencyProofs, wait_callback** (`WaitInv`), for any finite sets of invoking
and waiting threads
(`WaitThreadsAssumption`). `MutexInv` says that the mutex names the only thread
between lock and unlock, also after a wait took it again; `RecordedInv` that the
result is that of one invocation, the one that will not throw. `OutcomesMatch`
is an action property and uses both.

**ConcurrencyProofs, client** (`ClientInv`), for any finite sets of calls and io threads
(`DispatchedAssumption`, `IoThreadsAssumption`). `CallInv` has, for each call,
the exact count of its references (the constructor's and the call's own), and
what the response buffer holds in each state of the tag; `ThreadInv` ties an io
thread inside `invoke` to the call whose tag it dequeued.

**GrpcServerProofs**, for any finite sets of methods and io threads and any
number of requests (`MethodsAssumption`, `ThreadsAssumption`,
`RequestsAssumption`, `AbandonAssumption`, `NoneAssumption`). `IInv` has

* `CallInv` of every call: `CountInv`, `FlagInv` and `PhaseInv`, which are those
  of `UnaryCall` for the two owners a call of the server has;
* `TokenInv`: a method has one token, which is with gRPC, in the queue or with
  one io thread. The three steps of `queue_receive` hand it on, so that a second
  thread can only be in the same object after the first has let go of it;
* `ReceivedCallInv`: whoever has the token finds in `_receivedCall` a call of its
  own method that nobody else reaches;
* `FreshInv`, `ThreadInv` and `SentInv`: unused calls are untouched; a thread
  from taking a call to scheduling its callback is alone with it; a
  completion is queued only for a call that was answered;
* `ServerInv`: what is gone at each stage of `~server`. gRPC's `Shutdown` has
  cancelled the receives and waited for the answers before the queue is shut
  down.

`CallsRefineUnaryCall` maps every action to a step of `UnaryCall` for one call
and a stutter for all others (lemmas `...Refines`, `OneCall`). A callback that a
method with a response has not entered keeps its call unanswered, which is why
`~server` waits for it and `CallbacksEnterLiveServices` holds; for one-way
methods the run `server_one_way` shows that it does not.

**TaggedParserProofs**, for every schema, every payload and both parsers
(`ParsesAssumption`, `SchemaAssumption`, `PayloadAssumption`: the fields of a
struct are sorted by id, and no id is `invalid_field_id`, `reflection.h:117`).
`ReadFields` is a merge of two sorted sequences; the argument is that the two
positions never lose step: `CrossInv` says that every tag behind the payload's
position has a smaller id than every schema field ahead, and the reverse.
By the lemma `Classify` an iteration of either loop skips a tag, matches a tag and a
field, or passes a field, and each of the three is then followed through each
transform. `PlaceInv` gives the level of the hierarchy, `AssignInv` and
`RequiredInv` say what `To` has assigned and which required field is next,
`FailureInv` why a parse threw, `OrderInv` that the output is ordered up to the
current position, and `SerializerInv`, `KeptInv` and `LossInv` say what each
writing transform has written of the part that was read.

**SchemaCacheProofs**, for any set of threads, any structs that contain, derive
from or refer to each other in any way, and whatever a type and its `TypeDef` are
(`DeclsAssumption`: what a declared struct is made of is declared, and a type is
made of one struct at most). `GetSeesCompleteSchema` is about the moment `Get`
returns; its content is that an index taken before the vector grew still means
the same struct afterwards. `IInv` is

* `BuildInv`: while a thread builds, the vector has each struct once (`VectorInv`);
  each transform on the stack has filled its struct by as many visits as it has
  made (`FrameInv`), and waits, with the index, for the struct that the next
  transform fills (`StackInv`); and a struct that no transform is filling is
  complete (`RestComplete`), which makes it right to refer to a struct that was
  found in the vector, even if it is still being filled below;
* `OnceInv`: one thread builds a schema, behind `call_once`;
* `DoneInv`: a schema that is done describes its struct, and stays so.

**StreamLemmas, StreamsProofs**, for every buffer size, growth, limit and chaining
threshold, every `More` from 2 up (`StreamsAssumption`) and every set of items
(`ItemsAssumption`: byte strings, and integers within the width of their type).
`StreamLemmas` is about the operators. A stream is `Fine` if its range is within
its buffer and what it has chained is `Settled`: no write reaches it, since it lies
in another buffer or before the end of the range. One call leads from a stream s
to a stream u with `Writes(s, u, d)`: u is fine, has changed no byte that was in
use (`Keeps`), and holds d behind what s held. This is proved for copying, growing,
chaining and the byte-by-byte writing of an integer that may find room in a buffer
that it made grow, and composed by `WritesThenWrites`. The other half is that
reading inverts writing (`ReadsVarint`): `Rest(v, n)` is what n shifts leave of v,
and shifting in the groups again gives v (`ValueIs`), where the last byte may be
taken whole, and the tenth byte of a `uint64_t` is the ninth's continuation bit.
The recursive functions behind these operators are local, so each is treated in
the same way: its recursion has a solution, has only one (by `NatInd`, induction
over a set of numbers, from the well-foundedness of the naturals), and the
operator is a value of it.

`StreamsInv` is `OutputInv` (the stream is fine and holds the items written),
`TakenInv` (what `GetBuffers` handed out is settled: without this the next write
could reach it), `InputInv` (the reader is behind as many bytes as the items it
has read take, in a blob with the content of the stream; this is why the next
bytes are those of the next item) and `HeldInv` (the blobs that were read have
the content they had; `ReleaseRaw` first prolongs what lies in the raw memory).

Only proved, and not the subject of a run: the type invariants of `UnaryCall`
and `CappedAllocator`, `ResponseIsFinal`, `NoUnderflow`, `QueueShutDownOnce`,
`CallbackOnce`, `OneInvocationSucceeds`, `ServerCallsAreSafe`.

Only model-checked:

* the liveness properties (`FinishedCallIsFreed`, `EveryRequestAnswered`,
  `DestructionCompletes`, `ManagerDrains`, `PoolDrains`, `WaitersComeBack`,
  `SuccessIsDelivered`, `EverythingReleased`, `GetReturnsEventually`), which like
  `ENABLED` are outside the prover's reach;
* `Bonded`, `BinaryWriter`, the comparison of schemas in `Schemas`
  (`ValidatedIsReadable`), and what the operators of `Encoding`, the protocols,
  `Values`, `Serializer`, `Mapping`, `SchemaValidator` and `SimpleJson` compute.
  They are mutually recursive over types and values of any depth and declared
  `RECURSIVE`, about which the prover cannot reason; the induction over numbers
  that `StreamLemmas` uses does not reach them;
* `Nullable`, whose operations are recursive over chains of cells, and
  `ThreadPool`, of which the run checks liveness.

## 7. Plan

What would come next, in this order:

1. `ThreadPool`: that a thread is joined only after the queue is empty.
2. `Nullable`: `NullableOwnsItsValue`, with its chains of cells as a function
   instead of a recursive operator.
3. The integers of `Encoding` on top of `StreamLemmas`: the byte sequences of the
   protocols in place of the items.
4. `Merger` into containers, and writing transforms on a payload that is
   shallower than the schema.

## 8. Not modelled

* gRPC, `boost::asio`, RapidJSON and the standard library are external: they
  appear by what the code relies on (a tag comes back once, `Next` returns false
  when the queue is shut down and empty, `run` returns when neither work nor
  handlers are left, `call_once` runs one caller and holds the others).
* `server::Shutdown(deadline)`, which cancels calls inside gRPC; moving servers
  and owners beyond the transfer of the pointer. (The documentation of
  `unary_call` also promises an error when an owner is "moved from"; a move
  hands the call over and sends nothing, which is what the model does.)
* A callback that drops the last copy of its own thread pool
  (`basic_thread_pool.h:89`), which would join itself; `win_thread_pool.h`,
  whose work is done by Windows.
* Writing transforms on a tagged payload that is shallower than its schema:
  `Serializer::Base` (`transforms.h:90`) ignores the early end, and the parser
  reads on in whatever follows the struct. Untagged payloads are always read
  with their own schema, as the protocol requires.
* Integers from 2^28 up in the protocols (their bytes are covered with smaller
  groups in `Streams`), the bits of floating point numbers, map payloads with
  two equal keys, the wrap of a skipped string's byte count
  (`simple_binary.h:200`), and schemas that disagree on the default of a field.
* Copies and casts of the `bonded<T, Reader&>` that a parser hands to a transform
  (`bonded.h:72-77`, `94-103`); `Bonded` moves, consumes, keeps and drops it.
* A failed allocation in `OutputMemoryStream` (`output_buffer.h:268`), files and
  other stream types, `bonded<void>` cast to a base of its payload's type after
  a merge, and the merge of a payload in place at another version.
* `nullable` that keeps its value in place, moving an owner into its own
  descendant, mappings with overlapping destinations.
* For JSON: enums, `maybe`, pretty printing, characters outside the basic plane
  and narrow strings beyond ASCII.
* `Merger` into containers, tuples as arguments, the compiler (text to text),
  and the C#, Java and Python implementations, which are programs of their own.
