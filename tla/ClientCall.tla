----------------------------- MODULE ClientCall ----------------------------
(***************************************************************************)
(* Outgoing calls: client::dispatch and client::unary_call_data            *)
(* (src/cpp/inc/bond/ext/grpc/detail/client.h), together with the          *)
(* io_manager the client shares and the scheduler that runs callbacks.     *)
(*                                                                         *)
(* unary_call_data owns itself through _self until its tag has been        *)
(* invoked.  Its constructor holds a second reference, because the tag may *)
(* be invoked on an io thread before Finish returns.                       *)
(*                                                                         *)
(* gRPC is external: after Finish the tag comes back once.                 *)
(***************************************************************************)
EXTENDS Naturals, FiniteSets

CONSTANTS
    Callback,   \* the calls dispatched with a callback
    Future,     \* the calls dispatched with the overload that returns a future
    NoCallback, \* the calls dispatched with an empty callback
    IoThreads   \* the threads of the io_manager

Dispatched == Callback \cup Future \cup NoCallback

ASSUME DispatchedAssumption ==
    /\ IsFiniteSet(Dispatched)
    /\ Callback \cap Future = {}
    /\ NoCallback \cap (Callback \cup Future) = {}

ASSUME IoThreadsAssumption == IoThreads # {} /\ IsFiniteSet(IoThreads)

VARIABLES
    manager,    \* the io_manager: "up", "shutdown" (~io_manager) or "joined"
    io,         \* per io thread: "polling", "exited", or what it does to which call
    data        \* per call, its unary_call_data and what was made of it

clientVars == <<manager, io, data>>

Polling == [pc |-> "polling"]
Exited == [pc |-> "exited"]
Handling(pc, c, ok) == [pc |-> pc, call |-> c, ok |-> ok]

(***************************************************************************)
(* dispatch  where the dispatching thread is: "none", "finish" (about to   *)
(*           call Finish), "release" (about to drop its copy of _self),    *)
(*           "returned"                                                    *)
(* tag       "none", "pending" in gRPC, "queued" or "dequeued"             *)
(* ok        what the tag came back with                                   *)
(* buffer    _responseBuffer, _status and _context: "empty", "filled" by   *)
(*           gRPC, or "moved" into a closure                               *)
(* closures  the closures given to the scheduler that have not run         *)
(* results   how often the callback was called, and with a response or not *)
(***************************************************************************)
ClientInit ==
    /\ manager = "up"
    /\ io = [t \in IoThreads |-> Polling]
    /\ data = [c \in Dispatched |->
                 [dispatch |-> "none", refCount |-> 0, deleted |-> FALSE, tag |-> "none", ok |-> FALSE,
                  buffer |-> "empty", closures |-> 0, results |-> 0]]

-----------------------------------------------------------------------------
(* Mutant: the constructor has no reference of its own.                    *)
ConstructWithoutSelf(c) ==
    /\ manager = "up"
    /\ data[c].dispatch = "none"
    /\ data' = [data EXCEPT ![c].dispatch = "finish", ![c].refCount = 1]
    /\ UNCHANGED <<manager, io>>

(* dispatch: new unary_call_data up to the call of Finish; _self and self  *)
(* are two references.  The client holds the io_manager, so it is up.      *)
Construct(c) ==
    /\ manager = "up"
    /\ data[c].dispatch = "none"
    /\ data' = [data EXCEPT ![c].dispatch = "finish", ![c].refCount = 2]
    /\ UNCHANGED <<manager, io>>

(* _responseReader->Finish(&_responseBuffer, &_status, tag()).             *)
Finish(c) ==
    /\ data[c].dispatch = "finish"
    /\ data' = [data EXCEPT ![c].dispatch = "release", ![c].tag = "pending"]
    /\ UNCHANGED <<manager, io>>

(* gRPC fills the buffer and the status and queues the tag.                *)
Complete(c, ok) ==
    /\ data[c].tag = "pending"
    /\ data' = [data EXCEPT ![c].tag = "queued", ![c].ok = ok,
                            ![c].buffer = IF ok THEN "filled" ELSE @]
    /\ UNCHANGED <<manager, io>>

(* intrusive_ptr_release.                                                  *)
WithoutReference(d) == [d EXCEPT !.refCount = @ - 1, !.deleted = (d.refCount = 1)]

(* The constructor returns: self is destroyed.                             *)
DropSelf(c) ==
    /\ data[c].dispatch = "release"
    /\ data' = [data EXCEPT ![c] = [WithoutReference(@) EXCEPT !.dispatch = "returned"]]
    /\ UNCHANGED <<manager, io>>

-----------------------------------------------------------------------------
NextTag(t) ==
    /\ io[t] = Polling
    /\ \E c \in Dispatched :
        /\ data[c].tag = "queued"
        /\ io' = [io EXCEPT ![t] = Handling("invoke", c, data[c].ok)]
        /\ data' = [data EXCEPT ![c].tag = "dequeued"]
    /\ UNCHANGED manager

(* invoke(ok): with ok and a callback, the buffer, the status and the      *)
(* context move into a closure that the scheduler keeps.                   *)
Invoke(t) ==
    /\ io[t].pc = "invoke"
    /\ io' = [io EXCEPT ![t].pc = "reset"]
    /\ data' = IF io[t].ok /\ io[t].call \notin NoCallback
               THEN [data EXCEPT ![io[t].call].closures = @ + 1, ![io[t].call].buffer = "moved"]
               ELSE data
    /\ UNCHANGED manager

(* Mutant: _self is reset only on success.                                 *)
ResetOnSuccess(t) ==
    /\ io[t].pc = "reset"
    /\ io' = [io EXCEPT ![t] = Polling]
    /\ data' = IF io[t].ok THEN [data EXCEPT ![io[t].call] = WithoutReference(@)] ELSE data
    /\ UNCHANGED manager

(* _self.reset().                                                          *)
ResetSelf(t) ==
    /\ io[t].pc = "reset"
    /\ io' = [io EXCEPT ![t] = Polling]
    /\ data' = [data EXCEPT ![io[t].call] = WithoutReference(@)]
    /\ UNCHANGED manager

(* A scheduler thread runs a closure: the callback gets its result, or the *)
(* packaged_task behind a future is executed.                              *)
RunCallback(c) ==
    /\ data[c].closures > 0
    /\ data' = [data EXCEPT ![c].closures = @ - 1, ![c].results = @ + 1]
    /\ UNCHANGED <<manager, io>>

-----------------------------------------------------------------------------
(* The client, and with it the last reference to the io_manager, goes away *)
(* on a user thread that has no dispatch in progress.                      *)
ShutdownManager ==
    /\ manager = "up"
    /\ \A c \in Dispatched : data[c].dispatch \in {"none", "returned"}
    /\ manager' = "shutdown"
    /\ UNCHANGED <<io, data>>

(* Mutant: run() stops at the shutdown, whatever is still in the queue.    *)
IoExitEarly(t) ==
    /\ io[t] = Polling
    /\ manager = "shutdown"
    /\ io' = [io EXCEPT ![t] = Exited]
    /\ UNCHANGED <<manager, data>>

(* Next returns false: the queue is shut down and drained.                 *)
IoExit(t) ==
    /\ io[t] = Polling
    /\ manager = "shutdown"
    /\ \A c \in Dispatched : data[c].tag \in {"none", "dequeued"}
    /\ io' = [io EXCEPT ![t] = Exited]
    /\ UNCHANGED <<manager, data>>

JoinManager ==
    /\ manager = "shutdown"
    /\ \A t \in IoThreads : io[t] = Exited
    /\ manager' = "joined"
    /\ UNCHANGED <<io, data>>

-----------------------------------------------------------------------------
IoStep(t) == NextTag(t) \/ Invoke(t) \/ ResetSelf(t) \/ IoExit(t)

DispatchStep(c) == Finish(c) \/ DropSelf(c)

Completion(c) == \E ok \in BOOLEAN : Complete(c, ok)

ClientNext ==
    \/ \E c \in Dispatched : Construct(c) \/ DispatchStep(c) \/ Completion(c) \/ RunCallback(c)
    \/ \E t \in IoThreads : IoStep(t)
    \/ ShutdownManager
    \/ JoinManager

(* Threads run, gRPC completes what was started and the scheduler runs     *)
(* what it was given.  Nobody has to dispatch or to drop the client.       *)
ClientFairness ==
    /\ \A c \in Dispatched :
        /\ WF_clientVars(DispatchStep(c))
        /\ WF_clientVars(Completion(c))
        /\ WF_clientVars(RunCallback(c))
    /\ \A t \in IoThreads : WF_clientVars(IoStep(t))
    /\ WF_clientVars(JoinManager)

ClientSpec == ClientInit /\ [][ClientNext]_clientVars /\ ClientFairness

-----------------------------------------------------------------------------
(* The thread that works on a call, if one does.                           *)
Working(c) == {t \in IoThreads : io[t].pc \in {"invoke", "reset"} /\ io[t].call = c}

(* Whoever still uses a unary_call_data finds it there: the constructor,   *)
(* gRPC that fills its members, an io thread inside invoke().  This is     *)
(* what the constructor's copy of _self is for (client.h:183).             *)
NoUseAfterFree ==
    \A c \in Dispatched :
        data[c].deleted =>
            /\ data[c].dispatch = "returned"
            /\ data[c].tag = "dequeued"
            /\ Working(c) = {}

(* A callback is called once at most, only after success, and with the     *)
(* buffer that gRPC filled: no closure is made of one already moved from.  *)
CallbackAtMostOnce ==
    \A c \in Dispatched :
        /\ data[c].closures + data[c].results <= 1
        /\ data[c].closures + data[c].results = 1 <=> data[c].buffer = "moved"
        /\ data[c].buffer = "moved" => data[c].ok

(* A std::future becomes ready when its packaged_task has run, or, with    *)
(* broken_promise, when the last copy of the task is gone: dispatch has    *)
(* returned, unary_call_data (whose _invoke holds one) is deleted, and no  *)
(* closure is left.                                                        *)
FutureReady(c) ==
    \/ data[c].results = 1
    \/ data[c].dispatch = "returned" /\ data[c].deleted /\ data[c].closures = 0

(* A call that succeeds delivers its result, and once only, even though    *)
(* the client was destroyed after the dispatch: ~io_manager drains its     *)
(* queue.                                                                  *)
SuccessIsDelivered ==
    /\ []CallbackAtMostOnce
    /\ \A c \in Callback \cup Future : (data[c].tag = "queued" /\ data[c].ok) ~> (data[c].results = 1)

(* No unary_call_data is leaked, whoever waits for the future of a call    *)
(* does not wait for ever, and the destruction of the client returns: also *)
(* when the operation failed and the callback is skipped (client.h:209),   *)
(* and when the client is destroyed meanwhile.                             *)
EverythingReleased ==
    /\ \A c \in Dispatched : (data[c].dispatch = "finish") ~> data[c].deleted
    /\ \A c \in Future : (data[c].dispatch = "finish") ~> FutureReady(c)
    /\ (manager = "shutdown") ~> (manager = "joined")
=============================================================================
