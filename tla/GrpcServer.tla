---------------------------- MODULE GrpcServer -----------------------------
(***************************************************************************)
(* A bond::ext::grpc::server: the receive loop of every service method     *)
(* (detail/service.h), the io_manager threads that poll its completion     *)
(* queue (io_manager.h), the user callbacks in the scheduler, one          *)
(* unary_call_impl per received call, and the destruction of the server    *)
(* (server.h).                                                             *)
(*                                                                         *)
(* gRPC itself is external: a receive registered with RequestAsyncUnary    *)
(* comes back once, with ok when a request was matched to it and without   *)
(* ok when the server was shut down first.                                 *)
(*                                                                         *)
(* A call has two owners.  The closure that invoke() builds on the io      *)
(* thread holds one reference; a scheduler takes closures by reference to  *)
(* const (scheduler.h:31), so a thread pool has to copy it, and that copy  *)
(* becomes the unary_call of the user callback.  The io thread destroys    *)
(* its own closure when the scheduler has returned, concurrently with the  *)
(* callback.                                                               *)
(***************************************************************************)
EXTENDS Naturals, Sequences, FiniteSets

CONSTANTS
    Methods,        \* the methods of the hosted services
    OneWay,         \* those among them with result "nothing"
    IoThreads,      \* the threads of the server's io_manager
    MaxRequests,    \* bound on the requests that clients send
    MayAbandon,     \* may a callback drop its call without finishing it?
    None            \* no call, no method

ASSUME MethodsAssumption == OneWay \subseteq Methods /\ IsFiniteSet(Methods)

(* io_manager.h:69: an io_manager has at least one thread.                 *)
ASSUME ThreadsAssumption == IoThreads # {} /\ IsFiniteSet(IoThreads)

ASSUME RequestsAssumption == MaxRequests \in Nat

ASSUME AbandonAssumption == MayAbandon \in BOOLEAN

(* One unary_call_impl is allocated per method and one more per request.   *)
Calls == 1 .. (MaxRequests + Cardinality(Methods))

ASSUME NoneAssumption == None \notin Calls \cup Methods

VARIABLES
    server,         \* how far construction and destruction of the server are
    receivedCall,   \* per method, _receivedCall
    registered,     \* methods with a receive outstanding in gRPC
    cq,             \* the events in the completion queue
    io,             \* what each io_manager thread is doing
    call            \* every unary_call_impl, with its callback

vars == <<server, receivedCall, registered, cq, io, call>>

(* The events of the completion queue: a receive, or a response sent.      *)
Received(m, ok) == [kind |-> "received", method |-> m, ok |-> ok]
Sent(c) == [kind |-> "sent", call |-> c]

Idle == [pc |-> "polling", method |-> None, call |-> None]

Allocated == {c \in Calls : call[c].method # None}

(* A unary_call_impl as its constructor leaves it.                         *)
NewImpl(m) ==
    [method |-> m, callback |-> "none", owner |-> [closure |-> "empty", user |-> "empty"],
     refCount |-> 1, responseSentFlag |-> FALSE, responses |-> << >>, tag |-> "none",
     phase |-> "receiving"]

Init ==
    /\ server = "starting"
    /\ receivedCall = [m \in Methods |-> None]
    /\ registered = {}
    /\ cq = {}
    /\ io = [t \in IoThreads |-> Idle]
    /\ call = [c \in Calls |-> NewImpl(None)]

-----------------------------------------------------------------------------
(* _receivedCall.reset(new unary_call_impl{}): the state for the next call *)
(* of the method.                                                          *)
NewCall(m) ==
    \E c \in Calls \ Allocated :
        /\ \A d \in Calls \ Allocated : c <= d
        /\ receivedCall' = [receivedCall EXCEPT ![m] = c]
        /\ call' = [call EXCEPT ![c] = NewImpl(m)]

(* service::queue_receive: gRPC keeps the receive, or, once the server is  *)
(* shutting down, returns it at once without a call.                       *)
RequestAsyncUnary(m) ==
    IF server \in {"starting", "up"}
    THEN registered' = registered \cup {m} /\ UNCHANGED cq
    ELSE cq' = cq \cup {Received(m, FALSE)} /\ UNCHANGED registered

(* server::start(): the service constructs the unary_call_data of its      *)
(* method, whose constructor queues the first receive.  The io_manager is  *)
(* polling already.                                                        *)
StartMethod(m) ==
    /\ server = "starting"
    /\ ~\E c \in Calls : call[c].method = m
    /\ NewCall(m)
    /\ RequestAsyncUnary(m)
    /\ UNCHANGED <<server, io>>

(* server::Start returns the server to its user.                           *)
Started ==
    /\ server = "starting"
    /\ \A m \in Methods : \E c \in Calls : call[c].method = m
    /\ server' = "up"
    /\ UNCHANGED <<receivedCall, registered, cq, io, call>>

(* gRPC matches a client's request with a registered receive.  Every       *)
(* method keeps one call in reserve for its next receive.                  *)
RequestArrives(m) ==
    /\ server \in {"starting", "up"}
    /\ m \in registered
    /\ Cardinality(Allocated \ {receivedCall[n] : n \in Methods})
         + Cardinality({n \in Methods : n \notin registered /\ receivedCall[n] # None}) < MaxRequests
    /\ registered' = registered \ {m}
    /\ cq' = cq \cup {Received(m, TRUE)}
    /\ UNCHANGED <<server, receivedCall, io, call>>

-----------------------------------------------------------------------------
(* Mutant: a receive that came back without ok is registered once more.    *)
NextEventRequeued(t) ==
    /\ io[t].pc = "polling"
    /\ \E e \in cq :
        /\ cq' = IF e.kind = "received" /\ ~e.ok THEN cq ELSE cq \ {e}
        /\ io' = [io EXCEPT ![t] =
                    CASE e.kind = "sent" -> [Idle EXCEPT !.pc = "sent", !.call = e.call]
                      [] e.kind = "received" /\ e.ok -> [Idle EXCEPT !.pc = "take", !.method = e.method]
                      [] OTHER -> Idle]
    /\ UNCHANGED <<server, receivedCall, registered, call>>

(* io_manager::run: CompletionQueue::Next hands one event to one thread,   *)
(* which calls invoke(ok) on its tag.  Without ok the receive loop of the  *)
(* method ends here.                                                       *)
NextEvent(t) ==
    /\ io[t].pc = "polling"
    /\ \E e \in cq :
        /\ cq' = cq \ {e}
        /\ io' = [io EXCEPT ![t] =
                    CASE e.kind = "sent" -> [Idle EXCEPT !.pc = "sent", !.call = e.call]
                      [] e.kind = "received" /\ e.ok -> [Idle EXCEPT !.pc = "take", !.method = e.method]
                      [] OTHER -> Idle]
    /\ UNCHANGED <<server, receivedCall, registered, call>>

(* Mutant: the next receive is registered before _receivedCall is renewed. *)
TakeAndRearm(t) ==
    /\ io[t].pc = "take"
    /\ LET m == io[t].method
           c == receivedCall[m]
       IN  /\ receivedCall' = [receivedCall EXCEPT ![m] = None]
           /\ call' = [call EXCEPT ![c].refCount = @ + 1,
                                   ![c].phase = "alive",
                                   ![c].owner.closure = "held"]
           /\ io' = [io EXCEPT ![t].pc = "reset", ![t].call = c]
           /\ RequestAsyncUnary(m)
    /\ UNCHANGED server

(* queue_receive(), first statement: the received call leaves              *)
(* _receivedCall for an intrusive_ptr, which counts a reference.           *)
TakeReceivedCall(t) ==
    /\ io[t].pc = "take"
    /\ LET m == io[t].method
           c == receivedCall[m]
       IN  /\ receivedCall' = [receivedCall EXCEPT ![m] = None]
           /\ call' = [call EXCEPT ![c].refCount = @ + 1,
                                   ![c].phase = "alive",
                                   ![c].owner.closure = "held"]
           /\ io' = [io EXCEPT ![t].pc = "reset", ![t].call = c]
    /\ UNCHANGED <<server, registered, cq>>

(* Mutant: no new state is created for the next request.                   *)
ResetForgotten(t) ==
    /\ io[t].pc = "reset"
    /\ io' = [io EXCEPT ![t].pc = "rearm"]
    /\ UNCHANGED <<server, receivedCall, registered, cq, call>>

(* queue_receive(), second statement.                                      *)
ResetReceivedCall(t) ==
    /\ io[t].pc = "reset"
    /\ NewCall(io[t].method)
    /\ io' = [io EXCEPT ![t].pc = "rearm"]
    /\ UNCHANGED <<server, registered, cq>>

(* queue_receive(), third statement: from here on another io_manager       *)
(* thread may run invoke() on the same unary_call_data.                    *)
Rearm(t) ==
    /\ io[t].pc = "rearm"
    /\ RequestAsyncUnary(io[t].method)
    /\ io' = [io EXCEPT ![t].pc = "schedule"]
    /\ UNCHANGED <<server, receivedCall, call>>

(* Mutant: the scheduler's copy of the closure is not counted.             *)
ScheduleUncounted(t) ==
    /\ io[t].pc = "schedule"
    /\ call' = [call EXCEPT ![io[t].call].owner.user = "held",
                            ![io[t].call].callback = "scheduled"]
    /\ io' = [io EXCEPT ![t].pc = "destroyClosure"]
    /\ UNCHANGED <<server, receivedCall, registered, cq>>

(* unary_call_data::invoke<Request, Response> calls the scheduler, which   *)
(* keeps a copy of the closure.                                            *)
Schedule(t) ==
    /\ io[t].pc = "schedule"
    /\ call' = [call EXCEPT ![io[t].call].refCount = @ + 1,
                            ![io[t].call].owner.user = "held",
                            ![io[t].call].callback = "scheduled"]
    /\ io' = [io EXCEPT ![t].pc = "destroyClosure"]
    /\ UNCHANGED <<server, receivedCall, registered, cq>>

(* The io thread's own closure is gone: back to Next.                      *)
ClosureDestroyed(t) ==
    /\ io[t].pc = "destroyClosure"
    /\ call[io[t].call].owner.closure = "empty"
    /\ io' = [io EXCEPT ![t] = Idle]
    /\ UNCHANGED <<server, receivedCall, registered, cq, call>>

(* unary_call_impl::Release.                                               *)
WithoutReference(k) ==
    [k EXCEPT !.refCount = @ - 1,
              !.phase = IF k.refCount = 1 THEN "deleted" ELSE @]

(* unary_call_impl::invoke.                                                *)
ResponseSent(t) ==
    /\ io[t].pc = "sent"
    /\ call' = [call EXCEPT ![io[t].call] = [WithoutReference(@) EXCEPT !.tag = "invoked"]]
    /\ io' = [io EXCEPT ![t] = Idle]
    /\ UNCHANGED <<server, receivedCall, registered, cq>>

(* Next returns false once the queue is shut down and drained.             *)
IoExit(t) ==
    /\ io[t].pc = "polling"
    /\ server = "cqShutdown"
    /\ cq = {}
    /\ io' = [io EXCEPT ![t].pc = "exited"]
    /\ UNCHANGED <<server, receivedCall, registered, cq, call>>

-----------------------------------------------------------------------------
(* Mutant: every unary_call finishes its call in its constructor.          *)
RunClosureFinishing(c) ==
    /\ call[c].callback = "scheduled"
    /\ call' = [call EXCEPT ![c].callback = "constructing", ![c].responseSentFlag = TRUE,
                            ![c].owner.user = "sending"]
    /\ UNCHANGED <<server, receivedCall, registered, cq, io>>

(* A scheduler thread runs the closure.  Constructing the unary_call of a  *)
(* one-way method calls Finish before the callback is entered.             *)
RunClosure(c) ==
    /\ call[c].callback = "scheduled"
    /\ call' = [call EXCEPT ![c] =
                  IF @.method \in OneWay
                  THEN [@ EXCEPT !.callback = "constructing", !.responseSentFlag = TRUE,
                                 !.owner.user = "sending"]
                  ELSE [@ EXCEPT !.callback = "entered"]]
    /\ UNCHANGED <<server, receivedCall, registered, cq, io>>

EnterCallback(c) ==
    /\ call[c].callback = "constructing"
    /\ call[c].owner.user = "held"
    /\ call' = [call EXCEPT ![c].callback = "entered"]
    /\ UNCHANGED <<server, receivedCall, registered, cq, io>>

(* Mutant: every Finish is taken for a repeated one.                       *)
FinishIgnored(c) ==
    /\ call[c].callback = "entered"
    /\ call[c].owner.user = "held"
    /\ ~call[c].responseSentFlag
    /\ UNCHANGED vars

(* The callback calls Finish; only the first call gets past the flag.      *)
Finish(c) ==
    /\ call[c].callback = "entered"
    /\ call[c].owner.user = "held"
    /\ ~call[c].responseSentFlag
    /\ call' = [call EXCEPT ![c].responseSentFlag = TRUE, ![c].owner.user = "sending"]
    /\ UNCHANGED <<server, receivedCall, registered, cq, io>>

(* The responder takes the answer and the tag; gRPC queues the tag when    *)
(* the answer is sent.                                                     *)
Send(c, o, answer, after) ==
    /\ call' = [call EXCEPT ![c].responses = Append(@, answer),
                            ![c].tag = "queued",
                            ![c].owner[o] = after]
    /\ cq' = cq \cup {Sent(c)}
    /\ UNCHANGED <<server, receivedCall, registered, io>>

Respond(c) ==
    /\ call[c].owner.user = "sending"
    /\ Send(c, "user", "user", "held")

(* An owner is being destroyed: the callback's unary_call, or the io       *)
(* thread's closure.                                                       *)
Dropping(c, o) ==
    /\ call[c].owner[o] = "held"
    /\ o = "user" => /\ call[c].callback = "entered"
                     /\ MayAbandon \/ call[c].responseSentFlag
    /\ o = "closure" => \E t \in IoThreads : io[t].pc = "destroyClosure" /\ io[t].call = c

TryFinishWithError(c, o) ==
    /\ Dropping(c, o)
    /\ call' = [call EXCEPT ![c].owner[o] = IF call[c].refCount = 2 THEN "abandoning" ELSE "releasing"]
    /\ UNCHANGED <<server, receivedCall, registered, cq, io>>

FinishWithError(c, o) ==
    /\ call[c].owner[o] = "abandoning"
    /\ call' = [call EXCEPT ![c].responseSentFlag = TRUE,
                            ![c].owner[o] = IF call[c].responseSentFlag THEN "releasing" ELSE "aborting"]
    /\ UNCHANGED <<server, receivedCall, registered, cq, io>>

RespondWithError(c, o) ==
    /\ call[c].owner[o] = "aborting"
    /\ Send(c, o, "internal", "releasing")

Release(c, o) ==
    /\ call[c].owner[o] = "releasing"
    /\ call' = [call EXCEPT ![c] = [WithoutReference(@) EXCEPT !.owner[o] = "empty"]]
    /\ UNCHANGED <<server, receivedCall, registered, cq, io>>

-----------------------------------------------------------------------------
(* ~server calls Shutdown(): every receive still registered comes back.    *)
Shutdown ==
    /\ server = "up"
    /\ server' = "shutdown"
    /\ cq' = cq \cup {Received(m, FALSE) : m \in registered}
    /\ registered' = {}
    /\ UNCHANGED <<receivedCall, io, call>>

(* The calls gRPC matched with a request and has no answer for.            *)
AnswersPending ==
    \/ \E e \in cq : e.kind = "received" /\ e.ok
    \/ \E t \in IoThreads : io[t].pc = "take"
    \/ \E c \in Calls : call[c].phase = "alive" /\ call[c].responses = << >>

(* Mutant: the destructor does not wait for the calls in progress.         *)
ShutdownAtOnce ==
    /\ server = "shutdown"
    /\ server' = "drained"
    /\ UNCHANGED <<receivedCall, registered, cq, io, call>>

(* ::grpc::Server::Shutdown and Wait return when no answer is pending.     *)
ShutdownReturns ==
    /\ server = "shutdown"
    /\ ~AnswersPending
    /\ server' = "drained"
    /\ UNCHANGED <<receivedCall, registered, cq, io, call>>

(* The last member, _ioManager, is destroyed first: ~io_manager shuts the  *)
(* queue down ...                                                          *)
ShutdownIoManager ==
    /\ server = "drained"
    /\ server' = "cqShutdown"
    /\ UNCHANGED <<receivedCall, registered, cq, io, call>>

(* ... and joins its threads; then _services are destroyed, each method    *)
(* deleting the call it was about to receive next.                         *)
DestroyServices ==
    /\ server = "cqShutdown"
    /\ \A t \in IoThreads : io[t].pc = "exited"
    /\ server' = "destroyed"
    /\ receivedCall' = [m \in Methods |-> None]
    /\ call' = [c \in Calls |->
                  IF c \in {receivedCall[m] : m \in Methods}
                  THEN [call[c] EXCEPT !.phase = "discarded"] ELSE call[c]]
    /\ UNCHANGED <<registered, cq, io>>

-----------------------------------------------------------------------------
OwnerNames == {"closure", "user"}

DropStep(c, o) ==
    \/ TryFinishWithError(c, o)
    \/ FinishWithError(c, o)
    \/ RespondWithError(c, o)
    \/ Release(c, o)

IoStep(t) ==
    \/ NextEvent(t)
    \/ TakeReceivedCall(t)
    \/ ResetReceivedCall(t)
    \/ Rearm(t)
    \/ Schedule(t)
    \/ ClosureDestroyed(t)
    \/ ResponseSent(t)
    \/ IoExit(t)

CallbackStep(c) ==
    \/ RunClosure(c)
    \/ EnterCallback(c)
    \/ Respond(c)

Destructor == ShutdownReturns \/ ShutdownIoManager \/ DestroyServices

(* The server is gone and so are its calls.                                *)
Terminated ==
    /\ server = "destroyed"
    /\ \A c \in Allocated : call[c].phase # "alive"
    /\ UNCHANGED vars

Next ==
    \/ \E m \in Methods : StartMethod(m) \/ RequestArrives(m)
    \/ Started
    \/ \E t \in IoThreads : IoStep(t)
    \/ \E c \in Calls : CallbackStep(c) \/ Finish(c)
    \/ \E c \in Calls, o \in OwnerNames : DropStep(c, o)
    \/ Shutdown
    \/ Destructor
    \/ Terminated

(* Threads are scheduled, the scheduler runs what it is given              *)
(* (scheduler.h:17), and a callback does one of the two things it may do:  *)
(* it finishes its call or it drops it.  Nothing forces a request to       *)
(* arrive or the server to be destroyed.                                   *)
Fairness ==
    /\ \A t \in IoThreads : WF_vars(IoStep(t))
    /\ \A c \in Calls : WF_vars(CallbackStep(c))
    /\ \A c \in Calls : WF_vars(Finish(c) \/ DropStep(c, "user"))
    /\ \A c \in Calls : WF_vars(DropStep(c, "closure"))
    /\ WF_vars(Destructor)

Spec == Init /\ [][Next]_vars /\ Fairness

-----------------------------------------------------------------------------
(* The threads between the arrival of m's tag and its next registration.   *)
Receiving(m) == {t \in IoThreads : io[t].pc \in {"take", "reset", "rearm"} /\ io[t].method = m}

(* service.h:199-214: unary_call_data is not synchronized, so while one io *)
(* thread replaces _receivedCall no other may run invoke() on the same     *)
(* method, and the method's tag may be neither registered nor queued.      *)
ReceiveIsExclusive ==
    \A m \in Methods :
        Cardinality(Receiving(m)) + Cardinality({e \in cq : e.kind = "received" /\ e.method = m})
            + Cardinality(registered \cap {m}) <= 1

(* The context, request buffer and responder that gRPC was given pointers  *)
(* to belong to the method's current, unshared unary_call_impl.            *)
ReceiveBuffersLive ==
    \A m \in Methods :
        m \in registered \/ (\E e \in cq : e.kind = "received" /\ e.method = m)
            => /\ receivedCall[m] \in Allocated
               /\ call[receivedCall[m]].phase = "receiving"
               /\ call[receivedCall[m]].refCount = 1
               /\ \A n \in Methods : receivedCall[n] = receivedCall[m] => n = m

(* Nothing is started on a completion queue that was shut down: gRPC       *)
(* aborts the process when it is.  ~server calls Shutdown and Wait before  *)
(* its members are destroyed (server.h:123-130, 183-185).                  *)
NothingAfterCqShutdown ==
    server \in {"cqShutdown", "destroyed"} =>
        /\ registered = {}
        /\ \A t \in IoThreads : io[t].pc \notin {"take", "reset", "rearm"}
        /\ \A c \in Calls : call[c].owner.user # "sending"
        /\ \A c \in Calls, o \in OwnerNames : call[c].owner[o] # "aborting"

(* A callback, which is bound to its service (service.h:70), is entered    *)
(* only while the service exists: Shutdown is "waiting for all rpc         *)
(* processing to finish" (server.h:145), and ~server calls it.             *)
CallbackEntersLiveService ==
    [][\A c \in Calls :
        call[c].callback # "entered" /\ call'[c].callback = "entered" => server # "destroyed"]_vars

(* Every request that was handed to a call is answered, whatever else      *)
(* arrives and even when the server is being destroyed.                    *)
EveryRequestAnswered ==
    \A c \in Calls : call[c].phase = "alive" ~> call[c].responses # << >>

(* The destruction of a server does not hang: receive loops end, io        *)
(* threads leave Next, and every unary_call_impl is freed.                 *)
DestructionCompletes ==
    (server = "shutdown") ~> (server = "destroyed" /\ \A c \in Allocated : call[c].phase # "alive")

(* Each call goes through the life that module UnaryCall describes.        *)
Call(c) == INSTANCE UnaryCall WITH
    Owners <- OwnerNames, First <- "closure", MayThrow <- FALSE,
    owner <- call[c].owner, refCount <- call[c].refCount,
    responseSentFlag <- call[c].responseSentFlag, responses <- call[c].responses,
    tag <- call[c].tag, phase <- call[c].phase

(* Every unary_call_impl of the server starts and changes as UnaryCall     *)
(* allows, so what is proved of one call holds of all of them here.        *)
CallsFollowUnaryCall ==
    /\ \A c \in Calls : Call(c)!Init
    /\ [][\A c \in Calls : [Call(c)!Next]_(Call(c)!vars)]_vars
=============================================================================
