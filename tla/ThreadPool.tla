----------------------------- MODULE ThreadPool ----------------------------
(***************************************************************************)
(* bond::ext::grpc::basic_thread_pool                                      *)
(* (src/cpp/inc/bond/ext/grpc/basic_thread_pool.h), the Scheduler that     *)
(* services and clients are given.  The pool object is a shared_ptr to an  *)
(* io_service with its threads; copies of it, also inside std::function    *)
(* Schedulers, share the service, and the last copy destroys it.           *)
(*                                                                         *)
(* boost::asio is external: run() executes posted handlers and returns     *)
(* when there is neither a handler nor a work object left.                 *)
(***************************************************************************)
EXTENDS Naturals, FiniteSets

CONSTANTS
    PoolThreads,        \* the threads of the pool
    Handles,        \* the copies of the pool, and who may make or drop them
    First,          \* the copy that the constructor makes
    Callbacks       \* the callbacks that are scheduled, each once

ASSUME PoolThreadsAssumption == PoolThreads # {} /\ IsFiniteSet(PoolThreads)

ASSUME HandlesAssumption == First \in Handles

VARIABLES
    handles,    \* the live copies of the shared_ptr
    service,    \* "alive", or how far the destructor of the service is
    posted,     \* the handlers that wait in the io_service
    thread,     \* per thread: "running" (in run()), a callback, "returned" or "joined"
    ran         \* the callbacks that have been executed

poolVars == <<handles, service, posted, thread, ran>>

(* The constructor starts every thread.                                    *)
PoolInit ==
    /\ handles = {First}
    /\ service = "alive"
    /\ posted = {}
    /\ thread = [t \in PoolThreads |-> "running"]
    /\ ran = {}

InProgress == {thread[t] : t \in PoolThreads} \cap Callbacks

-----------------------------------------------------------------------------
CopyHandle(h) ==
    /\ handles # {}
    /\ h \notin handles
    /\ handles' = handles \cup {h}
    /\ UNCHANGED <<service, posted, thread, ran>>

DropHandle(h) ==
    /\ h \in handles
    /\ handles' = handles \ {h}
    /\ UNCHANGED <<service, posted, thread, ran>>

(* operator(): any holder of a copy posts a callback.                      *)
Post(c) ==
    /\ handles # {}
    /\ c \notin posted \cup InProgress \cup ran
    /\ posted' = posted \cup {c}
    /\ UNCHANGED <<handles, service, thread, ran>>

(* io_service::run takes a handler ...                                     *)
Take(t) ==
    /\ thread[t] = "running"
    /\ \E c \in posted :
        /\ thread' = [thread EXCEPT ![t] = c]
        /\ posted' = posted \ {c}
    /\ UNCHANGED <<handles, service, ran>>

(* ... and has executed it.                                                *)
RunHandler(t) ==
    /\ thread[t] \in Callbacks
    /\ ran' = ran \cup {thread[t]}
    /\ thread' = [thread EXCEPT ![t] = "running"]
    /\ UNCHANGED <<handles, service, posted>>

(* run() returns: the work object is gone, and so is every handler.        *)
RunReturns(t) ==
    /\ thread[t] = "running"
    /\ service # "alive"
    /\ posted = {} /\ InProgress = {}
    /\ thread' = [thread EXCEPT ![t] = "returned"]
    /\ UNCHANGED <<handles, service, posted, ran>>

-----------------------------------------------------------------------------
(* Mutant: the members in the other order; the threads are joined while    *)
(* the work object still keeps them in run().                              *)
DestroyWorkLast ==
    /\ handles = {}
    /\ service = "alive"
    /\ \A t \in PoolThreads : thread[t] = "joined"
    /\ service' = "workDestroyed"
    /\ UNCHANGED <<handles, posted, thread, ran>>

(* The last copy is gone: ~service destroys work, its last member, ...     *)
DestroyWork ==
    /\ handles = {}
    /\ service = "alive"
    /\ service' = "workDestroyed"
    /\ UNCHANGED <<handles, posted, thread, ran>>

(* ... then the vector of threads: ~scoped_thread joins each one, ...      *)
JoinThread(t) ==
    /\ service = "workDestroyed"
    /\ thread[t] = "returned"
    /\ thread' = [thread EXCEPT ![t] = "joined"]
    /\ UNCHANGED <<handles, service, posted, ran>>

(* ... and then the io_service itself.                                     *)
DestroyService ==
    /\ service = "workDestroyed"
    /\ \A t \in PoolThreads : thread[t] = "joined"
    /\ service' = "threadsJoined"
    /\ UNCHANGED <<handles, posted, thread, ran>>

-----------------------------------------------------------------------------
ThreadStep(t) == Take(t) \/ RunHandler(t) \/ RunReturns(t)

Destructor == DestroyWork \/ DestroyService \/ \E t \in PoolThreads : JoinThread(t)

PoolNext ==
    \/ \E h \in Handles : CopyHandle(h) \/ DropHandle(h)
    \/ \E c \in Callbacks : Post(c)
    \/ \E t \in PoolThreads : ThreadStep(t)
    \/ Destructor

(* Threads run and callbacks return; the destructor, once entered, goes    *)
(* on.  Nobody has to post or to drop a copy.                              *)
PoolFairness ==
    /\ \A t \in PoolThreads : WF_poolVars(ThreadStep(t))
    /\ WF_poolVars(Destructor)

PoolSpec == PoolInit /\ [][PoolNext]_poolVars /\ PoolFairness

-----------------------------------------------------------------------------
(* "The scheduled callback must be executed at some point in the future"   *)
(* (scheduler.h:19), also when the pool is destroyed right after it was    *)
(* scheduled: ~service drains the queue, it does not stop it.  And when    *)
(* the last copy of the pool is dropped, by a thread that is not the       *)
(* pool's own, the destructor comes back: it releases the work object      *)
(* before it joins (basic_thread_pool.h:88-91).                            *)
PoolDrains ==
    /\ \A c \in Callbacks : (c \in posted) ~> (c \in ran)
    /\ (handles = {}) ~> (service = "threadsJoined")
=============================================================================
