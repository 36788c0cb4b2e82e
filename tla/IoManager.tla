----------------------------- MODULE IoManager -----------------------------
(***************************************************************************)
(* bond::ext::grpc::io_manager (src/cpp/inc/bond/ext/grpc/io_manager.h): a *)
(* pool of threads polling one ::grpc::CompletionQueue, with a delayed     *)
(* start, a shutdown that any number of threads may request, and a wait    *)
(* that any number of threads may call.                                    *)
(*                                                                         *)
(* The completion queue is external: an operation started on it comes back *)
(* once, and Next returns false when the queue is shut down and every      *)
(* operation has come back.                                                *)
(***************************************************************************)
EXTENDS Naturals, FiniteSets

CONSTANTS
    Workers,    \* the slots of _threads
    Callers,    \* user threads that call shutdown() and then wait()
    Ops         \* the operations started on the queue; each is its own tag

ASSUME WorkersAssumption == Workers # {} /\ IsFiniteSet(Workers)

(* What a thread does when it runs no tag.                                 *)
ThreadStates == {"none", "polling", "exited", "joined"}

ASSUME OpsAssumption == Ops \cap ThreadStates = {}

VARIABLES
    worker,                 \* per slot of _threads, what its thread is doing:
                            \* an operation while it runs that tag's invoke()
    cleared,                \* has _threads.clear() emptied the vector?
    isShutdownRequested,    \* _isShutdownRequested
    waitFlag,               \* _waitFlag: "new", "running" or "done"
    caller,                 \* what each caller is doing
    cqShutdowns,            \* how often _cq->Shutdown() was called
    op                      \* what became of each operation

ioVars == <<worker, cleared, isShutdownRequested, waitFlag, caller, cqShutdowns, op>>

(* The constructor with delay = true; start() follows or does not.         *)
IoInit ==
    /\ worker = [w \in Workers |-> "none"]
    /\ cleared = FALSE
    /\ isShutdownRequested = FALSE
    /\ waitFlag = "new"
    /\ caller = [c \in Callers |-> "user"]
    /\ cqShutdowns = 0
    /\ op = [o \in Ops |-> "unused"]

-----------------------------------------------------------------------------
(* start(): every slot whose thread is not joinable gets one.  It may be   *)
(* called again, but not concurrently with itself or with wait().          *)
Start ==
    /\ waitFlag # "running"
    /\ ~cleared
    /\ worker' = [w \in Workers |-> IF worker[w] = "none" THEN "polling" ELSE worker[w]]
    /\ UNCHANGED <<cleared, isShutdownRequested, waitFlag, caller, cqShutdowns, op>>

(* An operation is started on the queue, which must not be shut down.      *)
BeginOp(o) ==
    /\ op[o] = "unused"
    /\ ~isShutdownRequested
    /\ op' = [op EXCEPT ![o] = "started"]
    /\ UNCHANGED <<worker, cleared, isShutdownRequested, waitFlag, caller, cqShutdowns>>

(* It completes: its tag is in the queue.                                  *)
OpCompletes(o) ==
    /\ op[o] = "started"
    /\ op' = [op EXCEPT ![o] = "queued"]
    /\ UNCHANGED <<worker, cleared, isShutdownRequested, waitFlag, caller, cqShutdowns>>

(* run(): Next returns a tag, on which the thread calls invoke().          *)
RunNext(w) ==
    /\ worker[w] = "polling"
    /\ \E o \in Ops :
        /\ op[o] = "queued"
        /\ op' = [op EXCEPT ![o] = "dequeued"]
        /\ worker' = [worker EXCEPT ![w] = o]
    /\ UNCHANGED <<cleared, isShutdownRequested, waitFlag, caller, cqShutdowns>>

RunInvoke(w) ==
    /\ worker[w] \in Ops
    /\ op' = [op EXCEPT ![worker[w]] = "invoked"]
    /\ worker' = [worker EXCEPT ![w] = "polling"]
    /\ UNCHANGED <<cleared, isShutdownRequested, waitFlag, caller, cqShutdowns>>

Outstanding == {o \in Ops : op[o] \in {"started", "queued"}}

(* Mutant: the loop ends at the shutdown and leaves tags in the queue.     *)
RunExitEarly(w) ==
    /\ worker[w] = "polling"
    /\ cqShutdowns > 0
    /\ worker' = [worker EXCEPT ![w] = "exited"]
    /\ UNCHANGED <<cleared, isShutdownRequested, waitFlag, caller, cqShutdowns, op>>

(* run(): Next returns false.                                              *)
RunExit(w) ==
    /\ worker[w] = "polling"
    /\ cqShutdowns > 0
    /\ Outstanding = {}
    /\ worker' = [worker EXCEPT ![w] = "exited"]
    /\ UNCHANGED <<cleared, isShutdownRequested, waitFlag, caller, cqShutdowns, op>>

-----------------------------------------------------------------------------
(* shutdown(): the one caller that sets the flag shuts the queue down.     *)
ShutdownRequest(c) ==
    /\ caller[c] = "user"
    /\ isShutdownRequested' = TRUE
    /\ caller' = [caller EXCEPT ![c] = IF isShutdownRequested THEN "wait" ELSE "shutdown"]
    /\ UNCHANGED <<worker, cleared, waitFlag, cqShutdowns, op>>

ShutdownQueue(c) ==
    /\ caller[c] = "shutdown"
    /\ cqShutdowns' = cqShutdowns + 1
    /\ caller' = [caller EXCEPT ![c] = "wait"]
    /\ UNCHANGED <<worker, cleared, isShutdownRequested, waitFlag, op>>

(* Mutant: wait() without call_once; a later caller does not wait.         *)
WaitNotOnce(c) ==
    /\ caller[c] = "wait"
    /\ waitFlag' = IF waitFlag = "new" THEN "running" ELSE waitFlag
    /\ caller' = [caller EXCEPT ![c] = IF waitFlag = "new" THEN "clear" ELSE "returned"]
    /\ UNCHANGED <<worker, cleared, isShutdownRequested, cqShutdowns, op>>

(* wait(): call_once lets one caller in and blocks the others until it is  *)
(* done.                                                                   *)
WaitOnce(c) ==
    /\ caller[c] = "wait"
    /\ waitFlag # "running"
    /\ waitFlag' = IF waitFlag = "new" THEN "running" ELSE waitFlag
    /\ caller' = [caller EXCEPT ![c] = IF waitFlag = "new" THEN "clear" ELSE "returned"]
    /\ UNCHANGED <<worker, cleared, isShutdownRequested, cqShutdowns, op>>

(* _threads.clear(): ~scoped_thread joins each thread that was started.    *)
JoinWorker(w) ==
    /\ waitFlag = "running"
    /\ worker[w] = "exited"
    /\ worker' = [worker EXCEPT ![w] = "joined"]
    /\ UNCHANGED <<cleared, isShutdownRequested, waitFlag, caller, cqShutdowns, op>>

Clear(c) ==
    /\ caller[c] = "clear"
    /\ \A w \in Workers : worker[w] \in {"none", "joined"}
    /\ cleared' = TRUE
    /\ waitFlag' = "done"
    /\ caller' = [caller EXCEPT ![c] = "returned"]
    /\ UNCHANGED <<worker, isShutdownRequested, cqShutdowns, op>>

-----------------------------------------------------------------------------
WorkerStep(w) == RunNext(w) \/ RunInvoke(w) \/ RunExit(w) \/ JoinWorker(w)

CallerStep(c) == ShutdownQueue(c) \/ WaitOnce(c) \/ Clear(c)

IoNext ==
    \/ Start
    \/ \E o \in Ops : BeginOp(o) \/ OpCompletes(o)
    \/ \E w \in Workers : WorkerStep(w)
    \/ \E c \in Callers : ShutdownRequest(c) \/ CallerStep(c)

(* Threads run; operations complete; nobody has to start the manager, an   *)
(* operation or a shutdown.                                                *)
IoFairness ==
    /\ \A w \in Workers : WF_ioVars(WorkerStep(w))
    /\ \A c \in Callers : WF_ioVars(CallerStep(c))
    /\ \A o \in Ops : WF_ioVars(OpCompletes(o))

IoSpec == IoInit /\ [][IoNext]_ioVars /\ IoFairness

-----------------------------------------------------------------------------
(* "Waits for remaining work to drain" (io_manager.h:132): when wait()     *)
(* returns to any of its callers, every thread that was started has left   *)
(* run(), no tag is being invoked any more, and, if the manager was        *)
(* started, every operation it was given has had its tag invoked.          *)
WaitMeansStopped ==
    (\E c \in Callers : caller[c] = "returned") =>
        /\ \A w \in Workers : worker[w] \in {"none", "joined"}
        /\ \A o \in Ops : op[o] # "dequeued"
        /\ (\E w \in Workers : worker[w] = "joined") => \A o \in Ops : op[o] \in {"unused", "invoked"}

(* shutdown() followed by wait() comes back for every caller, however the  *)
(* callers and the workers interleave; and once the threads poll, every    *)
(* operation that completes is invoked, also when shutdown() has been      *)
(* requested meanwhile.                                                    *)
ManagerDrains ==
    /\ \A c \in Callers : (caller[c] = "wait") ~> (caller[c] = "returned")
    /\ \A o \in Ops : (op[o] = "queued" /\ \E w \in Workers : worker[w] = "polling")
                           ~> (op[o] = "invoked")
=============================================================================
