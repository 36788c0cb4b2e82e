------------------------- MODULE ConcurrencyProofs --------------------------
(***************************************************************************)
(* The threads of the client and the server library: io_manager,           *)
(* wait_callback and the calls that a client dispatches.  The three are    *)
(* proved one after the other; none of the proofs uses another one.        *)
(***************************************************************************)
EXTENDS IoManager, WaitCallback, ClientCall, TLAPS

-----------------------------------------------------------------------------
(***************************************************************************)
(* For any set of worker threads, of callers and of operations: the queue  *)
(* is shut down once, and when wait() returns to any caller the threads    *)
(* are gone and nothing they were to invoke is left behind.                *)
(***************************************************************************)

CallerStates == {"user", "shutdown", "wait", "clear", "returned"}
OpStates == {"unused", "started", "queued", "dequeued", "invoked"}

IoTypeOK ==
    /\ worker \in [Workers -> ThreadStates \cup Ops]
    /\ cleared \in BOOLEAN
    /\ isShutdownRequested \in BOOLEAN
    /\ waitFlag \in {"new", "running", "done"}
    /\ caller \in [Callers -> CallerStates]
    /\ cqShutdowns \in Nat
    /\ op \in [Ops -> OpStates]

(* _isShutdownRequested is set before anyone goes on, and who set it has   *)
(* the only call of _cq->Shutdown().                                       *)
ShutdownInv ==
    /\ ~isShutdownRequested => cqShutdowns = 0 /\ \A c \in Callers : caller[c] = "user"
    /\ \A c, d \in Callers : caller[c] = "shutdown" /\ caller[d] = "shutdown" => c = d
    /\ (\E c \in Callers : caller[c] = "shutdown") => cqShutdowns = 0
    /\ cqShutdowns <= 1

(* A thread leaves run() only when the queue is drained, and a queue that  *)
(* is shut down gets no new operations.                                    *)
ExitInv ==
    (\E w \in Workers : worker[w] \in {"exited", "joined"}) =>
        /\ cqShutdowns > 0
        /\ Outstanding = {}

(* A tag taken from the queue is with exactly one thread.                  *)
TagInv ==
    /\ \A o \in Ops : op[o] = "dequeued" <=> \E w \in Workers : worker[w] = o
    /\ \A v, w \in Workers : worker[v] \in Ops /\ worker[v] = worker[w] => v = w

(* call_once: one caller clears _threads, the others return after it.      *)
CallOnceInv ==
    /\ \A c, d \in Callers : caller[c] = "clear" /\ caller[d] = "clear" => c = d
    /\ (\E c \in Callers : caller[c] = "clear") => waitFlag = "running"
    /\ (\E c \in Callers : caller[c] = "returned") => waitFlag = "done"
    /\ waitFlag = "done" => cleared
    /\ cleared => waitFlag = "done" /\ \A w \in Workers : worker[w] \in {"none", "joined"}

IoInv ==
    /\ IoTypeOK
    /\ ShutdownInv
    /\ ExitInv
    /\ TagInv
    /\ CallOnceInv

-----------------------------------------------------------------------------
(* A new io_manager.                                                       *)
LEMMA IoInitInv == IoInit => IoInv
  <1> SUFFICES ASSUME IoInit PROVE IoInv
    OBVIOUS
  <1>1. IoTypeOK
    BY DEF IoInit, IoTypeOK, ThreadStates, CallerStates, OpStates
  <1>2. ShutdownInv /\ ExitInv /\ CallOnceInv
    BY DEF IoInit, ShutdownInv, ExitInv, CallOnceInv
  <1>3. TagInv
    BY OpsAssumption DEF IoInit, TagInv, ThreadStates
  <1> QED
    BY <1>1, <1>2, <1>3 DEF IoInv

(* Every step of its threads keeps the invariant.                          *)
LEMMA IoNextInv == IoInv /\ [IoNext]_ioVars => IoInv'
  <1> SUFFICES ASSUME IoInv, [IoNext]_ioVars PROVE IoInv'
    OBVIOUS
  <1> USE OpsAssumption DEF IoInv, IoTypeOK, ThreadStates, CallerStates, OpStates
  <1>1. CASE Start
    <2>1. IoTypeOK' /\ ShutdownInv'
      BY <1>1 DEF Start, ShutdownInv
    <2>2. ExitInv'
      BY <1>1 DEF Start, ExitInv, Outstanding
    <2>3. TagInv'
      BY <1>1 DEF Start, TagInv
    <2>4. CallOnceInv'
      BY <1>1 DEF Start, CallOnceInv
    <2> QED
      BY <2>1, <2>2, <2>3, <2>4
  <1>2. ASSUME NEW o \in Ops, BeginOp(o) PROVE IoInv'
    <2>1. IoTypeOK' /\ ShutdownInv' /\ CallOnceInv'
      BY <1>2 DEF BeginOp, ShutdownInv, CallOnceInv
    <2>2. ExitInv'
      BY <1>2 DEF BeginOp, ExitInv, ShutdownInv
    <2>3. TagInv'
      BY <1>2 DEF BeginOp, TagInv
    <2> QED
      BY <2>1, <2>2, <2>3
  <1>3. ASSUME NEW o \in Ops, OpCompletes(o) PROVE IoInv'
    <2>1. IoTypeOK' /\ ShutdownInv' /\ CallOnceInv'
      BY <1>3 DEF OpCompletes, ShutdownInv, CallOnceInv
    <2>2. ExitInv'
      BY <1>3 DEF OpCompletes, ExitInv, Outstanding
    <2>3. TagInv'
      BY <1>3 DEF OpCompletes, TagInv
    <2> QED
      BY <2>1, <2>2, <2>3
  <1>4. ASSUME NEW w \in Workers, RunNext(w) PROVE IoInv'
    <2>1. PICK o \in Ops : /\ op[o] = "queued"
                           /\ op' = [op EXCEPT ![o] = "dequeued"]
                           /\ worker' = [worker EXCEPT ![w] = o]
      BY <1>4 DEF RunNext
    <2>2. IoTypeOK' /\ ShutdownInv'
      BY <1>4, <2>1 DEF RunNext, ShutdownInv
    <2>3. ExitInv'
      BY <1>4, <2>1 DEF RunNext, ExitInv, Outstanding
    <2>4. TagInv'
      BY <1>4, <2>1 DEF RunNext, TagInv
    <2>5. CallOnceInv'
      BY <1>4, <2>1 DEF RunNext, CallOnceInv
    <2> QED
      BY <2>2, <2>3, <2>4, <2>5
  <1>5. ASSUME NEW w \in Workers, RunInvoke(w) PROVE IoInv'
    <2>1. IoTypeOK' /\ ShutdownInv'
      BY <1>5 DEF RunInvoke, ShutdownInv
    <2>2. ExitInv'
      BY <1>5 DEF RunInvoke, ExitInv, Outstanding
    <2>3. TagInv'
      BY <1>5 DEF RunInvoke, TagInv
    <2>4. CallOnceInv'
      BY <1>5 DEF RunInvoke, CallOnceInv
    <2> QED
      BY <2>1, <2>2, <2>3, <2>4
  <1>6. ASSUME NEW w \in Workers, RunExit(w) PROVE IoInv'
    <2>1. IoTypeOK' /\ ShutdownInv'
      BY <1>6 DEF RunExit, ShutdownInv
    <2>2. ExitInv'
      BY <1>6 DEF RunExit, ExitInv, Outstanding
    <2>3. TagInv'
      BY <1>6 DEF RunExit, TagInv
    <2>4. CallOnceInv'
      BY <1>6 DEF RunExit, CallOnceInv
    <2> QED
      BY <2>1, <2>2, <2>3, <2>4
  <1>7. ASSUME NEW w \in Workers, JoinWorker(w) PROVE IoInv'
    <2>1. IoTypeOK' /\ ShutdownInv'
      BY <1>7 DEF JoinWorker, ShutdownInv
    <2>2. ExitInv'
      BY <1>7 DEF JoinWorker, ExitInv, Outstanding
    <2>3. TagInv'
      BY <1>7 DEF JoinWorker, TagInv
    <2>4. CallOnceInv'
      BY <1>7 DEF JoinWorker, CallOnceInv
    <2> QED
      BY <2>1, <2>2, <2>3, <2>4
  <1>8. ASSUME NEW c \in Callers, ShutdownRequest(c) PROVE IoInv'
    <2>1. IoTypeOK' /\ ShutdownInv'
      BY <1>8 DEF ShutdownRequest, ShutdownInv
    <2>2. ExitInv' /\ TagInv'
      BY <1>8 DEF ShutdownRequest, ExitInv, Outstanding, TagInv
    <2>3. CallOnceInv'
      BY <1>8 DEF ShutdownRequest, CallOnceInv
    <2> QED
      BY <2>1, <2>2, <2>3
  <1>9. ASSUME NEW c \in Callers, ShutdownQueue(c) PROVE IoInv'
    <2>1. IoTypeOK' /\ ShutdownInv'
      BY <1>9 DEF ShutdownQueue, ShutdownInv
    <2>2. ExitInv' /\ TagInv'
      BY <1>9 DEF ShutdownQueue, ExitInv, Outstanding, TagInv
    <2>3. CallOnceInv'
      BY <1>9 DEF ShutdownQueue, CallOnceInv
    <2> QED
      BY <2>1, <2>2, <2>3
  <1>10. ASSUME NEW c \in Callers, WaitOnce(c) PROVE IoInv'
    <2>1. IoTypeOK' /\ ShutdownInv'
      BY <1>10 DEF WaitOnce, ShutdownInv
    <2>2. ExitInv' /\ TagInv'
      BY <1>10 DEF WaitOnce, ExitInv, Outstanding, TagInv
    <2>3. CallOnceInv'
      BY <1>10 DEF WaitOnce, CallOnceInv
    <2> QED
      BY <2>1, <2>2, <2>3
  <1>11. ASSUME NEW c \in Callers, Clear(c) PROVE IoInv'
    <2>1. IoTypeOK' /\ ShutdownInv'
      BY <1>11 DEF Clear, ShutdownInv
    <2>2. ExitInv' /\ TagInv'
      BY <1>11 DEF Clear, ExitInv, Outstanding, TagInv
    <2>3. CallOnceInv'
      BY <1>11 DEF Clear, CallOnceInv
    <2> QED
      BY <2>1, <2>2, <2>3
  <1>12. CASE UNCHANGED ioVars
    BY <1>12 DEF ioVars, ShutdownInv, ExitInv, Outstanding, TagInv, CallOnceInv
  <1> QED
    BY <1>1, <1>2, <1>3, <1>4, <1>5, <1>6, <1>7, <1>8, <1>9, <1>10, <1>11, <1>12
    DEF IoNext, WorkerStep, CallerStep

(* So it always holds.                                                     *)
LEMMA IoInvariance == IoSpec => []IoInv
  BY IoInitInv, IoNextInv, PTL DEF IoSpec

-----------------------------------------------------------------------------
(* io_manager::wait (io_manager.h:132): when it returns to any caller,     *)
(* every started thread has left run(), none is inside invoke(), and a     *)
(* manager that was started has invoked every tag.                         *)
THEOREM WaitStops == IoSpec => []WaitMeansStopped
  <1>1. IoInv => WaitMeansStopped
    <2> SUFFICES ASSUME IoInv, \E c \in Callers : caller[c] = "returned"
                 PROVE  /\ \A w \in Workers : worker[w] \in {"none", "joined"}
                        /\ \A o \in Ops : op[o] # "dequeued"
                        /\ (\E w \in Workers : worker[w] = "joined")
                              => \A o \in Ops : op[o] \in {"unused", "invoked"}
      BY DEF WaitMeansStopped
    <2>1. \A w \in Workers : worker[w] \in {"none", "joined"}
      BY DEF IoInv, CallOnceInv
    <2>2. \A o \in Ops : op[o] # "dequeued"
      BY <2>1, OpsAssumption DEF IoInv, TagInv, ThreadStates
    <2>3. ASSUME \E w \in Workers : worker[w] = "joined"
          PROVE  \A o \in Ops : op[o] \in {"unused", "invoked"}
      <3>1. Outstanding = {}
        BY <2>3 DEF IoInv, ExitInv
      <3> QED
        BY <2>2, <3>1 DEF IoInv, IoTypeOK, OpStates, Outstanding
    <2> QED
      BY <2>1, <2>2, <2>3
  <1> QED
    BY <1>1, IoInvariance, PTL

(* io_manager::shutdown (io_manager.h:124): however many threads call it,  *)
(* the flag lets one of them reach _cq->Shutdown(), which may be called    *)
(* only once.                                                              *)
THEOREM QueueShutDownOnce == IoSpec => [](cqShutdowns <= 1)
  <1>1. IoInv => cqShutdowns <= 1
    BY DEF IoInv, ShutdownInv
  <1> QED
    BY <1>1, IoInvariance, PTL

-----------------------------------------------------------------------------
(***************************************************************************)
(* For any number of threads that invoke a wait_callback and that wait for *)
(* it, with or without a timeout: every call reports what is so, and the   *)
(* shared result is read and written by one thread at a time.              *)
(***************************************************************************)

Labels ==
    {"idle", "locked", "notify", "asleep", "awake", "expired", "lastLook", "thrown", "returned", "true", "false"}

WaitTypeOK ==
    /\ result \in Invokers \cup {None}
    /\ mutex \in WaitThreads \cup {None}
    /\ pc \in [WaitThreads -> Labels]

(* The thread that looks at the result, or records it, has the mutex.      *)
Inside(t) == pc[t] \in {"locked", "lastLook"}

MutexInv == \A t \in WaitThreads : Inside(t) <=> mutex = t

(* Whoever is going to notify, or has come back with a result or with an   *)
(* exception, has left a result behind; only one invocation recorded one.  *)
RecordedInv ==
    /\ \A t \in WaitThreads : pc[t] \in {"notify", "returned", "true", "thrown"} => result # None
    /\ \A t \in Invokers : pc[t] \in {"notify", "returned"} <=> result = t

WaitInv == WaitTypeOK /\ MutexInv /\ RecordedInv

-----------------------------------------------------------------------------
(* A wait_callback that nobody has waited for or called.                   *)
LEMMA WaitInitInv == WaitInit => WaitInv
  BY WaitThreadsAssumption DEF WaitInit, WaitInv, WaitTypeOK, MutexInv, RecordedInv, Inside, Labels, WaitThreads

(* Every step of the caller and the waiters keeps the invariant.           *)
LEMMA WaitNextInv == WaitInv /\ [WaitNext]_waitVars => WaitInv'
  <1> SUFFICES ASSUME WaitInv, [WaitNext]_waitVars PROVE WaitInv'
    OBVIOUS
  <1> USE DEF WaitInv, WaitTypeOK, MutexInv, RecordedInv, Inside, Labels, Goto, WaitThreads
  <1>1. ASSUME NEW t \in WaitThreads, Lock(t) PROVE WaitInv'
    BY <1>1, WaitThreadsAssumption DEF Lock
  <1>2. ASSUME NEW t \in Invokers, Record(t) PROVE WaitInv'
    <2>1. CASE result = None
      BY <1>2, <2>1, WaitThreadsAssumption DEF Record
    <2>2. CASE result # None
      BY <1>2, <2>2, WaitThreadsAssumption DEF Record
    <2> QED
      BY <2>1, <2>2
  <1>3. ASSUME NEW t \in Invokers, NotifyAll(t) PROVE WaitInv'
    BY <1>3, WaitThreadsAssumption DEF NotifyAll
  <1>4. ASSUME NEW t \in Waiters \cup Timed, Look(t) PROVE WaitInv'
    <2>1. CASE result = None
      BY <1>4, <2>1, WaitThreadsAssumption DEF Look
    <2>2. CASE result # None
      BY <1>4, <2>2, WaitThreadsAssumption DEF Look
    <2> QED
      BY <2>1, <2>2
  <1>5. ASSUME NEW t \in Waiters \cup Timed, WakeSpuriously(t) PROVE WaitInv'
    BY <1>5, WaitThreadsAssumption DEF WakeSpuriously
  <1>6. ASSUME NEW t \in Timed, Expire(t) PROVE WaitInv'
    BY <1>6, WaitThreadsAssumption DEF Expire
  <1>7. ASSUME NEW t \in Timed, LastLook(t) PROVE WaitInv'
    BY <1>7, WaitThreadsAssumption DEF LastLook
  <1>8. CASE UNCHANGED waitVars
    BY <1>8 DEF waitVars
  <1> QED
    BY <1>1, <1>2, <1>3, <1>4, <1>5, <1>6, <1>7, <1>8 DEF WaitNext

(* So it always holds.                                                     *)
LEMMA WaitInvariance == WaitSpec => []WaitInv
  BY WaitInitInv, WaitNextInv, PTL DEF WaitSpec

-----------------------------------------------------------------------------
(* wait_callback.h:42, 61-75: a recorded result is never replaced; wait    *)
(* comes back and wait_for says true only with a result, wait_for says     *)
(* false only without one, and an invocation throws exactly if another one *)
(* recorded its result before.                                             *)
THEOREM OutcomesMatch == WaitSpec => OutcomeMatchesResult
  <1>1. WaitInv /\ [WaitNext]_waitVars =>
          [/\ result # None => result' = result
           /\ \A t \in WaitThreads :
                pc'[t] # pc[t] =>
                    /\ pc'[t] \in {"returned", "true", "thrown"} => result # None
                    /\ pc'[t] \in {"notify", "false"} => result = None]_waitVars
    <2> SUFFICES ASSUME WaitInv, WaitNext
                 PROVE  /\ result # None => result' = result
                        /\ \A t \in WaitThreads :
                             pc'[t] # pc[t] =>
                                 /\ pc'[t] \in {"returned", "true", "thrown"} => result # None
                                 /\ pc'[t] \in {"notify", "false"} => result = None
      OBVIOUS
    <2> USE DEF WaitInv, WaitTypeOK, RecordedInv, Labels, Goto, WaitThreads
    <2>1. result # None => result' = result
      BY DEF WaitNext, Lock, Record, NotifyAll, Look, WakeSpuriously, Expire, LastLook
    <2>2. ASSUME NEW u \in WaitThreads, NEW t \in WaitThreads, pc'[t] # pc[t],
                 Lock(u) \/ WakeSpuriously(u) \/ Expire(u)
          PROVE  pc'[t] \in {"locked", "lastLook", "awake", "expired"}
      BY <2>2 DEF Lock, WakeSpuriously, Expire
    <2>3. ASSUME NEW u \in WaitThreads, NEW t \in WaitThreads, pc'[t] # pc[t],
                 Record(u) \/ Look(u) \/ LastLook(u)
          PROVE  /\ pc'[t] \in {"returned", "true", "thrown"} => result # None
                 /\ pc'[t] \in {"notify", "false"} => result = None
      BY <2>3 DEF Record, Look, LastLook
    <2>4. ASSUME NEW u \in Invokers, NEW t \in WaitThreads, pc'[t] # pc[t], NotifyAll(u)
          PROVE  result # None /\ pc'[t] \in {"returned", "awake"}
      BY <2>4 DEF NotifyAll
    <2> QED
      BY <2>1, <2>2, <2>3, <2>4 DEF WaitNext
  <1> QED
    BY <1>1, WaitInvariance, PTL DEF WaitSpec, OutcomeMatchesResult

(* wait_callback.h: _state->result is looked at and recorded by one thread *)
(* at a time, also by threads that take the mutex again after a wait, and  *)
(* of all invocations that have come back exactly one did not throw.       *)
THEOREM OneInvocationSucceeds ==
    WaitSpec => [](/\ \A s, t \in WaitThreads : Inside(s) /\ Inside(t) => s = t
                   /\ \A s, t \in Invokers : pc[s] = "returned" /\ pc[t] = "returned" => s = t
                   /\ (\E t \in Invokers : pc[t] = "thrown") => \E t \in Invokers : pc[t] \in {"notify", "returned"})
  <1>1. WaitInv => /\ \A s, t \in WaitThreads : Inside(s) /\ Inside(t) => s = t
                   /\ \A s, t \in Invokers : pc[s] = "returned" /\ pc[t] = "returned" => s = t
                   /\ (\E t \in Invokers : pc[t] = "thrown") => \E t \in Invokers : pc[t] \in {"notify", "returned"}
    BY DEF WaitInv, WaitTypeOK, MutexInv, RecordedInv, WaitThreads
  <1> QED
    BY <1>1, WaitInvariance, PTL

-----------------------------------------------------------------------------
(***************************************************************************)
(* For any finite set of outgoing calls and of io threads: the reference   *)
(* count of a unary_call_data is exact, so nobody uses it after it is      *)
(* deleted, and its callback is called once at most.                       *)
(***************************************************************************)

(* A unary_call_data, and an io thread inside its invoke().                *)
CallData ==
    [dispatch : {"none", "finish", "release", "returned"}, refCount : Nat, deleted : BOOLEAN,
     tag : {"none", "pending", "queued", "dequeued"}, ok : BOOLEAN,
     buffer : {"empty", "filled", "moved"}, closures : Nat, results : Nat]

Handlings == [pc : {"invoke", "reset"}, call : Dispatched, ok : BOOLEAN]

ClientTypeOK ==
    /\ manager \in {"up", "shutdown", "joined"}
    /\ io \in [IoThreads -> {Polling, Exited} \cup Handlings]
    /\ data \in [Dispatched -> CallData]

(* The references to d: one of the constructor, and one of _self until the *)
(* thread that works on d has reset it; working is the set of threads that *)
(* do.                                                                     *)
ConstructorReference(d) == IF d.dispatch \in {"finish", "release"} THEN 1 ELSE 0

SelfReset(d, working) == d.tag = "dequeued" /\ working = {}

SelfReference(d, working) == IF d.dispatch = "none" \/ SelfReset(d, working) THEN 0 ELSE 1

RefCountExact(d, working) ==
    /\ d.refCount = ConstructorReference(d) + SelfReference(d, working)
    /\ d.deleted => d.dispatch = "returned" /\ SelfReset(d, working)
    /\ d.tag = "none" <=> d.dispatch \in {"none", "finish"}

(* No closure was made of d, and what gRPC delivered, if it did, is there. *)
Untouched(d) ==
    /\ d.closures = 0 /\ d.results = 0
    /\ d.buffer = IF d.ok THEN "filled" ELSE "empty"

BufferInv(d) ==
    /\ d.tag \in {"none", "pending"} => ~d.ok
    /\ d.tag # "dequeued" => Untouched(d)
    /\ d.closures + d.results <= 1
    /\ d.closures + d.results = 1 <=> d.buffer = "moved"
    /\ d.buffer = "moved" => d.ok

CallInv(d, working) == RefCountExact(d, working) /\ BufferInv(d)

(* The tag comes back once: one thread at most works on a call, and until  *)
(* it has made the closure the buffer is as gRPC left it.                  *)
ThreadInv ==
    /\ \A t \in IoThreads : io[t] \in Handlings =>
           /\ data[io[t].call].tag = "dequeued"
           /\ data[io[t].call].ok = io[t].ok
           /\ io[t].pc = "invoke" => Untouched(data[io[t].call])
    /\ \A s, t \in IoThreads :
           io[s] \in Handlings /\ io[t] \in Handlings /\ io[s].call = io[t].call => s = t

ClientInv ==
    /\ ClientTypeOK
    /\ \A c \in Dispatched : CallInv(data[c], Working(c))
    /\ ThreadInv

-----------------------------------------------------------------------------
(* The shape of an io thread's record says whether it is inside invoke().  *)
LEMMA HandlingShape ==
    \A r \in {Polling, Exited} \cup Handlings : r \in Handlings <=> r.pc \in {"invoke", "reset"}
  BY DEF Polling, Exited, Handlings

(* The threads at work on a call are the ones whose handling is of it.     *)
LEMMA WorkingShape ==
    ASSUME ClientTypeOK
    PROVE  \A c \in Dispatched : Working(c) = {t \in IoThreads : io[t] \in Handlings /\ io[t].call = c}
  BY HandlingShape DEF ClientTypeOK, Working

(* A client without calls.                                                 *)
LEMMA ClientInitInv == ClientInit => ClientInv
  <1> SUFFICES ASSUME ClientInit PROVE ClientInv
    OBVIOUS
  <1>1. ClientTypeOK
    BY DEF ClientInit, ClientTypeOK, CallData
  <1>2. ThreadInv
    BY DEF ClientInit, ThreadInv, Polling, Handlings
  <1>3. ASSUME NEW c \in Dispatched PROVE CallInv(data[c], Working(c))
    <2>1. RefCountExact(data[c], Working(c))
      BY DEF ClientInit, RefCountExact, ConstructorReference, SelfReference, SelfReset
    <2>2. BufferInv(data[c])
      BY DEF ClientInit, BufferInv, Untouched
    <2> QED
      BY <2>1, <2>2 DEF CallInv
  <1> QED
    BY <1>1, <1>2, <1>3 DEF ClientInv

(* A step that changes the record of one call and no io thread keeps the   *)
(* invariant if it keeps it for that call.                                 *)
LEMMA OneCall ==
    ASSUME ClientInv, NEW c \in Dispatched, NEW d \in CallData,
           data' = [data EXCEPT ![c] = d], UNCHANGED <<manager, io>>,
           CallInv(d, Working(c)),
           Working(c) # {} => /\ d.tag = "dequeued" /\ d.ok = data[c].ok
                              /\ Untouched(data[c]) => Untouched(d)
    PROVE  ClientInv'
  <1>1. ClientTypeOK'
    BY DEF ClientInv, ClientTypeOK
  <1>2. \A e \in Dispatched : Working(e)' = Working(e)
    BY DEF Working
  <1>3. \A e \in Dispatched : CallInv(data[e], Working(e))'
    BY <1>2 DEF ClientInv, ClientTypeOK
  <1>4. \A t \in IoThreads : io[t] \in Handlings => io[t].call \in Dispatched /\ t \in Working(io[t].call)
    BY WorkingShape DEF ClientInv, Handlings
  <1>5. ThreadInv'
    BY <1>4 DEF ClientInv, ClientTypeOK, ThreadInv
  <1> QED
    BY <1>1, <1>3, <1>5 DEF ClientInv

(* The steps of the dispatching thread, of gRPC and of the scheduler.      *)
LEMMA ConstructStep ==
    ASSUME ClientInv, NEW c \in Dispatched, Construct(c)
    PROVE  ClientInv'
  <1> DEFINE d == [data[c] EXCEPT !.dispatch = "finish", !.refCount = 2]
  <1>1. data' = [data EXCEPT ![c] = d] /\ UNCHANGED <<manager, io>>
    BY DEF Construct, ClientInv, ClientTypeOK
  <1>2. data[c] \in CallData /\ CallInv(data[c], Working(c)) /\ data[c].dispatch = "none"
    BY DEF Construct, ClientInv, ClientTypeOK
  <1>3. /\ d \in CallData
        /\ d.dispatch = "finish" /\ d.refCount = 2
        /\ d.deleted = data[c].deleted /\ d.tag = data[c].tag
        /\ d.ok = data[c].ok /\ d.buffer = data[c].buffer
        /\ d.closures = data[c].closures /\ d.results = data[c].results
    BY <1>2 DEF CallData
  <1>4. Working(c) # {} => data[c].tag = "dequeued"
    BY WorkingShape DEF ClientInv, ThreadInv
  <1> HIDE DEF d
  <1>5. RefCountExact(d, Working(c))
    BY <1>2, <1>3, <1>4 DEF CallInv, RefCountExact, ConstructorReference, SelfReference, SelfReset, CallData
  <1>6. BufferInv(d)
    BY <1>2, <1>3 DEF CallInv, BufferInv, Untouched, RefCountExact, CallData
  <1>7. Working(c) # {} => /\ d.tag = "dequeued" /\ d.ok = data[c].ok
                           /\ Untouched(data[c]) => Untouched(d)
    BY <1>2, <1>3, <1>4 DEF CallInv, RefCountExact, Untouched, CallData
  <1> QED
    BY <1>1, <1>3, <1>5, <1>6, <1>7, OneCall DEF CallInv

(* dispatch registers the call's tag with Finish.                          *)
LEMMA FinishStep ==
    ASSUME ClientInv, NEW c \in Dispatched, Finish(c)
    PROVE  ClientInv'
  <1> DEFINE d == [data[c] EXCEPT !.dispatch = "release", !.tag = "pending"]
  <1>1. data' = [data EXCEPT ![c] = d] /\ UNCHANGED <<manager, io>>
    BY DEF Finish, ClientInv, ClientTypeOK
  <1>2. data[c] \in CallData /\ CallInv(data[c], Working(c)) /\ data[c].dispatch = "finish"
    BY DEF Finish, ClientInv, ClientTypeOK
  <1>3. /\ d \in CallData
        /\ d.dispatch = "release" /\ d.refCount = data[c].refCount
        /\ d.deleted = data[c].deleted /\ d.tag = "pending"
        /\ d.ok = data[c].ok /\ d.buffer = data[c].buffer
        /\ d.closures = data[c].closures /\ d.results = data[c].results
    BY <1>2 DEF CallData
  <1>4. Working(c) # {} => data[c].tag = "dequeued"
    BY WorkingShape DEF ClientInv, ThreadInv
  <1> HIDE DEF d
  <1>5. RefCountExact(d, Working(c))
    BY <1>2, <1>3, <1>4 DEF CallInv, RefCountExact, ConstructorReference, SelfReference, SelfReset, CallData
  <1>6. BufferInv(d)
    BY <1>2, <1>3 DEF CallInv, BufferInv, Untouched, RefCountExact, CallData
  <1>7. Working(c) # {} => /\ d.tag = "dequeued" /\ d.ok = data[c].ok
                           /\ Untouched(data[c]) => Untouched(d)
    BY <1>2, <1>3, <1>4 DEF CallInv, RefCountExact, Untouched, CallData
  <1> QED
    BY <1>1, <1>3, <1>5, <1>6, <1>7, OneCall DEF CallInv

(* gRPC completes the call: its tag is queued.                             *)
LEMMA CompleteStep ==
    ASSUME ClientInv, NEW c \in Dispatched, NEW ok \in BOOLEAN, Complete(c, ok)
    PROVE  ClientInv'
  <1> DEFINE d == [data[c] EXCEPT !.tag = "queued", !.ok = ok, !.buffer = IF ok THEN "filled" ELSE @]
  <1>1. data' = [data EXCEPT ![c] = d] /\ UNCHANGED <<manager, io>>
    BY DEF Complete, ClientInv, ClientTypeOK
  <1>2. data[c] \in CallData /\ CallInv(data[c], Working(c)) /\ data[c].tag = "pending"
    BY DEF Complete, ClientInv, ClientTypeOK
  <1>3. /\ d \in CallData
        /\ d.dispatch = data[c].dispatch /\ d.refCount = data[c].refCount
        /\ d.deleted = data[c].deleted /\ d.tag = "queued"
        /\ d.ok = ok /\ d.buffer = (IF ok THEN "filled" ELSE data[c].buffer)
        /\ d.closures = data[c].closures /\ d.results = data[c].results
    BY <1>2 DEF CallData
  <1>4. Working(c) # {} => data[c].tag = "dequeued"
    BY WorkingShape DEF ClientInv, ThreadInv
  <1> HIDE DEF d
  <1>5. RefCountExact(d, Working(c))
    BY <1>2, <1>3, <1>4 DEF CallInv, RefCountExact, ConstructorReference, SelfReference, SelfReset, CallData
  <1>6. BufferInv(d)
    BY <1>2, <1>3 DEF CallInv, BufferInv, Untouched, RefCountExact, CallData
  <1>7. Working(c) # {} => /\ d.tag = "dequeued" /\ d.ok = data[c].ok
                           /\ Untouched(data[c]) => Untouched(d)
    BY <1>2, <1>3, <1>4 DEF CallInv, RefCountExact, Untouched, CallData
  <1> QED
    BY <1>1, <1>3, <1>5, <1>6, <1>7, OneCall DEF CallInv

(* dispatch returns and drops its reference.                               *)
LEMMA DropSelfStep ==
    ASSUME ClientInv, NEW c \in Dispatched, DropSelf(c)
    PROVE  ClientInv'
  <1> DEFINE d == [WithoutReference(data[c]) EXCEPT !.dispatch = "returned"]
  <1>1. data' = [data EXCEPT ![c] = d] /\ UNCHANGED <<manager, io>>
    BY DEF DropSelf, ClientInv, ClientTypeOK, WithoutReference
  <1>2. data[c] \in CallData /\ CallInv(data[c], Working(c)) /\ data[c].dispatch = "release"
    BY DEF DropSelf, ClientInv, ClientTypeOK
  <1>0. data[c].refCount - 1 \in Nat /\ (data[c].refCount = 1) \in BOOLEAN
    BY <1>2 DEF CallInv, RefCountExact, ConstructorReference, SelfReference, SelfReset, CallData
  <1>3. /\ d \in CallData
        /\ d.dispatch = "returned" /\ d.refCount = data[c].refCount - 1
        /\ d.deleted = (data[c].refCount = 1) /\ d.tag = data[c].tag
        /\ d.ok = data[c].ok /\ d.buffer = data[c].buffer
        /\ d.closures = data[c].closures /\ d.results = data[c].results
    BY <1>2, <1>0 DEF CallData, WithoutReference
  <1>4. Working(c) # {} => data[c].tag = "dequeued"
    BY WorkingShape DEF ClientInv, ThreadInv
  <1> HIDE DEF d
  <1>5. RefCountExact(d, Working(c))
    BY <1>2, <1>3, <1>4 DEF CallInv, RefCountExact, ConstructorReference, SelfReference, SelfReset, CallData
  <1>6. BufferInv(d)
    BY <1>2, <1>3 DEF CallInv, BufferInv, Untouched, RefCountExact, CallData
  <1>7. Working(c) # {} => /\ d.tag = "dequeued" /\ d.ok = data[c].ok
                           /\ Untouched(data[c]) => Untouched(d)
    BY <1>2, <1>3, <1>4 DEF CallInv, RefCountExact, Untouched, CallData
  <1> QED
    BY <1>1, <1>3, <1>5, <1>6, <1>7, OneCall DEF CallInv

(* The scheduler runs the callback.                                        *)
LEMMA RunCallbackStep ==
    ASSUME ClientInv, NEW c \in Dispatched, RunCallback(c)
    PROVE  ClientInv'
  <1> DEFINE d == [data[c] EXCEPT !.closures = @ - 1, !.results = @ + 1]
  <1>1. data' = [data EXCEPT ![c] = d] /\ UNCHANGED <<manager, io>>
    BY DEF RunCallback, ClientInv, ClientTypeOK
  <1>2. data[c] \in CallData /\ CallInv(data[c], Working(c)) /\ data[c].closures > 0
    BY DEF RunCallback, ClientInv, ClientTypeOK
  <1>0. data[c].closures - 1 \in Nat /\ data[c].results + 1 \in Nat
    BY <1>2 DEF CallData
  <1>3. /\ d \in CallData
        /\ d.dispatch = data[c].dispatch /\ d.refCount = data[c].refCount
        /\ d.deleted = data[c].deleted /\ d.tag = data[c].tag
        /\ d.ok = data[c].ok /\ d.buffer = data[c].buffer
        /\ d.closures = data[c].closures - 1 /\ d.results = data[c].results + 1
    BY <1>2, <1>0 DEF CallData
  <1>4. Working(c) # {} => data[c].tag = "dequeued"
    BY WorkingShape DEF ClientInv, ThreadInv
  <1> HIDE DEF d
  <1>5. RefCountExact(d, Working(c))
    BY <1>2, <1>3, <1>4 DEF CallInv, RefCountExact, ConstructorReference, SelfReference, SelfReset, CallData
  <1>6. BufferInv(d)
    BY <1>2, <1>3 DEF CallInv, BufferInv, Untouched, RefCountExact, CallData
  <1>7. Working(c) # {} => /\ d.tag = "dequeued" /\ d.ok = data[c].ok
                           /\ Untouched(data[c]) => Untouched(d)
    BY <1>2, <1>3, <1>4 DEF CallInv, RefCountExact, Untouched, CallData
  <1> QED
    BY <1>1, <1>3, <1>5, <1>6, <1>7, OneCall DEF CallInv

(* The steps of an io thread.                                              *)
LEMMA NextTagStep ==
    ASSUME ClientInv, NEW t \in IoThreads, NextTag(t)
    PROVE  ClientInv'
  <1>1. PICK c \in Dispatched : /\ data[c].tag = "queued"
                                /\ io' = [io EXCEPT ![t] = Handling("invoke", c, data[c].ok)]
                                /\ data' = [data EXCEPT ![c].tag = "dequeued"]
    BY DEF NextTag
  <1>2. io[t] = Polling /\ manager' = manager
    BY DEF NextTag
  <1> DEFINE d == [data[c] EXCEPT !.tag = "dequeued"]
  <1>3. data[c] \in CallData /\ CallInv(data[c], Working(c)) /\ data[c].ok \in BOOLEAN
    BY DEF ClientInv, ClientTypeOK, CallData
  <1>4. /\ data' = [data EXCEPT ![c] = d] /\ d \in CallData
        /\ d.dispatch = data[c].dispatch /\ d.refCount = data[c].refCount
        /\ d.deleted = data[c].deleted /\ d.tag = "dequeued"
        /\ d.ok = data[c].ok /\ d.buffer = data[c].buffer
        /\ d.closures = data[c].closures /\ d.results = data[c].results
    BY <1>1, <1>3 DEF ClientInv, ClientTypeOK, CallData
  <1> HIDE DEF d
  <1>5. io'[t] \in Handlings /\ io'[t].call = c /\ io'[t].ok = data[c].ok /\ io'[t].pc = "invoke"
    BY <1>1, <1>3 DEF ClientInv, ClientTypeOK, Handling, Handlings
  <1>6. ClientTypeOK'
    BY <1>1, <1>2, <1>4, <1>5 DEF ClientInv, ClientTypeOK
  <1>7. \A s \in IoThreads : io[s] \in Handlings => io[s].call # c
    BY <1>1 DEF ClientInv, ThreadInv
  <1>8. Working(c) = {} /\ Working(c)' # {}
    BY <1>5, <1>6, <1>7, WorkingShape, HandlingShape DEF ClientInv, Working
  <1>9. ASSUME NEW e \in Dispatched, e # c PROVE Working(e)' = Working(e) /\ data'[e] = data[e]
    BY <1>1, <1>2, <1>4, <1>9 DEF Working, Polling, Handling, ClientInv, ClientTypeOK
  <1>10. RefCountExact(d, Working(c)')
    BY <1>1, <1>3, <1>4, <1>8 DEF CallInv, RefCountExact, ConstructorReference, SelfReference, SelfReset
  <1>11. BufferInv(d) /\ Untouched(d)
    BY <1>1, <1>3, <1>4 DEF CallInv, BufferInv, Untouched
  <1>12. \A e \in Dispatched : CallInv(data[e], Working(e))'
    BY <1>4, <1>8, <1>9, <1>10, <1>11 DEF ClientInv, CallInv, ClientTypeOK
  <1>13. ThreadInv'
    <2>1. \A s \in IoThreads : s # t => io'[s] = io[s]
      BY <1>1 DEF ClientInv, ClientTypeOK
    <2>2. \A s \in IoThreads : io[s] \in Handlings => io[s].call \in Dispatched
      BY DEF Handlings
    <2> QED
      BY <1>4, <1>5, <1>7, <1>9, <1>11, <2>1, <2>2 DEF ClientInv, ThreadInv, ClientTypeOK
  <1> QED
    BY <1>6, <1>12, <1>13 DEF ClientInv

(* The I/O thread calls invoke.                                            *)
LEMMA InvokeStep ==
    ASSUME ClientInv, NEW t \in IoThreads, Invoke(t)
    PROVE  ClientInv'
  <1>1. PICK c \in Dispatched :
            c = io[t].call /\ io[t] \in Handlings /\ io[t].pc = "invoke" /\ manager' = manager
    BY HandlingShape DEF Invoke, ClientInv, ClientTypeOK, Handlings
  <1> DEFINE d == IF io[t].ok /\ c \notin NoCallback
                  THEN [data[c] EXCEPT !.closures = @ + 1, !.buffer = "moved"] ELSE data[c]
  <1>2. io' = [io EXCEPT ![t] = [io[t] EXCEPT !.pc = "reset"]]
    BY DEF Invoke
  <1>3. /\ data[c] \in CallData /\ CallInv(data[c], Working(c))
        /\ data[c].tag = "dequeued" /\ data[c].ok = io[t].ok /\ Untouched(data[c])
    BY <1>1 DEF ClientInv, ClientTypeOK, ThreadInv
  <1>4. data' = [data EXCEPT ![c] = d]
    BY <1>1 DEF Invoke, ClientInv, ClientTypeOK
  <1>5. /\ d \in CallData
        /\ d.dispatch = data[c].dispatch /\ d.refCount = data[c].refCount
        /\ d.deleted = data[c].deleted /\ d.tag = data[c].tag
        /\ d.ok = data[c].ok /\ d.results = data[c].results
        /\ d = data[c] \/ (data[c].ok /\ d.buffer = "moved" /\ d.closures = data[c].closures + 1)
    <2>1. CASE io[t].ok /\ c \notin NoCallback
      <3>1. data[c].closures + 1 \in Nat
        BY <1>3 DEF CallData
      <3> QED
        BY <1>3, <2>1, <3>1 DEF CallData
    <2>2. CASE ~(io[t].ok /\ c \notin NoCallback)
      BY <1>3, <2>2
    <2> QED
      BY <2>1, <2>2
  <1> HIDE DEF d
  <1>6. io'[t] \in Handlings /\ io'[t].call = c /\ io'[t].ok = io[t].ok /\ io'[t].pc = "reset"
    BY <1>1, <1>2 DEF ClientInv, ClientTypeOK, Handlings
  <1>7. ClientTypeOK'
    BY <1>1, <1>2, <1>4, <1>5, <1>6 DEF ClientInv, ClientTypeOK
  <1>8. \A s \in IoThreads : s # t => io'[s] = io[s]
    BY <1>2 DEF ClientInv, ClientTypeOK
  <1>9. \A e \in Dispatched : Working(e)' = Working(e)
    BY <1>1, <1>6, <1>7, <1>8, HandlingShape DEF Working, ClientInv
  <1>10. RefCountExact(d, Working(c)) /\ BufferInv(d)
    <2>1. RefCountExact(d, Working(c))
      BY <1>3, <1>5 DEF CallInv, RefCountExact, ConstructorReference, SelfReference, SelfReset
    <2>2. BufferInv(d)
      BY <1>3, <1>5 DEF CallInv, BufferInv, Untouched, CallData
    <2> QED
      BY <2>1, <2>2
  <1>11. \A e \in Dispatched : CallInv(data[e], Working(e))'
    BY <1>1, <1>4, <1>9, <1>10 DEF ClientInv, CallInv, ClientTypeOK
  <1>12. ThreadInv'
    <2>1. \A s \in IoThreads : io[s] \in Handlings => io[s].call \in Dispatched
      BY DEF Handlings
    <2> QED
      BY <1>1, <1>3, <1>4, <1>5, <1>6, <1>8, <2>1 DEF ClientInv, ThreadInv, ClientTypeOK
  <1> QED
    BY <1>7, <1>11, <1>12 DEF ClientInv

(* The I/O thread resets the call's reference to itself.                   *)
LEMMA ResetSelfStep ==
    ASSUME ClientInv, NEW t \in IoThreads, ResetSelf(t)
    PROVE  ClientInv'
  <1>1. PICK c \in Dispatched :
            c = io[t].call /\ io[t] \in Handlings /\ io[t].pc = "reset" /\ manager' = manager
    BY HandlingShape DEF ResetSelf, ClientInv, ClientTypeOK, Handlings
  <1> DEFINE d == WithoutReference(data[c])
  <1>2. io' = [io EXCEPT ![t] = Polling] /\ data' = [data EXCEPT ![c] = d]
    BY <1>1 DEF ResetSelf
  <1>3. /\ data[c] \in CallData /\ CallInv(data[c], Working(c)) /\ data[c].tag = "dequeued"
    BY <1>1 DEF ClientInv, ClientTypeOK, ThreadInv
  <1>4. io'[t] \notin Handlings /\ \A s \in IoThreads : s # t => io'[s] = io[s]
    BY <1>2 DEF ClientInv, ClientTypeOK, Polling, Handlings
  <1>5. Working(c) # {} /\ \A s \in IoThreads : s # t /\ io[s] \in Handlings => io[s].call # c
    BY <1>1, WorkingShape DEF ClientInv, ThreadInv
  <1>6. data[c].refCount - 1 \in Nat /\ (data[c].refCount = 1) \in BOOLEAN
    BY <1>3, <1>5 DEF CallInv, RefCountExact, ConstructorReference, SelfReference, SelfReset, CallData
  <1>7. /\ d \in CallData
        /\ d.dispatch = data[c].dispatch /\ d.refCount = data[c].refCount - 1
        /\ d.deleted = (data[c].refCount = 1) /\ d.tag = data[c].tag
        /\ d.ok = data[c].ok /\ d.buffer = data[c].buffer
        /\ d.closures = data[c].closures /\ d.results = data[c].results
    BY <1>3, <1>6 DEF CallData, WithoutReference
  <1> HIDE DEF d
  <1>8. ClientTypeOK'
    BY <1>1, <1>2, <1>7 DEF ClientInv, ClientTypeOK
  <1>9. Working(c)' = {} /\ \A e \in Dispatched : e # c => Working(e)' = Working(e)
    BY <1>1, <1>4, <1>5, <1>8, HandlingShape DEF ClientInv, ClientTypeOK, Working
  <1>10. RefCountExact(d, {}) /\ BufferInv(d)
    <2>1. RefCountExact(d, {})
      BY <1>3, <1>5, <1>7 DEF CallInv, RefCountExact, ConstructorReference, SelfReference, SelfReset, CallData
    <2>2. BufferInv(d)
      BY <1>3, <1>7 DEF CallInv, BufferInv, Untouched
    <2> QED
      BY <2>1, <2>2
  <1>11. \A e \in Dispatched : CallInv(data[e], Working(e))'
    BY <1>1, <1>2, <1>9, <1>10 DEF ClientInv, CallInv, ClientTypeOK
  <1>12. ThreadInv'
    <2>1. \A s \in IoThreads : io[s] \in Handlings => io[s].call \in Dispatched
      BY DEF Handlings
    <2> QED
      BY <1>1, <1>2, <1>4, <1>5, <2>1 DEF ClientInv, ThreadInv, ClientTypeOK
  <1> QED
    BY <1>8, <1>11, <1>12 DEF ClientInv

(* The I/O thread leaves its loop.                                         *)
LEMMA IoExitStep ==
    ASSUME ClientInv, NEW t \in IoThreads, IoExit(t)
    PROVE  ClientInv'
  <1>1. ClientTypeOK'
    BY DEF IoExit, ClientInv, ClientTypeOK
  <1>2. /\ io[t] \notin Handlings /\ io'[t] \notin Handlings
        /\ \A s \in IoThreads : s # t => io'[s] = io[s]
    BY DEF IoExit, ClientInv, ClientTypeOK, Handlings, Polling, Exited
  <1>3. \A e \in Dispatched : Working(e)' = Working(e)
    BY <1>1, <1>2, HandlingShape DEF ClientInv, ClientTypeOK, Working
  <1>4. ThreadInv'
    BY <1>2 DEF IoExit, ClientInv, ThreadInv
  <1> QED
    BY <1>1, <1>3, <1>4 DEF IoExit, ClientInv

-----------------------------------------------------------------------------
(* Every step keeps the invariant.                                         *)
LEMMA ClientNextInv == ClientInv /\ [ClientNext]_clientVars => ClientInv'
  <1> SUFFICES ASSUME ClientInv, [ClientNext]_clientVars PROVE ClientInv'
    OBVIOUS
  <1>1. ASSUME NEW c \in Dispatched, Construct(c) \/ DispatchStep(c) \/ Completion(c) \/ RunCallback(c)
        PROVE  ClientInv'
    BY <1>1, ConstructStep, FinishStep, DropSelfStep, CompleteStep, RunCallbackStep
    DEF DispatchStep, Completion
  <1>2. ASSUME NEW t \in IoThreads, IoStep(t) PROVE ClientInv'
    BY <1>2, NextTagStep, InvokeStep, ResetSelfStep, IoExitStep DEF IoStep
  <1>3. CASE ShutdownManager \/ JoinManager \/ UNCHANGED clientVars
    <2>1. ClientTypeOK' /\ io' = io /\ data' = data
      BY <1>3 DEF ShutdownManager, JoinManager, clientVars, ClientInv, ClientTypeOK
    <2> QED
      BY <2>1 DEF ClientInv, ThreadInv, Working
  <1> QED
    BY <1>1, <1>2, <1>3 DEF ClientNext

(* So it always holds.                                                     *)
LEMMA ClientInvariance == ClientSpec => []ClientInv
  BY ClientInitInv, ClientNextInv, PTL DEF ClientSpec

-----------------------------------------------------------------------------
(* client.h:183: the constructor, gRPC and the io thread inside invoke()   *)
(* never find a deleted unary_call_data.                                   *)
THEOREM CallDataAlive == ClientSpec => []NoUseAfterFree
  <1>1. ClientInv => NoUseAfterFree
    BY DEF ClientInv, NoUseAfterFree, CallInv, RefCountExact, SelfReset
  <1> QED
    BY <1>1, ClientInvariance, PTL

(* client.h:196-213: a callback is called once at most, after success      *)
(* only, and with the response that gRPC delivered.                        *)
THEOREM CallbackOnce == ClientSpec => []CallbackAtMostOnce
  <1>1. ClientInv => CallbackAtMostOnce
    BY DEF ClientInv, CallbackAtMostOnce, CallInv, BufferInv
  <1> QED
    BY <1>1, ClientInvariance, PTL
=============================================================================
