---------------------------- MODULE WaitCallback ---------------------------
(***************************************************************************)
(* bond::ext::grpc::wait_callback                                          *)
(* (src/cpp/inc/bond/ext/grpc/wait_callback.h): copies of one callback     *)
(* share a mutex, a condition variable and an optional result; any number  *)
(* of threads invoke it and any number wait for it, with or without a      *)
(* timeout.  The steps are those of the mutex and the condition variable:  *)
(* a wait releases the mutex and sleeps at once, a sleeper wakes by a      *)
(* notification, by a timeout or spuriously, and then takes the mutex      *)
(* again before it looks at the result.                                    *)
(***************************************************************************)
EXTENDS Naturals, FiniteSets

CONSTANTS
    Invokers,   \* threads that call operator(); each brings its own result
    Waiters,    \* threads that call wait(), response(), status() or context()
    Timed,      \* those that call wait_for() instead
    None        \* boost::none

WaitThreads == Invokers \cup Waiters \cup Timed

ASSUME WaitThreadsAssumption ==
    /\ IsFiniteSet(WaitThreads)
    /\ Invokers \cap (Waiters \cup Timed) = {}
    /\ Waiters \cap Timed = {}
    /\ None \notin WaitThreads

VARIABLES
    result,     \* _state->result: the invoker whose result was recorded
    mutex,      \* the thread that has locked _state, or None
    pc          \* where each thread is

waitVars == <<result, mutex, pc>>

(***************************************************************************)
(* "idle"      has not called yet                                          *)
(* "locked"    has the mutex and is about to look at the result            *)
(* "notify"    recorded its result and unlocked, notify_all() is next      *)
(* "asleep"    in the condition variable's wait set                        *)
(* "awake"     left the wait set, has to take the mutex again              *)
(* "expired"   the same, after the timeout                                 *)
(* "lastLook"  has the mutex after the timeout                             *)
(* "thrown"    threw MultipleInvocationException                           *)
(* "returned", "true", "false"  the call is over, with its result          *)
(***************************************************************************)
WaitInit ==
    /\ result = None
    /\ mutex = None
    /\ pc = [t \in WaitThreads |-> "idle"]

-----------------------------------------------------------------------------
Goto(t, label) == pc' = [pc EXCEPT ![t] = label]

(* lock_guard or unique_lock, and the relock at the end of a wait.         *)
Lock(t) ==
    /\ pc[t] \in {"idle", "awake", "expired"}
    /\ mutex = None
    /\ mutex' = t
    /\ Goto(t, IF pc[t] = "expired" THEN "lastLook" ELSE "locked")
    /\ UNCHANGED result

(* Mutant: a later result replaces the first one.                          *)
RecordReplacing(t) ==
    /\ pc[t] = "locked"
    /\ mutex' = None
    /\ result' = t
    /\ Goto(t, "notify")

(* operator(): the first call records its result, the others throw.        *)
Record(t) ==
    /\ pc[t] = "locked"
    /\ mutex' = None
    /\ result' = IF result = None THEN t ELSE result
    /\ Goto(t, IF result = None THEN "notify" ELSE "thrown")

(* Mutant: notify_one().                                                   *)
NotifyOne(t) ==
    /\ pc[t] = "notify"
    /\ LET asleep == {u \in WaitThreads : pc[u] = "asleep"}
       IN  IF asleep = {} THEN Goto(t, "returned")
           ELSE \E u \in asleep : pc' = [pc EXCEPT ![t] = "returned", ![u] = "awake"]
    /\ UNCHANGED <<result, mutex>>

(* notify_all() wakes every thread in the wait set.                        *)
NotifyAll(t) ==
    /\ pc[t] = "notify"
    /\ pc' = [u \in WaitThreads |-> IF u = t THEN "returned"
                                ELSE IF pc[u] = "asleep" THEN "awake" ELSE pc[u]]
    /\ UNCHANGED <<result, mutex>>

(* The predicate of wait and wait_for: without a result, sleep.            *)
Look(t) ==
    /\ pc[t] = "locked"
    /\ mutex' = None
    /\ Goto(t, IF result = None THEN "asleep" ELSE IF t \in Timed THEN "true" ELSE "returned")
    /\ UNCHANGED result

(* The condition variable may wake a thread for no reason.                 *)
WakeSpuriously(t) ==
    /\ pc[t] = "asleep"
    /\ Goto(t, "awake")
    /\ UNCHANGED <<result, mutex>>

Expire(t) ==
    /\ pc[t] = "asleep"
    /\ Goto(t, "expired")
    /\ UNCHANGED <<result, mutex>>

(* wait_for returns what the predicate says at the end.                    *)
LastLook(t) ==
    /\ pc[t] = "lastLook"
    /\ mutex' = None
    /\ Goto(t, IF result = None THEN "false" ELSE "true")
    /\ UNCHANGED result

-----------------------------------------------------------------------------
WaitNext ==
    \/ \E t \in Invokers : Lock(t) \/ Record(t) \/ NotifyAll(t)
    \/ \E t \in Waiters \cup Timed : Lock(t) \/ Look(t) \/ WakeSpuriously(t)
    \/ \E t \in Timed : Expire(t) \/ LastLook(t)

(* A thread that has called runs on; the mutex is free again and again, so *)
(* taking it needs strong fairness.  So does the timeout: the deadline is  *)
(* absolute, a thread that keeps waking spuriously passes it too.  No      *)
(* invocation has to happen, and a sleeper need not wake by itself.        *)
WaitFairness ==
    /\ \A t \in WaitThreads : SF_waitVars(pc[t] # "idle" /\ Lock(t))
    /\ \A t \in Invokers : WF_waitVars(Record(t)) /\ WF_waitVars(NotifyAll(t))
    /\ \A t \in Waiters : WF_waitVars(Look(t))
    /\ \A t \in Timed :
        /\ WF_waitVars(Look(t))
        /\ SF_waitVars(Expire(t))
        /\ WF_waitVars(LastLook(t))

WaitSpec == WaitInit /\ [][WaitNext]_waitVars /\ WaitFairness

-----------------------------------------------------------------------------
(* What a call reports is so at that moment, and stays so.  wait() returns *)
(* only with a result, so that response(), status() and context() may      *)
(* dereference it (wait_callback.h:88, 97, 106), and wait_for says true    *)
(* under the same condition; it says false only while there is no result,  *)
(* however the timeout races the invocation; and of all invocations that   *)
(* get through exactly one does not throw (wait_callback.h:42).            *)
OutcomeMatchesResult ==
    [][/\ result # None => result' = result
       /\ \A t \in WaitThreads :
            pc'[t] # pc[t] =>
                /\ pc'[t] \in {"returned", "true", "thrown"} => result # None
                /\ pc'[t] \in {"notify", "false"} => result = None]_waitVars

(* No wake-up is lost: once a result is recorded every thread that waits,  *)
(* or is about to, comes back; wait_for comes back in any case.            *)
WaitersComeBack ==
    /\ \A t \in Waiters : (result # None /\ pc[t] # "idle") ~> (pc[t] = "returned")
    /\ \A t \in Timed : (pc[t] # "idle") ~> (pc[t] \in {"true", "false"})
=============================================================================
