----------------------------- MODULE UnaryCall -----------------------------
(***************************************************************************)
(* The life of one server-side call: detail::unary_call_impl and the       *)
(* unary_call / shared_unary_call objects that own it                      *)
(* (src/cpp/inc/bond/ext/grpc/detail/unary_call_impl.h).                   *)
(*                                                                         *)
(* The object is created with a reference count of 1, the reference it     *)
(* holds on itself until the completion queue reports its response as      *)
(* sent.  Every owner object adds one.  An owner is used by one thread at  *)
(* a time and different owners by different threads, so the owners are the *)
(* processes of the model and each step is one atomic operation of the     *)
(* code: a load, a fetch_add, a fetch_sub, a test_and_set or a call into   *)
(* the responder.                                                          *)
(***************************************************************************)
EXTENDS Naturals, Sequences, FiniteSets

CONSTANTS
    Owners,     \* the intrusive_ptrs that unary_call, shared_unary_call and the
                \* closures given to the scheduler hold on the call
    First,      \* the one that queue_receive() returns
    MayThrow    \* whether serializing a response may throw

ASSUME OwnersAssumption == IsFiniteSet(Owners) /\ First \in Owners
ASSUME ThrowAssumption == MayThrow \in BOOLEAN

VARIABLES
    owner,              \* what each owner object is doing
    refCount,           \* _refCount
    responseSentFlag,   \* _responseSentFlag
    responses,          \* what the responder was asked to send, in order
    tag,                \* the completion of that send: not queued, queued, or invoked
    phase               \* "receiving", "alive", "deleted" or "discarded"

vars == <<owner, refCount, responseSentFlag, responses, tag, phase>>

(***************************************************************************)
(* "empty"      no _impl (default constructed, moved from, or destroyed)   *)
(* "held"       _impl is set and no member function is running             *)
(* "sending"    Finish won the flag, the responder is not called yet       *)
(* "abandoning" TryFinishWithError loaded 2 and is about to call Finish    *)
(* "aborting"   that Finish won the flag, the responder is not called yet  *)
(* "releasing"  TryFinishWithError is over, Release is not called yet      *)
(***************************************************************************)
OwnerStates == {"empty", "held", "sending", "abandoning", "aborting", "releasing"}

TypeOK ==
    /\ owner \in [Owners -> OwnerStates]
    /\ refCount \in Nat
    /\ responseSentFlag \in BOOLEAN
    /\ responses \in Seq({"user", "internal"})
    /\ tag \in {"none", "queued", "invoked"}
    /\ phase \in {"receiving", "alive", "deleted", "discarded"}

(***************************************************************************)
(* The call waits in service::unary_call_data::_receivedCall, without any  *)
(* owner, until a request arrives.                                         *)
(***************************************************************************)
Init ==
    /\ owner = [o \in Owners |-> "empty"]
    /\ refCount = 1
    /\ responseSentFlag = FALSE
    /\ responses = << >>
    /\ tag = "none"
    /\ phase = "receiving"

-----------------------------------------------------------------------------
(* queue_receive() wraps the received call in an intrusive_ptr, which adds *)
(* a reference.                                                            *)
Receive ==
    /\ phase = "receiving"
    /\ phase' = "alive"
    /\ refCount' = refCount + 1
    /\ owner' = [owner EXCEPT ![First] = "held"]
    /\ UNCHANGED <<responseSentFlag, responses, tag>>

(* The method is destroyed before a request arrives: ~unique_ptr.          *)
Discard ==
    /\ phase = "receiving"
    /\ phase' = "discarded"
    /\ UNCHANGED <<owner, refCount, responseSentFlag, responses, tag>>

(* Mutant: the copy is not counted.                                        *)
AddRefUncounted(o, p) ==
    /\ owner[o] = "held"
    /\ owner[p] = "empty"
    /\ owner' = [owner EXCEPT ![p] = "held"]
    /\ UNCHANGED <<refCount, responseSentFlag, responses, tag, phase>>

(* Copying a shared_unary_call, or the closure the scheduler is given:     *)
(* intrusive_ptr_add_ref.                                                  *)
AddRef(o, p) ==
    /\ owner[o] = "held"
    /\ owner[p] = "empty"
    /\ refCount' = refCount + 1
    /\ owner' = [owner EXCEPT ![p] = "held"]
    /\ UNCHANGED <<responseSentFlag, responses, tag, phase>>

(* Moving an owner, share() included, hands _impl over uncounted; swap is  *)
(* such a move if one of the two is empty, and changes nothing otherwise.  *)
Move(o, p) ==
    /\ owner[o] = "held"
    /\ owner[p] = "empty"
    /\ owner' = [owner EXCEPT ![o] = "empty", ![p] = "held"]
    /\ UNCHANGED <<refCount, responseSentFlag, responses, tag, phase>>

(* Mutant: the flag is set, but its former value is not looked at.         *)
FinishUnguarded(o) ==
    /\ owner[o] = "held"
    /\ responseSentFlag' = TRUE
    /\ owner' = [owner EXCEPT ![o] = "sending"]
    /\ UNCHANGED <<refCount, responses, tag, phase>>

(* Finish, first half: only the caller that sets the flag goes on.         *)
Finish(o) ==
    /\ owner[o] = "held"
    /\ ~responseSentFlag
    /\ responseSentFlag' = TRUE
    /\ owner' = [owner EXCEPT ![o] = "sending"]
    /\ UNCHANGED <<refCount, responses, tag, phase>>

(* Finish, second half: the responder takes the message and the tag.       *)
Respond(o) ==
    /\ owner[o] = "sending"
    /\ responses' = Append(responses, "user")
    /\ tag' = "queued"
    /\ owner' = [owner EXCEPT ![o] = "held"]
    /\ UNCHANGED <<refCount, responseSentFlag, phase>>

(* Serialize(response) is evaluated between the two halves: if it throws,  *)
(* the exception reaches the caller of Finish, which still owns the call,  *)
(* and the flag stays set.                                                 *)
SerializeThrows(o) ==
    /\ MayThrow
    /\ owner[o] = "sending"
    /\ owner' = [owner EXCEPT ![o] = "held"]
    /\ UNCHANGED <<refCount, responseSentFlag, responses, tag, phase>>

(* Mutant: the call's own reference is forgotten in the comparison.        *)
TryFinishWithErrorEarly(o) ==
    /\ owner[o] = "held"
    /\ owner' = [owner EXCEPT ![o] = IF refCount <= 3 THEN "abandoning" ELSE "releasing"]
    /\ UNCHANGED <<refCount, responseSentFlag, responses, tag, phase>>

(* Destroying or resetting an owner calls intrusive_ptr_release, which     *)
(* begins with TryFinishWithError's load of the reference count.           *)
TryFinishWithError(o) ==
    /\ owner[o] = "held"
    /\ owner' = [owner EXCEPT ![o] = IF refCount = 2 THEN "abandoning" ELSE "releasing"]
    /\ UNCHANGED <<refCount, responseSentFlag, responses, tag, phase>>

(* The last owner calls Finish with the internal error.                    *)
FinishWithError(o) ==
    /\ owner[o] = "abandoning"
    /\ responseSentFlag' = TRUE
    /\ owner' = [owner EXCEPT ![o] = IF responseSentFlag THEN "releasing" ELSE "aborting"]
    /\ UNCHANGED <<refCount, responses, tag, phase>>

RespondWithError(o) ==
    /\ owner[o] = "aborting"
    /\ responses' = Append(responses, "internal")
    /\ tag' = "queued"
    /\ owner' = [owner EXCEPT ![o] = "releasing"]
    /\ UNCHANGED <<refCount, responseSentFlag, phase>>

(* Mutant: the new value of the count is compared instead of the old one.  *)
DropReferenceEarly ==
    /\ refCount' = refCount - 1
    /\ phase' = IF refCount = 2 THEN "deleted" ELSE phase

(* fetch_sub, and "delete this" by whoever takes the count from 1 to 0.    *)
DropReference ==
    /\ refCount' = refCount - 1
    /\ phase' = IF refCount = 1 THEN "deleted" ELSE phase

Release(o) ==
    /\ owner[o] = "releasing"
    /\ DropReference
    /\ owner' = [owner EXCEPT ![o] = "empty"]
    /\ UNCHANGED <<responseSentFlag, responses, tag>>

(* Mutant: invoke() forgets to release the call's own reference.           *)
InvokeWithoutRelease ==
    /\ tag = "queued"
    /\ tag' = "invoked"
    /\ UNCHANGED <<owner, refCount, responseSentFlag, responses, phase>>

(* An io_manager thread dequeues the tag: the response has been sent.      *)
Invoke ==
    /\ tag = "queued"
    /\ DropReference
    /\ tag' = "invoked"
    /\ UNCHANGED <<owner, responseSentFlag, responses>>

-----------------------------------------------------------------------------
(* Steps the library takes by itself once the user has asked for them.     *)
LibraryStep(o) ==
    \/ Respond(o)
    \/ SerializeThrows(o)
    \/ FinishWithError(o)
    \/ RespondWithError(o)
    \/ Release(o)

(* What unary_call and shared_unary_call offer their user.                 *)
OwnerStep(o) ==
    \/ \E p \in Owners : AddRef(o, p)
    \/ \E p \in Owners : Move(o, p)
    \/ Finish(o)
    \/ TryFinishWithError(o)
    \/ LibraryStep(o)

Next == Receive \/ Discard \/ Invoke \/ \E o \in Owners : OwnerStep(o)

(* A running member function is not abandoned by its thread, and the       *)
(* io_manager's threads keep polling the completion queue.  Nothing forces *)
(* the service to finish a call or to drop an owner.                       *)
Fairness ==
    /\ WF_vars(Invoke)
    /\ \A o \in Owners : WF_vars(LibraryStep(o))

Spec == Init /\ [][Next]_vars /\ Fairness

-----------------------------------------------------------------------------
Holders == {o \in Owners : owner[o] # "empty"}

(* The reference the call holds on itself, until invoke() gives it up.     *)
SelfReference == IF tag = "invoked" THEN 0 ELSE 1

(* Nobody is left who could answer the call.                               *)
Abandoned == phase \in {"alive", "deleted"} /\ Holders = {}

(* The count is exactly the number of owners that have not yet run their   *)
(* fetch_sub, plus the call's own reference: the fact that lets            *)
(* TryFinishWithError read "2" as "I am the last owner".                   *)
RefCountExact == refCount = SelfReference + Cardinality(Holders)

(* "delete this" (unary_call_impl.h:124) runs only when no owner can reach *)
(* the object any more and no completion for it is outstanding.            *)
NoUseAfterFree == phase = "deleted" <=> (tag = "invoked" /\ Holders = {})

(* However Finish calls and the destructors of several owners interleave,  *)
(* the responder is called at most once, and a tag is queued only for it   *)
(* ("at most one will succeed in sending error", unary_call_impl.h:141).   *)
AtMostOneResponse ==
    /\ Len(responses) <= 1
    /\ (tag = "none") <=> (responses = << >>)

(* The generic error is sent by the last owner only: while it is on its    *)
(* way or sent, no other owner exists whose Finish it could pre-empt.      *)
InternalErrorOnlyFromLast ==
    \A o \in Owners :
        owner[o] = "aborting" => Holders = {o} /\ tag = "none"

(* A response once given to the responder is never replaced or withdrawn.  *)
ResponseIsFinal ==
    [][responses # << >> => responses' = responses]_vars

(* A call that was answered is freed once its owners are gone: neither the *)
(* completion nor an owner can keep it alive for ever.                     *)
FinishedCallIsFreed == (responses # << >> /\ Abandoned) ~> (phase = "deleted")

(* "If no explicit call to Finish ... has been made before all the shared  *)
(* owners are destroyed, a generic internal server error is sent"          *)
(* (shared_unary_call.h:24): when the last owner is gone, some response    *)
(* has been handed to the responder.                                       *)
AbandonedCallIsAnswered == Abandoned => responses # << >>
=============================================================================
