-------------------------- MODULE GrpcServerProofs -------------------------
(***************************************************************************)
(* For any finite set of methods and io threads, any number of requests    *)
(* and whether or not callbacks abandon their calls: the receive loops of  *)
(* a server never share a unary_call_data, gRPC is never left with the     *)
(* buffers of a call that is gone, nothing is started on the completion    *)
(* queue after it was shut down, and every call goes through the life that *)
(* module UnaryCall describes.                                             *)
(***************************************************************************)
EXTENDS GrpcServer, FiniteSetTheorems, TLAPS

OwnerStates == {"empty", "held", "sending", "abandoning", "aborting", "releasing"}

Owners == [closure : OwnerStates, user : OwnerStates]

Impl ==
    [method : Methods \cup {None}, callback : {"none", "scheduled", "constructing", "entered"},
     owner : Owners, refCount : Nat, responseSentFlag : BOOLEAN,
     responses : Seq({"user", "internal"}), tag : {"none", "queued", "invoked"},
     phase : {"receiving", "alive", "deleted", "discarded"}]

ThreadPcs == {"polling", "take", "reset", "rearm", "schedule", "destroyClosure", "sent", "exited"}

Threads == [pc : ThreadPcs, method : Methods \cup {None}, call : Calls \cup {None}]

Events ==
    {Received(m, TRUE) : m \in Methods} \cup {Received(m, FALSE) : m \in Methods} \cup {Sent(c) : c \in Calls}

ServerTypeOK ==
    /\ server \in {"starting", "up", "shutdown", "drained", "cqShutdown", "destroyed"}
    /\ receivedCall \in [Methods -> Calls \cup {None}]
    /\ registered \subseteq Methods
    /\ cq \subseteq Events
    /\ io \in [IoThreads -> Threads]
    /\ call \in [Calls -> Impl]

-----------------------------------------------------------------------------
(* What holds of every unary_call_impl by itself: the invariant of module  *)
(* UnaryCall, for the two owners of a server's call ...                    *)
Held(d, o) == IF d.owner[o] = "empty" THEN 0 ELSE 1

SelfReference(d) == IF d.tag = "invoked" THEN 0 ELSE 1

Sending(d, o) == d.owner[o] \in {"sending", "aborting"}

Last(d, o) == d.owner[o] = "aborting" \/ (d.owner[o] = "abandoning" /\ ~d.responseSentFlag)

CountInv(d) ==
    /\ d.refCount = SelfReference(d) + Held(d, "closure") + Held(d, "user")
    /\ d.phase = "deleted" <=> d.refCount = 0

FlagInv(d) ==
    /\ ~(Sending(d, "closure") /\ Sending(d, "user"))
    /\ Sending(d, "closure") \/ Sending(d, "user") => d.responseSentFlag /\ d.tag = "none"
    /\ d.tag # "none" => d.responseSentFlag
    /\ d.tag = "none" <=> d.responses = << >>
    /\ Last(d, "closure") => d.owner.user = "empty"
    /\ Last(d, "user") => d.owner.closure = "empty"

(* ... and how far its callback is.                                        *)
PhaseInv(d) ==
    /\ d.phase \in {"receiving", "discarded"} =>
           d.callback = "none" /\ d.owner = [closure |-> "empty", user |-> "empty"]
           /\ ~d.responseSentFlag /\ d.tag = "none"
    /\ d.callback = "none" /\ d.phase \in {"alive", "deleted"} =>
           d.owner = [closure |-> "held", user |-> "empty"] /\ ~d.responseSentFlag
    /\ d.callback = "scheduled" => d.owner.user = "held" /\ ~d.responseSentFlag

CallInv(d) == CountInv(d) /\ FlagInv(d) /\ PhaseInv(d)

(* A call that is not constructed yet.                                     *)
FreshInv == \A c \in Calls : call[c].method = None => call[c] = NewImpl(None)

-----------------------------------------------------------------------------
(* What an io thread is doing fits the call it does it to, and no two do   *)
(* the same to one call.                                                   *)
BeforeSchedule == {"reset", "rearm", "schedule"}

ThreadInv ==
    /\ \A t \in IoThreads :
        /\ io[t].pc = "take" => io[t].method \in Methods
        /\ io[t].pc \in BeforeSchedule =>
               /\ io[t].call \in Calls /\ io[t].method \in Methods
               /\ call[io[t].call].method = io[t].method
               /\ call[io[t].call].callback = "none" /\ call[io[t].call].phase = "alive"
        /\ io[t].pc = "destroyClosure" => io[t].call \in Calls /\ call[io[t].call].callback # "none"
        /\ io[t].pc = "sent" =>
               io[t].call \in Calls /\ call[io[t].call].tag = "queued" /\ Sent(io[t].call) \notin cq
    /\ \A s, t \in IoThreads : io[s].call = io[t].call /\ s # t =>
        /\ ~(io[s].pc \in BeforeSchedule /\ io[t].pc \in BeforeSchedule)
        /\ ~(io[s].pc = "sent" /\ io[t].pc = "sent")

SentInv == \A c \in Calls : Sent(c) \in cq => call[c].tag = "queued"

(* The one receive of a method is registered, queued or with one thread.   *)
Queued(m) == Received(m, TRUE) \in cq \/ Received(m, FALSE) \in cq

InReceive(t, m) == io[t].pc \in {"take", "reset", "rearm"} /\ io[t].method = m

TokenInv ==
    \A m \in Methods :
        /\ m \in registered => ~Queued(m)
        /\ ~(Received(m, TRUE) \in cq /\ Received(m, FALSE) \in cq)
        /\ \A t \in IoThreads : InReceive(t, m) => m \notin registered /\ ~Queued(m)
        /\ \A s, t \in IoThreads : InReceive(s, m) /\ InReceive(t, m) => s = t

(* _receivedCall is the method's own and untouched, and it is there        *)
(* whenever gRPC or a thread is going to use it.                           *)
Expecting(m) ==
    \/ m \in registered
    \/ Queued(m)
    \/ \E t \in IoThreads : io[t].pc \in {"take", "rearm"} /\ io[t].method = m

ReceivedCallInv ==
    \A m \in Methods :
        /\ Expecting(m) => receivedCall[m] \in Calls
        /\ receivedCall[m] \in Calls =>
               call[receivedCall[m]].method = m /\ call[receivedCall[m]].phase = "receiving"

(* Shutdown returns when every request is answered, and from then on no    *)
(* request is received.  The queue is empty when a thread has left it.     *)
Answered ==
    /\ \A m \in Methods : Received(m, TRUE) \notin cq
    /\ \A t \in IoThreads : io[t].pc # "take"
    /\ \A c \in Calls : call[c].phase = "alive" => call[c].tag # "none"

ServerInv ==
    /\ server \notin {"starting", "up"} => registered = {}
    /\ server \in {"drained", "cqShutdown", "destroyed"} => Answered
    /\ (\E t \in IoThreads : io[t].pc = "exited") =>
           server \in {"cqShutdown", "destroyed"} /\ cq = {}
    /\ server = "destroyed" => \A t \in IoThreads : io[t].pc = "exited"

IInv ==
    /\ ServerTypeOK
    /\ \A c \in Calls : CallInv(call[c])
    /\ FreshInv
    /\ ThreadInv
    /\ SentInv
    /\ TokenInv
    /\ ReceivedCallInv
    /\ ServerInv

-----------------------------------------------------------------------------
(* Events are told apart by their kind and their fields.                   *)
LEMMA EventsDiffer ==
    /\ \A m, n, ok, ko : Received(m, ok) = Received(n, ko) => m = n /\ ok = ko
    /\ \A c, d : Sent(c) = Sent(d) => c = d
    /\ \A m, ok, c : Received(m, ok) # Sent(c)
  BY DEF Received, Sent

LEMMA EventShape ==
    /\ \A m \in Methods, ok \in BOOLEAN : Received(m, ok) \in Events
    /\ \A m, ok : Received(m, ok).kind = "received" /\ Received(m, ok).method = m /\ Received(m, ok).ok = ok
    /\ \A c \in Calls : Sent(c) \in Events
    /\ \A c : Sent(c).kind = "sent" /\ Sent(c).call = c
  <1>1. /\ \A m \in Methods, ok \in BOOLEAN : Received(m, ok) \in Events
        /\ \A c \in Calls : Sent(c) \in Events
    BY DEF Events
  <1>2. /\ \A m, ok : Received(m, ok).kind = "received" /\ Received(m, ok).method = m /\ Received(m, ok).ok = ok
        /\ \A c : Sent(c).kind = "sent" /\ Sent(c).call = c
    BY DEF Received, Sent
  <1> QED
    BY <1>1, <1>2

LEMMA EventCases ==
    ASSUME NEW e \in Events
    PROVE  \/ \E m \in Methods : e = Received(m, TRUE) \/ e = Received(m, FALSE)
           \/ \E c \in Calls : e = Sent(c)
  BY DEF Events

LEMMA PendingShape ==
    ASSUME NEW Q \in SUBSET Events
    PROVE  (\E e \in Q : e.kind = "received" /\ e.ok) <=> \E m \in Methods : Received(m, TRUE) \in Q
  <1>1. ASSUME NEW e \in Q, e.kind = "received", e.ok
        PROVE  \E m \in Methods : Received(m, TRUE) \in Q
    <2>1. e \in Events
      OBVIOUS
    <2>2. \A m : e # Received(m, FALSE)
      BY <1>1, EventShape
    <2>3. \A c : e # Sent(c)
      BY <1>1, EventShape
    <2> QED
      BY <2>1, <2>2, <2>3, EventCases
  <1>2. ASSUME NEW m \in Methods, Received(m, TRUE) \in Q
        PROVE  \E e \in Q : e.kind = "received" /\ e.ok
    <2>1. Received(m, TRUE).kind = "received" /\ Received(m, TRUE).ok = TRUE
      BY EventShape
    <2> QED
      BY <1>2, <2>1
  <1> QED
    BY <1>1, <1>2

LEMMA OwnerType ==
    ASSUME NEW w \in Owners, NEW o \in OwnerNames, NEW s \in OwnerStates
    PROVE  /\ [w EXCEPT ![o] = s] \in Owners
           /\ [w EXCEPT !.user = s] \in Owners
           /\ [w EXCEPT !.closure = s] \in Owners
  BY DEF Owners, OwnerStates, OwnerNames

-----------------------------------------------------------------------------
(* What the steps make of a unary_call_impl, by itself.                    *)
LEMMA NewImplInv ==
    ASSUME NEW m \in Methods \cup {None}
    PROVE  NewImpl(m) \in Impl /\ CallInv(NewImpl(m))
  <1>1. NewImpl(m) \in Impl
    BY DEF Impl, NewImpl, Owners, OwnerStates
  <1>2. CountInv(NewImpl(m)) /\ FlagInv(NewImpl(m)) /\ PhaseInv(NewImpl(m))
    BY DEF NewImpl, CountInv, FlagInv, PhaseInv, Held, SelfReference, Sending, Last
  <1> QED
    BY <1>1, <1>2 DEF CallInv

LEMMA TakeInv ==
    ASSUME NEW d \in Impl, CallInv(d),
           d.phase = "receiving",
           NEW e, e = [d EXCEPT !.refCount = @ + 1, !.phase = "alive", !.owner.closure = "held"]
    PROVE  e \in Impl /\ CallInv(e)
  <1>1. d.owner \in Owners
    BY DEF Impl
  <1>2. [d.owner EXCEPT !.closure = "held"] \in Owners
    BY <1>1, OwnerType DEF OwnerNames, OwnerStates
  <1>3. d.refCount + 1 \in Nat
    BY DEF Impl
  <1>4. e \in Impl
    BY <1>1, <1>2, <1>3 DEF Impl
  <1>5. /\ e.method = d.method /\ e.callback = d.callback
        /\ e.refCount = d.refCount + 1 /\ e.responseSentFlag = d.responseSentFlag
        /\ e.responses = d.responses /\ e.tag = d.tag
        /\ e.phase = "alive"
        /\ e.owner.closure = "held" /\ e.owner.user = d.owner.user
        /\ e.owner = [closure |-> "held", user |-> "empty"]
    BY <1>1, <1>2, <1>3 DEF Impl, Owners, CallInv, PhaseInv
  <1>6. CountInv(e)
    BY <1>5 DEF CallInv, CountInv, FlagInv, PhaseInv, Held, SelfReference, Sending, Impl
  <1>7. FlagInv(e)
    BY <1>5 DEF CallInv, CountInv, FlagInv, PhaseInv, Held, SelfReference, Sending, Last, Impl, Owners, OwnerStates
  <1>8. PhaseInv(e)
    BY <1>5 DEF CallInv, CountInv, FlagInv, PhaseInv, Held, SelfReference, Sending, Last, Impl
  <1> QED
    BY <1>4, <1>6, <1>7, <1>8 DEF CallInv

LEMMA ScheduleInv ==
    ASSUME NEW d \in Impl, CallInv(d),
           d.callback = "none", d.phase = "alive",
           NEW e, e = [d EXCEPT !.refCount = @ + 1, !.owner.user = "held", !.callback = "scheduled"]
    PROVE  e \in Impl /\ CallInv(e)
  <1>1. d.owner \in Owners
    BY DEF Impl
  <1>2. [d.owner EXCEPT !.user = "held"] \in Owners
    BY <1>1, OwnerType DEF OwnerNames, OwnerStates
  <1>3. d.refCount + 1 \in Nat
    BY DEF Impl
  <1>4. e \in Impl
    BY <1>1, <1>2, <1>3 DEF Impl
  <1>5. /\ e.method = d.method /\ e.callback = "scheduled"
        /\ e.refCount = d.refCount + 1 /\ e.responseSentFlag = d.responseSentFlag
        /\ e.responses = d.responses /\ e.tag = d.tag
        /\ e.phase = d.phase
        /\ e.owner.user = "held" /\ e.owner.closure = d.owner.closure
    BY <1>1, <1>2, <1>3 DEF Impl, Owners
  <1>6. CountInv(e)
    BY <1>5 DEF CallInv, CountInv, FlagInv, PhaseInv, Held, SelfReference, Sending, Impl
  <1>7. FlagInv(e)
    BY <1>5 DEF CallInv, CountInv, FlagInv, PhaseInv, Held, SelfReference, Sending, Last, Impl, Owners, OwnerStates
  <1>8. PhaseInv(e)
    BY <1>5 DEF CallInv, CountInv, FlagInv, PhaseInv, Held, SelfReference, Sending, Last, Impl
  <1> QED
    BY <1>4, <1>6, <1>7, <1>8 DEF CallInv

LEMMA InvokedInv ==
    ASSUME NEW d \in Impl, CallInv(d),
           d.tag = "queued",
           NEW e, e = [WithoutReference(d) EXCEPT !.tag = "invoked"]
    PROVE  e \in Impl /\ CallInv(e)
  <1>1. d.refCount - 1 \in Nat
    BY DEF Impl, CallInv, CountInv, SelfReference, Held
  <1>2. e \in Impl
    BY <1>1 DEF Impl, WithoutReference
  <1>3. /\ e.method = d.method /\ e.callback = d.callback
        /\ e.refCount = d.refCount - 1 /\ e.responseSentFlag = d.responseSentFlag
        /\ e.responses = d.responses /\ e.tag = "invoked"
        /\ e.phase = (IF d.refCount = 1 THEN "deleted" ELSE d.phase)
        /\ e.owner = d.owner
    BY <1>1 DEF Impl, Owners, WithoutReference
  <1>4. CountInv(e)
    BY <1>3 DEF CallInv, CountInv, FlagInv, PhaseInv, Held, SelfReference, Sending, Impl
  <1>5. FlagInv(e)
    BY <1>3 DEF CallInv, CountInv, FlagInv, PhaseInv, Held, SelfReference, Sending, Last, Impl, Owners, OwnerStates
  <1>6. PhaseInv(e)
    BY <1>3 DEF CallInv, CountInv, FlagInv, PhaseInv, Held, SelfReference, Sending, Last, Impl
  <1> QED
    BY <1>2, <1>4, <1>5, <1>6 DEF CallInv

LEMMA DiscardInv ==
    ASSUME NEW d \in Impl, CallInv(d),
           d.phase = "receiving",
           NEW e, e = [d EXCEPT !.phase = "discarded"]
    PROVE  e \in Impl /\ CallInv(e)
  <1>1. e \in Impl
    BY DEF Impl
  <1>2. /\ e.method = d.method /\ e.callback = d.callback
        /\ e.refCount = d.refCount /\ e.responseSentFlag = d.responseSentFlag
        /\ e.responses = d.responses /\ e.tag = d.tag
        /\ e.phase = "discarded"
        /\ e.owner = d.owner
    BY DEF Impl, Owners
  <1>3. CountInv(e)
    BY <1>2 DEF CallInv, CountInv, FlagInv, PhaseInv, Held, SelfReference, Sending, Impl
  <1>4. FlagInv(e)
    BY <1>2 DEF CallInv, CountInv, FlagInv, PhaseInv, Held, SelfReference, Sending, Last, Impl, Owners, OwnerStates
  <1>5. PhaseInv(e)
    BY <1>2 DEF CallInv, CountInv, FlagInv, PhaseInv, Held, SelfReference, Sending, Last, Impl
  <1> QED
    BY <1>1, <1>3, <1>4, <1>5 DEF CallInv

LEMMA EnteredInv ==
    ASSUME NEW d \in Impl, CallInv(d),
           d.callback \in {"scheduled", "constructing"},
           NEW e, e = [d EXCEPT !.callback = "entered"]
    PROVE  e \in Impl /\ CallInv(e)
  <1>1. e \in Impl
    BY DEF Impl
  <1>2. /\ e.method = d.method /\ e.callback = "entered"
        /\ e.refCount = d.refCount /\ e.responseSentFlag = d.responseSentFlag
        /\ e.responses = d.responses /\ e.tag = d.tag
        /\ e.phase = d.phase
        /\ e.owner = d.owner
    BY DEF Impl, Owners
  <1>3. CountInv(e)
    BY <1>2 DEF CallInv, CountInv, FlagInv, PhaseInv, Held, SelfReference, Sending, Impl
  <1>4. FlagInv(e)
    BY <1>2 DEF CallInv, CountInv, FlagInv, PhaseInv, Held, SelfReference, Sending, Last, Impl, Owners, OwnerStates
  <1>5. PhaseInv(e)
    BY <1>2 DEF CallInv, CountInv, FlagInv, PhaseInv, Held, SelfReference, Sending, Last, Impl
  <1> QED
    BY <1>1, <1>3, <1>4, <1>5 DEF CallInv

LEMMA OneWayInv ==
    ASSUME NEW d \in Impl, CallInv(d),
           d.callback = "scheduled",
           NEW e, e = [d EXCEPT !.callback = "constructing", !.responseSentFlag = TRUE, !.owner.user = "sending"]
    PROVE  e \in Impl /\ CallInv(e)
  <1>1. d.owner \in Owners
    BY DEF Impl
  <1>2. [d.owner EXCEPT !.user = "sending"] \in Owners
    BY <1>1, OwnerType DEF OwnerNames, OwnerStates
  <1>3. e \in Impl
    BY <1>1, <1>2 DEF Impl
  <1>4. /\ e.method = d.method /\ e.callback = "constructing"
        /\ e.refCount = d.refCount /\ e.responseSentFlag = TRUE
        /\ e.responses = d.responses /\ e.tag = d.tag
        /\ e.phase = d.phase
        /\ e.owner.user = "sending" /\ e.owner.closure = d.owner.closure
    BY <1>1, <1>2 DEF Impl, Owners
  <1>5. CountInv(e)
    BY <1>4 DEF CallInv, CountInv, FlagInv, PhaseInv, Held, SelfReference, Sending, Impl
  <1>6. FlagInv(e)
    BY <1>4 DEF CallInv, CountInv, FlagInv, PhaseInv, Held, SelfReference, Sending, Last, Impl, Owners, OwnerStates
  <1>7. PhaseInv(e)
    BY <1>4 DEF CallInv, CountInv, FlagInv, PhaseInv, Held, SelfReference, Sending, Last, Impl
  <1> QED
    BY <1>3, <1>5, <1>6, <1>7 DEF CallInv

LEMMA FinishInv ==
    ASSUME NEW d \in Impl, CallInv(d),
           d.callback = "entered", d.owner.user = "held", ~d.responseSentFlag,
           NEW e, e = [d EXCEPT !.responseSentFlag = TRUE, !.owner.user = "sending"]
    PROVE  e \in Impl /\ CallInv(e)
  <1>1. d.owner \in Owners
    BY DEF Impl
  <1>2. [d.owner EXCEPT !.user = "sending"] \in Owners
    BY <1>1, OwnerType DEF OwnerNames, OwnerStates
  <1>3. e \in Impl
    BY <1>1, <1>2 DEF Impl
  <1>4. /\ e.method = d.method /\ e.callback = d.callback
        /\ e.refCount = d.refCount /\ e.responseSentFlag = TRUE
        /\ e.responses = d.responses /\ e.tag = d.tag
        /\ e.phase = d.phase
        /\ e.owner.user = "sending" /\ e.owner.closure = d.owner.closure
    BY <1>1, <1>2 DEF Impl, Owners
  <1>5. CountInv(e)
    BY <1>4 DEF CallInv, CountInv, FlagInv, PhaseInv, Held, SelfReference, Sending, Impl
  <1>6. FlagInv(e)
    BY <1>4 DEF CallInv, CountInv, FlagInv, PhaseInv, Held, SelfReference, Sending, Last, Impl, Owners, OwnerStates
  <1>7. PhaseInv(e)
    BY <1>4 DEF CallInv, CountInv, FlagInv, PhaseInv, Held, SelfReference, Sending, Last, Impl
  <1> QED
    BY <1>3, <1>5, <1>6, <1>7 DEF CallInv

LEMMA SendInv ==
    ASSUME NEW d \in Impl, CallInv(d), NEW o \in OwnerNames, NEW s \in OwnerStates, NEW a \in {"user", "internal"},
           \/ o = "user" /\ d.owner[o] = "sending" /\ s = "held"
           \/ d.owner[o] = "aborting" /\ s = "releasing",
           NEW e, e = [d EXCEPT !.responses = Append(@, a), !.tag = "queued", !.owner[o] = s]
    PROVE  e \in Impl /\ CallInv(e)
  <1>1. d.owner \in Owners
    BY DEF Impl
  <1>2. [d.owner EXCEPT ![o] = s] \in Owners
    BY <1>1, OwnerType
  <1>3. Append(d.responses, a) \in Seq({"user", "internal"}) /\ Append(d.responses, a) # << >>
    BY DEF Impl
  <1>4. e \in Impl
    BY <1>1, <1>2, <1>3 DEF Impl, OwnerNames
  <1>5. /\ e.method = d.method /\ e.callback = d.callback
        /\ e.refCount = d.refCount /\ e.responseSentFlag = d.responseSentFlag
        /\ e.responses = Append(d.responses, a) /\ e.tag = "queued"
        /\ e.phase = d.phase
        /\ e.owner.closure = (IF o = "closure" THEN s ELSE d.owner.closure)
        /\ e.owner.user = (IF o = "user" THEN s ELSE d.owner.user)
    BY <1>1, <1>2, <1>3 DEF Impl, Owners, OwnerNames
  <1>6. CountInv(e)
    BY <1>5 DEF CallInv, CountInv, FlagInv, PhaseInv, Held, SelfReference, Sending, Impl, OwnerNames
  <1>7. FlagInv(e)
    BY <1>5, <1>3 DEF CallInv, CountInv, FlagInv, PhaseInv, Held, SelfReference, Sending, Last, Impl, Owners, OwnerStates, OwnerNames
  <1>8. PhaseInv(e)
    BY <1>5 DEF CallInv, CountInv, FlagInv, PhaseInv, Held, SelfReference, Sending, Last, Impl, OwnerNames
  <1> QED
    BY <1>4, <1>6, <1>7, <1>8 DEF CallInv

LEMMA TryFinishInv ==
    ASSUME NEW d \in Impl, CallInv(d), NEW o \in OwnerNames, NEW s \in OwnerStates,
           d.owner[o] = "held", d.callback # "none", o = "user" => d.callback = "entered",
           s = IF d.refCount = 2 THEN "abandoning" ELSE "releasing",
           NEW e, e = [d EXCEPT !.owner[o] = s]
    PROVE  e \in Impl /\ CallInv(e)
  <1>1. d.owner \in Owners
    BY DEF Impl
  <1>2. [d.owner EXCEPT ![o] = s] \in Owners
    BY <1>1, OwnerType
  <1>3. e \in Impl
    BY <1>1, <1>2 DEF Impl, OwnerNames
  <1>4. /\ e.method = d.method /\ e.callback = d.callback
        /\ e.refCount = d.refCount /\ e.responseSentFlag = d.responseSentFlag
        /\ e.responses = d.responses /\ e.tag = d.tag
        /\ e.phase = d.phase
        /\ e.owner.closure = (IF o = "closure" THEN s ELSE d.owner.closure)
        /\ e.owner.user = (IF o = "user" THEN s ELSE d.owner.user)
    BY <1>1, <1>2 DEF Impl, Owners, OwnerNames
  <1>5. CountInv(e)
    BY <1>4 DEF CallInv, CountInv, FlagInv, PhaseInv, Held, SelfReference, Sending, Impl, OwnerNames
  <1>6. FlagInv(e)
    BY <1>4 DEF CallInv, CountInv, FlagInv, PhaseInv, Held, SelfReference, Sending, Last, Impl, Owners, OwnerStates, OwnerNames
  <1>7. PhaseInv(e)
    BY <1>4 DEF CallInv, CountInv, FlagInv, PhaseInv, Held, SelfReference, Sending, Last, Impl, OwnerNames
  <1> QED
    BY <1>3, <1>5, <1>6, <1>7 DEF CallInv

LEMMA FinishWithErrorInv ==
    ASSUME NEW d \in Impl, CallInv(d), NEW o \in OwnerNames, NEW s \in OwnerStates,
           d.owner[o] = "abandoning", s = IF d.responseSentFlag THEN "releasing" ELSE "aborting",
           NEW e, e = [d EXCEPT !.responseSentFlag = TRUE, !.owner[o] = s]
    PROVE  e \in Impl /\ CallInv(e)
  <1>1. d.owner \in Owners
    BY DEF Impl
  <1>2. [d.owner EXCEPT ![o] = s] \in Owners
    BY <1>1, OwnerType
  <1>3. e \in Impl
    BY <1>1, <1>2 DEF Impl, OwnerNames
  <1>4. /\ e.method = d.method /\ e.callback = d.callback
        /\ e.refCount = d.refCount /\ e.responseSentFlag = TRUE
        /\ e.responses = d.responses /\ e.tag = d.tag
        /\ e.phase = d.phase
        /\ e.owner.closure = (IF o = "closure" THEN s ELSE d.owner.closure)
        /\ e.owner.user = (IF o = "user" THEN s ELSE d.owner.user)
    BY <1>1, <1>2 DEF Impl, Owners, OwnerNames
  <1>5. CountInv(e)
    BY <1>4 DEF CallInv, CountInv, FlagInv, PhaseInv, Held, SelfReference, Sending, Impl, OwnerNames
  <1>6. FlagInv(e)
    <2>1. CASE d.responseSentFlag
      BY <1>4, <2>1 DEF CallInv, CountInv, FlagInv, PhaseInv, Sending, Last, Impl, Owners, OwnerStates, OwnerNames
    <2>2. CASE ~d.responseSentFlag
      BY <1>4, <2>2 DEF CallInv, CountInv, FlagInv, PhaseInv, Sending, Last, Impl, Owners, OwnerStates, OwnerNames
    <2> QED
      BY <2>1, <2>2
  <1>7. PhaseInv(e)
    BY <1>4 DEF CallInv, CountInv, FlagInv, PhaseInv, Held, SelfReference, Sending, Last, Impl, OwnerNames
  <1> QED
    BY <1>3, <1>5, <1>6, <1>7 DEF CallInv

LEMMA ReleaseInv ==
    ASSUME NEW d \in Impl, CallInv(d), NEW o \in OwnerNames,
           d.owner[o] = "releasing",
           NEW e, e = [WithoutReference(d) EXCEPT !.owner[o] = "empty"]
    PROVE  e \in Impl /\ CallInv(e)
  <1>1. d.owner \in Owners
    BY DEF Impl
  <1>2. [d.owner EXCEPT ![o] = "empty"] \in Owners
    BY <1>1, OwnerType DEF OwnerStates
  <1>3. d.refCount - 1 \in Nat
    BY DEF Impl, CallInv, CountInv, SelfReference, Held, OwnerNames
  <1>4. e \in Impl
    BY <1>1, <1>2, <1>3 DEF Impl, OwnerNames, WithoutReference
  <1>5. /\ e.method = d.method /\ e.callback = d.callback
        /\ e.refCount = d.refCount - 1 /\ e.responseSentFlag = d.responseSentFlag
        /\ e.responses = d.responses /\ e.tag = d.tag
        /\ e.phase = (IF d.refCount = 1 THEN "deleted" ELSE d.phase)
        /\ e.owner.closure = (IF o = "closure" THEN "empty" ELSE d.owner.closure)
        /\ e.owner.user = (IF o = "user" THEN "empty" ELSE d.owner.user)
    BY <1>1, <1>2, <1>3 DEF Impl, Owners, OwnerNames, WithoutReference
  <1>6. CountInv(e)
    BY <1>5 DEF CallInv, CountInv, FlagInv, PhaseInv, Held, SelfReference, Sending, Impl, OwnerNames
  <1>7. FlagInv(e)
    BY <1>5 DEF CallInv, CountInv, FlagInv, PhaseInv, Held, SelfReference, Sending, Last, Impl, Owners, OwnerStates, OwnerNames
  <1>8. PhaseInv(e)
    BY <1>5 DEF CallInv, CountInv, FlagInv, PhaseInv, Held, SelfReference, Sending, Last, Impl, OwnerNames
  <1> QED
    BY <1>4, <1>6, <1>7, <1>8 DEF CallInv
-----------------------------------------------------------------------------
(* What the invariant of a call says of its owners, callback and phase.    *)
LEMMA CallFacts ==
    ASSUME NEW d \in Impl, CallInv(d), NEW o \in OwnerNames
    PROVE  /\ d.phase = "receiving" => d.callback = "none" /\ d.tag = "none" /\ d.refCount = 1
           /\ d.callback # "none" => d.phase \in {"alive", "deleted"}
           /\ d.owner[o] # "empty" => d.phase = "alive"
           /\ d.owner[o] \notin {"empty", "held"} => d.callback # "none"
           /\ d.tag # "none" => d.callback # "none"
           /\ Sending(d, o) => d.tag = "none"
           /\ d.tag = "none" <=> d.responses = << >>
  BY DEF CallInv, CountInv, FlagInv, PhaseInv, Held, SelfReference, Sending, Impl, Owners, OwnerNames

(* A call with a callback is neither fresh nor about to be received, and   *)
(* no thread is on its way to schedule it.                                 *)
LEMMA ScheduledFacts ==
    ASSUME IInv, NEW c \in Calls, call[c].callback # "none"
    PROVE  /\ call[c].method # None
           /\ \A m \in Methods : receivedCall[m] # c
           /\ \A t \in IoThreads : io[t].pc \in BeforeSchedule => io[t].call # c
  <1>1. call[c].phase \in {"alive", "deleted"}
    BY CallFacts DEF IInv, ServerTypeOK, OwnerNames
  <1>2. call[c].method # None
    BY DEF IInv, FreshInv, NewImpl
  <1> QED
    BY <1>1, <1>2 DEF IInv, ReceivedCallInv, ThreadInv

(* A step that changes one such call, and nothing else.                    *)
LEMMA CallOnly ==
    ASSUME IInv, NEW c \in Calls, NEW e \in Impl, CallInv(e),
           call' = [call EXCEPT ![c] = e], UNCHANGED <<server, receivedCall, registered, cq, io>>,
           call[c].callback # "none", e.callback # "none",
           e.tag = call[c].tag, e.method = call[c].method,
           e.phase = "alive" => call[c].phase = "alive"
    PROVE  IInv'
  <1>1. ServerTypeOK'
    BY DEF IInv, ServerTypeOK
  <1>2. call'[c] = e /\ \A b \in Calls : b # c => call'[b] = call[b]
    BY DEF IInv, ServerTypeOK
  <1>3. (\A b \in Calls : CallInv(call[b]))'
    BY <1>2 DEF IInv
  <1>4. FreshInv'
    BY <1>2, ScheduledFacts DEF IInv, FreshInv
  <1>5. ThreadInv'
    BY <1>2, ScheduledFacts DEF IInv, ThreadInv
  <1>6. SentInv'
    BY <1>2 DEF IInv, SentInv
  <1>7. TokenInv'
    BY DEF IInv, TokenInv, Queued, InReceive
  <1>8. ReceivedCallInv'
    <2>1. \A m \in Methods : Expecting(m)' <=> Expecting(m)
      BY DEF Expecting, Queued
    <2> QED
      BY <1>2, <2>1, ScheduledFacts DEF IInv, ReceivedCallInv
  <1>9. ServerInv'
    BY <1>2 DEF IInv, ServerInv, Answered
  <1> QED
    BY <1>1, <1>3, <1>4, <1>5, <1>6, <1>7, <1>8, <1>9 DEF IInv

-----------------------------------------------------------------------------
(* The steps of the scheduler, of the callback and of the owners.          *)
LEMMA RunClosureStep ==
    ASSUME IInv, NEW c \in Calls, RunClosure(c)
    PROVE  IInv'
  <1>1. call[c] \in Impl /\ CallInv(call[c]) /\ call[c].callback = "scheduled"
    BY DEF RunClosure, IInv, ServerTypeOK
  <1>2. CASE call[c].method \in OneWay
    <2> DEFINE e == [call[c] EXCEPT !.callback = "constructing", !.responseSentFlag = TRUE, !.owner.user = "sending"]
    <2>1. call' = [call EXCEPT ![c] = e] /\ UNCHANGED <<server, receivedCall, registered, cq, io>>
      BY <1>2 DEF RunClosure
    <2>2. e \in Impl /\ CallInv(e)
      BY <1>1, OneWayInv
    <2>3. /\ e.callback = "constructing" /\ e.tag = call[c].tag /\ e.method = call[c].method
          /\ e.phase = call[c].phase
      BY <1>1 DEF Impl
    <2> HIDE DEF e
    <2> QED
      BY <1>1, <2>1, <2>2, <2>3, CallOnly
  <1>3. CASE call[c].method \notin OneWay
    <2> DEFINE e == [call[c] EXCEPT !.callback = "entered"]
    <2>1. call' = [call EXCEPT ![c] = e] /\ UNCHANGED <<server, receivedCall, registered, cq, io>>
      BY <1>3 DEF RunClosure
    <2>2. e \in Impl /\ CallInv(e)
      BY <1>1, EnteredInv
    <2>3. /\ e.callback = "entered" /\ e.tag = call[c].tag /\ e.method = call[c].method
          /\ e.phase = call[c].phase
      BY <1>1 DEF Impl
    <2> HIDE DEF e
    <2> QED
      BY <1>1, <2>1, <2>2, <2>3, CallOnly
  <1> QED
    BY <1>2, <1>3

LEMMA EnterCallbackStep ==
    ASSUME IInv, NEW c \in Calls, EnterCallback(c)
    PROVE  IInv'
  <1> DEFINE e == [call[c] EXCEPT !.callback = "entered"]
  <1>1. call[c] \in Impl /\ CallInv(call[c]) /\ call[c].callback = "constructing"
    BY DEF EnterCallback, IInv, ServerTypeOK
  <1>2. call' = [call EXCEPT ![c] = e] /\ UNCHANGED <<server, receivedCall, registered, cq, io>>
    BY DEF EnterCallback
  <1>3. e \in Impl /\ CallInv(e)
    BY <1>1, EnteredInv
  <1>4. /\ e.callback = "entered" /\ e.tag = call[c].tag /\ e.method = call[c].method
        /\ e.phase = call[c].phase
    BY <1>1 DEF Impl
  <1> HIDE DEF e
  <1> QED
    BY <1>1, <1>2, <1>3, <1>4, CallOnly

LEMMA FinishStep ==
    ASSUME IInv, NEW c \in Calls, Finish(c)
    PROVE  IInv'
  <1> DEFINE e == [call[c] EXCEPT !.responseSentFlag = TRUE, !.owner.user = "sending"]
  <1>1. /\ call[c] \in Impl /\ CallInv(call[c])
        /\ call[c].callback = "entered" /\ call[c].owner.user = "held" /\ ~call[c].responseSentFlag
    BY DEF Finish, IInv, ServerTypeOK
  <1>2. call' = [call EXCEPT ![c] = e] /\ UNCHANGED <<server, receivedCall, registered, cq, io>>
    BY DEF Finish
  <1>3. e \in Impl /\ CallInv(e)
    BY <1>1, FinishInv
  <1>4. /\ e.callback = "entered" /\ e.tag = call[c].tag /\ e.method = call[c].method
        /\ e.phase = call[c].phase
    BY <1>1 DEF Impl
  <1> HIDE DEF e
  <1> QED
    BY <1>1, <1>2, <1>3, <1>4, CallOnly

LEMMA TryFinishWithErrorStep ==
    ASSUME IInv, NEW c \in Calls, NEW o \in OwnerNames, TryFinishWithError(c, o)
    PROVE  IInv'
  <1> DEFINE s == IF call[c].refCount = 2 THEN "abandoning" ELSE "releasing"
             e == [call[c] EXCEPT !.owner[o] = s]
  <1>1. call[c] \in Impl /\ CallInv(call[c]) /\ call[c].owner[o] = "held" /\ s \in OwnerStates
    BY DEF TryFinishWithError, Dropping, IInv, ServerTypeOK, OwnerStates
  <1>2. call[c].callback # "none" /\ (o = "user" => call[c].callback = "entered")
    BY DEF TryFinishWithError, Dropping, IInv, ThreadInv, OwnerNames
  <1>3. call' = [call EXCEPT ![c] = e] /\ UNCHANGED <<server, receivedCall, registered, cq, io>>
    BY DEF TryFinishWithError
  <1>4. e \in Impl /\ CallInv(e)
    BY <1>1, <1>2, TryFinishInv
  <1>5. /\ e.callback = call[c].callback /\ e.tag = call[c].tag /\ e.method = call[c].method
        /\ e.phase = call[c].phase
    BY <1>1 DEF Impl
  <1> HIDE DEF e
  <1> QED
    BY <1>1, <1>2, <1>3, <1>4, <1>5, CallOnly

LEMMA FinishWithErrorStep ==
    ASSUME IInv, NEW c \in Calls, NEW o \in OwnerNames, FinishWithError(c, o)
    PROVE  IInv'
  <1> DEFINE s == IF call[c].responseSentFlag THEN "releasing" ELSE "aborting"
             e == [call[c] EXCEPT !.responseSentFlag = TRUE, !.owner[o] = s]
  <1>1. call[c] \in Impl /\ CallInv(call[c]) /\ call[c].owner[o] = "abandoning" /\ s \in OwnerStates
    BY DEF FinishWithError, IInv, ServerTypeOK, OwnerStates
  <1>2. call[c].callback # "none"
    BY <1>1, CallFacts
  <1>3. call' = [call EXCEPT ![c] = e] /\ UNCHANGED <<server, receivedCall, registered, cq, io>>
    BY DEF FinishWithError
  <1>4. e \in Impl /\ CallInv(e)
    BY <1>1, FinishWithErrorInv
  <1>5. /\ e.callback = call[c].callback /\ e.tag = call[c].tag /\ e.method = call[c].method
        /\ e.phase = call[c].phase
    BY <1>1 DEF Impl
  <1> HIDE DEF e
  <1> QED
    BY <1>2, <1>3, <1>4, <1>5, CallOnly

LEMMA ReleaseStep ==
    ASSUME IInv, NEW c \in Calls, NEW o \in OwnerNames, Release(c, o)
    PROVE  IInv'
  <1> DEFINE e == [WithoutReference(call[c]) EXCEPT !.owner[o] = "empty"]
  <1>1. call[c] \in Impl /\ CallInv(call[c]) /\ call[c].owner[o] = "releasing"
    BY DEF Release, IInv, ServerTypeOK
  <1>2. call[c].callback # "none"
    BY <1>1, CallFacts
  <1>3. call' = [call EXCEPT ![c] = e] /\ UNCHANGED <<server, receivedCall, registered, cq, io>>
    BY DEF Release
  <1>4. e \in Impl /\ CallInv(e)
    BY <1>1, ReleaseInv
  <1>5. /\ e.callback = call[c].callback /\ e.tag = call[c].tag /\ e.method = call[c].method
        /\ e.phase = "alive" => call[c].phase = "alive"
    BY <1>1 DEF Impl, WithoutReference
  <1> HIDE DEF e
  <1> QED
    BY <1>2, <1>3, <1>4, <1>5, CallOnly

(* Respond and RespondWithError: the answer goes to the responder, and its *)
(* tag into the queue, which still has a thread to take it.                *)
LEMMA SendStep ==
    ASSUME IInv, NEW c \in Calls, NEW o \in OwnerNames, NEW a \in {"user", "internal"}, NEW s \in OwnerStates,
           Send(c, o, a, s),
           \/ o = "user" /\ call[c].owner[o] = "sending" /\ s = "held"
           \/ call[c].owner[o] = "aborting" /\ s = "releasing"
    PROVE  IInv'
  <1> DEFINE e == [call[c] EXCEPT !.responses = Append(@, a), !.tag = "queued", !.owner[o] = s]
  <1>1. call[c] \in Impl /\ CallInv(call[c])
    BY DEF IInv, ServerTypeOK
  <1>2. call[c].callback # "none" /\ call[c].tag = "none" /\ call[c].phase = "alive"
    BY <1>1, CallFacts DEF Sending
  <1>3. /\ call' = [call EXCEPT ![c] = e] /\ cq' = cq \cup {Sent(c)}
        /\ UNCHANGED <<server, receivedCall, registered, io>>
    BY DEF Send
  <1>4. e \in Impl /\ CallInv(e)
    BY <1>1, SendInv
  <1>5. e.callback = call[c].callback /\ e.tag = "queued" /\ e.method = call[c].method
    BY <1>1 DEF Impl
  <1> HIDE DEF e
  <1>6. call'[c] = e /\ \A b \in Calls : b # c => call'[b] = call[b]
    BY <1>3 DEF IInv, ServerTypeOK
  <1>7. /\ \A m : Received(m, TRUE) \in cq' <=> Received(m, TRUE) \in cq
        /\ \A m : Received(m, FALSE) \in cq' <=> Received(m, FALSE) \in cq
        /\ \A b : b # c => (Sent(b) \in cq' <=> Sent(b) \in cq)
    BY <1>3, EventsDiffer
  <1>8. server \notin {"drained", "cqShutdown", "destroyed"}
    BY <1>2 DEF IInv, ServerInv, Answered
  <1>9. ServerTypeOK'
    BY <1>3, <1>4, EventShape DEF IInv, ServerTypeOK
  <1>10. (\A b \in Calls : CallInv(call[b]))' /\ FreshInv'
    BY <1>2, <1>4, <1>5, <1>6, ScheduledFacts DEF IInv, FreshInv
  <1>11. ThreadInv'
    BY <1>2, <1>3, <1>5, <1>6, <1>7, ScheduledFacts DEF IInv, ThreadInv
  <1>12. SentInv'
    BY <1>5, <1>6, <1>7 DEF IInv, SentInv
  <1>13. TokenInv'
    <2>1. \A m \in Methods : Queued(m)' <=> Queued(m)
      BY <1>7 DEF Queued
    <2>2. \A t \in IoThreads, m \in Methods : InReceive(t, m)' <=> InReceive(t, m)
      BY <1>3 DEF InReceive
    <2> QED
      BY <1>3, <1>7, <2>1, <2>2 DEF IInv, TokenInv
  <1>14. ReceivedCallInv'
    <2>1. \A m \in Methods : Expecting(m)' <=> Expecting(m)
      BY <1>3, <1>7 DEF Expecting, Queued
    <2> QED
      BY <1>2, <1>3, <1>6, <2>1, ScheduledFacts DEF IInv, ReceivedCallInv
  <1>15. ServerInv'
    BY <1>3, <1>8 DEF IInv, ServerInv
  <1> QED
    BY <1>9, <1>10, <1>11, <1>12, <1>13, <1>14, <1>15 DEF IInv
-----------------------------------------------------------------------------
(* The steps of an io thread.  A thread that goes back to Next, or leaves  *)
(* it, was in no receive.                                                  *)
LEMMA IdleShape ==
    /\ Idle \in Threads
    /\ Idle.pc = "polling" /\ Idle.method = None /\ Idle.call = None
  BY DEF Idle, Threads, ThreadPcs

LEMMA ThreadLeaves ==
    ASSUME IInv, NEW t \in IoThreads, NEW r \in Threads, io' = [io EXCEPT ![t] = r],
           r.pc \in {"polling", "exited"}, io[t].pc \notin {"take", "reset", "rearm"},
           UNCHANGED <<registered, cq, receivedCall>>
    PROVE  /\ \A s \in IoThreads : io'[s] = IF s = t THEN r ELSE io[s]
           /\ TokenInv'
           /\ \A m \in Methods : Expecting(m)' <=> Expecting(m)
  <1>1. \A s \in IoThreads : io'[s] = IF s = t THEN r ELSE io[s]
    BY DEF IInv, ServerTypeOK
  <1>2. \A s \in IoThreads, m \in Methods : InReceive(s, m)' <=> InReceive(s, m)
    BY <1>1 DEF InReceive
  <1>3. \A m \in Methods : Queued(m)' <=> Queued(m)
    BY DEF Queued
  <1>4. TokenInv'
    BY <1>2, <1>3 DEF IInv, TokenInv
  <1>5. \A m \in Methods : Expecting(m)' <=> Expecting(m)
    BY <1>1, <1>3 DEF Expecting
  <1> QED
    BY <1>1, <1>4, <1>5

LEMMA ServerKept ==
    ASSUME ServerInv, NEW t \in IoThreads, NEW r, \A s \in IoThreads : io'[s] = IF s = t THEN r ELSE io[s],
           io[t].pc # "exited", r.pc \notin {"exited", "take"},
           UNCHANGED <<server, registered>>, cq' \subseteq cq,
           \A c \in Calls : call'[c].phase = "alive" /\ call'[c].tag = "none" =>
                               call[c].phase = "alive" /\ call[c].tag = "none"
    PROVE  ServerInv'
  <1>1. Answered => Answered'
    BY DEF Answered
  <1>2. server # "destroyed" /\ ((\E s \in IoThreads : io'[s].pc = "exited") => \E s \in IoThreads : io[s].pc = "exited")
    BY DEF ServerInv
  <1>3. (\E s \in IoThreads : io'[s].pc = "exited") => server' \in {"cqShutdown", "destroyed"} /\ cq' = {}
    BY <1>2 DEF ServerInv
  <1> QED
    BY <1>1, <1>2, <1>3 DEF ServerInv

LEMMA ClosureDestroyedStep ==
    ASSUME IInv, NEW t \in IoThreads, ClosureDestroyed(t)
    PROVE  IInv'
  <1>1. /\ io[t].pc = "destroyClosure" /\ io' = [io EXCEPT ![t] = Idle]
        /\ UNCHANGED <<server, receivedCall, registered, cq, call>>
    BY DEF ClosureDestroyed
  <1>2. /\ \A s \in IoThreads : io'[s] = IF s = t THEN Idle ELSE io[s]
        /\ TokenInv'
        /\ \A m \in Methods : Expecting(m)' <=> Expecting(m)
    BY <1>1, IdleShape, ThreadLeaves
  <1>3. ServerTypeOK'
    BY <1>1, IdleShape DEF IInv, ServerTypeOK
  <1>4. (\A b \in Calls : CallInv(call[b]))' /\ FreshInv' /\ SentInv'
    BY <1>1 DEF IInv, FreshInv, SentInv
  <1>5. ThreadInv'
    BY <1>1, <1>2, IdleShape DEF IInv, ThreadInv, BeforeSchedule
  <1>6. ReceivedCallInv'
    BY <1>1, <1>2 DEF IInv, ReceivedCallInv
  <1>7. ServerInv'
    BY <1>1, <1>2, IdleShape DEF IInv, ServerInv, Answered
  <1> QED
    BY <1>2, <1>3, <1>4, <1>5, <1>6, <1>7 DEF IInv

LEMMA IoExitStep ==
    ASSUME IInv, NEW t \in IoThreads, IoExit(t)
    PROVE  IInv'
  <1> DEFINE r == [io[t] EXCEPT !.pc = "exited"]
  <1>1. /\ io[t].pc = "polling" /\ server = "cqShutdown" /\ cq = {} /\ io' = [io EXCEPT ![t] = r]
        /\ UNCHANGED <<server, receivedCall, registered, cq, call>>
    BY DEF IoExit
  <1>2. r \in Threads /\ r.pc = "exited"
    BY DEF IInv, ServerTypeOK, Threads, ThreadPcs
  <1> HIDE DEF r
  <1>3. /\ \A s \in IoThreads : io'[s] = IF s = t THEN r ELSE io[s]
        /\ TokenInv'
        /\ \A m \in Methods : Expecting(m)' <=> Expecting(m)
    BY <1>1, <1>2, ThreadLeaves
  <1>4. ServerTypeOK'
    BY <1>1, <1>2 DEF IInv, ServerTypeOK
  <1>5. (\A b \in Calls : CallInv(call[b]))' /\ FreshInv' /\ SentInv'
    BY <1>1 DEF IInv, FreshInv, SentInv
  <1>6. ThreadInv'
    BY <1>1, <1>2, <1>3 DEF IInv, ThreadInv, BeforeSchedule
  <1>7. ReceivedCallInv'
    BY <1>1, <1>3 DEF IInv, ReceivedCallInv
  <1>8. ServerInv'
    BY <1>1, <1>2, <1>3 DEF IInv, ServerInv, Answered
  <1> QED
    BY <1>3, <1>4, <1>5, <1>6, <1>7, <1>8 DEF IInv

LEMMA ResponseSentStep ==
    ASSUME IInv, NEW t \in IoThreads, ResponseSent(t)
    PROVE  IInv'
  <1>1. PICK c \in Calls : c = io[t].call /\ call[c].tag = "queued" /\ Sent(c) \notin cq /\ io[t].pc = "sent"
    BY DEF ResponseSent, IInv, ThreadInv
  <1> DEFINE e == [WithoutReference(call[c]) EXCEPT !.tag = "invoked"]
  <1>2. call[c] \in Impl /\ CallInv(call[c])
    BY DEF IInv, ServerTypeOK
  <1>3. call[c].callback # "none"
    BY <1>1, <1>2, CallFacts DEF OwnerNames
  <1>4. /\ call' = [call EXCEPT ![c] = e] /\ io' = [io EXCEPT ![t] = Idle]
        /\ UNCHANGED <<server, receivedCall, registered, cq>>
    BY <1>1 DEF ResponseSent
  <1>5. e \in Impl /\ CallInv(e)
    BY <1>1, <1>2, InvokedInv
  <1>6. /\ e.callback = call[c].callback /\ e.tag = "invoked" /\ e.method = call[c].method
        /\ e.phase = "alive" => call[c].phase = "alive"
    BY <1>2 DEF Impl, WithoutReference
  <1> HIDE DEF e
  <1>7. call'[c] = e /\ \A b \in Calls : b # c => call'[b] = call[b]
    BY <1>4 DEF IInv, ServerTypeOK
  <1>8. /\ \A s \in IoThreads : io'[s] = IF s = t THEN Idle ELSE io[s]
        /\ TokenInv'
        /\ \A m \in Methods : Expecting(m)' <=> Expecting(m)
    BY <1>1, <1>4, IdleShape, ThreadLeaves
  <1>9. ServerTypeOK'
    BY <1>4, <1>5, IdleShape DEF IInv, ServerTypeOK
  <1>10. (\A b \in Calls : CallInv(call[b]))' /\ FreshInv'
    BY <1>3, <1>5, <1>6, <1>7, ScheduledFacts DEF IInv, FreshInv
  <1>11. SentInv'
    BY <1>1, <1>4, <1>7 DEF IInv, SentInv
  <1>12. ThreadInv'
    BY <1>1, <1>3, <1>4, <1>6, <1>7, <1>8, IdleShape, ScheduledFacts DEF IInv, ThreadInv, BeforeSchedule
  <1>13. ReceivedCallInv'
    BY <1>3, <1>4, <1>7, <1>8, ScheduledFacts DEF IInv, ReceivedCallInv
  <1>14. ServerInv'
    <2>1. \A b \in Calls : call'[b].phase = "alive" /\ call'[b].tag = "none" => call[b].phase = "alive" /\ call[b].tag = "none"
      BY <1>6, <1>7
    <2> QED
      BY <2>1, <1>1, <1>4, <1>8, IdleShape, ServerKept DEF IInv
  <1> QED
    BY <1>8, <1>9, <1>10, <1>11, <1>12, <1>13, <1>14 DEF IInv

LEMMA ScheduleStep ==
    ASSUME IInv, NEW t \in IoThreads, Schedule(t)
    PROVE  IInv'
  <1>1. PICK c \in Calls : /\ c = io[t].call /\ call[c].callback = "none" /\ call[c].phase = "alive"
                           /\ call[c].method \in Methods /\ io[t].pc = "schedule"
    BY DEF Schedule, IInv, ThreadInv, BeforeSchedule
  <1> DEFINE e == [call[c] EXCEPT !.refCount = @ + 1, !.owner.user = "held", !.callback = "scheduled"]
             r == [io[t] EXCEPT !.pc = "destroyClosure"]
  <1>2. call[c] \in Impl /\ CallInv(call[c]) /\ io[t] \in Threads
    BY DEF IInv, ServerTypeOK
  <1>3. /\ call' = [call EXCEPT ![c] = e] /\ io' = [io EXCEPT ![t] = r]
        /\ UNCHANGED <<server, receivedCall, registered, cq>>
    BY <1>1 DEF Schedule
  <1>4. e \in Impl /\ CallInv(e)
    BY <1>1, <1>2, ScheduleInv
  <1>5. /\ e.callback = "scheduled" /\ e.tag = call[c].tag /\ e.method = call[c].method /\ e.phase = "alive"
        /\ r \in Threads /\ r.pc = "destroyClosure" /\ r.call = c
    BY <1>1, <1>2 DEF Impl, Threads, ThreadPcs
  <1> HIDE DEF e, r
  <1>6. call'[c] = e /\ \A b \in Calls : b # c => call'[b] = call[b]
    BY <1>3 DEF IInv, ServerTypeOK
  <1>7. \A s \in IoThreads : io'[s] = IF s = t THEN r ELSE io[s]
    BY <1>3 DEF IInv, ServerTypeOK
  <1>8. \A s \in IoThreads, m \in Methods : InReceive(s, m)' <=> InReceive(s, m)
    BY <1>1, <1>5, <1>7 DEF InReceive
  <1>9. \A m \in Methods : /\ Queued(m)' <=> Queued(m)
                           /\ Expecting(m)' <=> Expecting(m)
    <2> TAKE m \in Methods
    <2>1. Queued(m)' <=> Queued(m)
      BY <1>3 DEF Queued
    <2>2. io[t].pc \notin {"take", "rearm"} /\ io'[t].pc \notin {"take", "rearm"}
      BY <1>1, <1>5, <1>7
    <2>3. ASSUME NEW s \in IoThreads
          PROVE  io'[s].pc \in {"take", "rearm"} /\ io'[s].method = m
                 <=> io[s].pc \in {"take", "rearm"} /\ io[s].method = m
      BY <1>7, <2>2
    <2>4. Expecting(m)' <=> Expecting(m)
      BY <1>3, <2>1, <2>3 DEF Expecting
    <2> QED
      BY <2>1, <2>4
  <1>10. ServerTypeOK'
    BY <1>3, <1>4, <1>5 DEF IInv, ServerTypeOK
  <1>11. (\A b \in Calls : CallInv(call[b]))' /\ FreshInv'
    BY <1>1, <1>4, <1>5, <1>6, NoneAssumption DEF IInv, FreshInv
  <1>12. SentInv' /\ TokenInv'
    <2>1. SentInv'
      BY <1>3, <1>5, <1>6 DEF IInv, SentInv
    <2>2. TokenInv'
      BY <1>3, <1>8, <1>9 DEF IInv, TokenInv
    <2> QED
      BY <2>1, <2>2
  <1>13. ThreadInv'
    BY <1>1, <1>3, <1>5, <1>6, <1>7 DEF IInv, ThreadInv, BeforeSchedule
  <1>14. ReceivedCallInv'
    BY <1>1, <1>3, <1>5, <1>6, <1>9 DEF IInv, ReceivedCallInv
  <1>15. ServerInv'
    <2>1. \A b \in Calls : call'[b].phase = "alive" /\ call'[b].tag = "none" => call[b].phase = "alive" /\ call[b].tag = "none"
      BY <1>1, <1>5, <1>6
    <2> QED
      BY <2>1, <1>1, <1>3, <1>5, <1>7, ServerKept DEF IInv
  <1> QED
    BY <1>10, <1>11, <1>12, <1>13, <1>14, <1>15 DEF IInv
-----------------------------------------------------------------------------
(* The receive loop.  A request that is being received, or a call without  *)
(* an answer, keeps Shutdown waiting and every thread in Next.             *)
LEMMA ServerWaits ==
    ASSUME IInv, ~Answered
    PROVE  /\ server \in {"starting", "up", "shutdown"}
           /\ \A t \in IoThreads : io[t].pc # "exited"
  BY DEF IInv, ServerInv, ServerTypeOK

LEMMA WaitingInv ==
    ASSUME ServerInv, server \in {"starting", "up", "shutdown"}, server' = server,
           server = "shutdown" => registered' = {},
           \A t \in IoThreads : io'[t].pc # "exited"
    PROVE  ServerInv'
  BY DEF ServerInv

(* A thread on its way to schedule a call.                                 *)
LEMMA ReceivingThread ==
    ASSUME IInv, NEW t \in IoThreads, io[t].pc \in BeforeSchedule
    PROVE  /\ io[t].call \in Calls /\ io[t].method \in Methods
           /\ call[io[t].call].phase = "alive" /\ call[io[t].call].callback = "none"
           /\ call[io[t].call].tag = "none"
           /\ ~Answered
  <1>1. /\ io[t].call \in Calls /\ io[t].method \in Methods
        /\ call[io[t].call].phase = "alive" /\ call[io[t].call].callback = "none"
    BY DEF IInv, ThreadInv
  <1>2. call[io[t].call].tag = "none"
    BY <1>1, CallFacts DEF IInv, ServerTypeOK, OwnerNames
  <1> QED
    BY <1>1, <1>2 DEF Answered

(* TakeReceivedCall updates three fields of the one call it takes.         *)
LEMMA TakenCall ==
    ASSUME ServerTypeOK, NEW t \in IoThreads, TakeReceivedCall(t),
           NEW c \in Calls, c = receivedCall[io[t].method]
    PROVE  call' = [call EXCEPT ![c] = [call[c] EXCEPT !.refCount = @ + 1,
                                                       !.phase = "alive",
                                                       !.owner.closure = "held"]]
  <1>1. call \in [Calls -> Impl]
    BY DEF ServerTypeOK
  <1>2. call' = [call EXCEPT ![c].refCount = @ + 1, ![c].phase = "alive",
                             ![c].owner.closure = "held"]
    BY DEF TakeReceivedCall
  <1> DEFINE d1 == [call[c] EXCEPT !.refCount = @ + 1]
             d2 == [d1 EXCEPT !.phase = "alive"]
             d3 == [d2 EXCEPT !.owner.closure = "held"]
             f1 == [call EXCEPT ![c] = d1]
             f2 == [f1 EXCEPT ![c].phase = "alive"]
             f3 == [f2 EXCEPT ![c].owner.closure = "held"]
  <1>3. call' = f3
    BY <1>2, Zenon
  <1>4. f1 = [b \in Calls |-> IF b = c THEN d1 ELSE call[b]]
    <2> HIDE DEF d1
    <2> QED
      BY <1>1
  <1>5. f2 = [b \in Calls |-> IF b = c THEN d2 ELSE call[b]]
    <2> HIDE DEF d1, f1
    <2> QED
      BY <1>4
  <1>6. f3 = [b \in Calls |-> IF b = c THEN d3 ELSE call[b]]
    <2> HIDE DEF d1, d2, f1, f2
    <2> QED
      BY <1>5
  <1>7. f3 = [call EXCEPT ![c] = d3]
    <2> HIDE DEF d1, d2, d3, f1, f2, f3
    <2> QED
      BY <1>1, <1>6
  <1> QED
    BY <1>3, <1>7, Zenon

LEMMA TakeStep ==
    ASSUME IInv, NEW t \in IoThreads, TakeReceivedCall(t)
    PROVE  IInv'
  <1>1. PICK m \in Methods : m = io[t].method /\ io[t].pc = "take"
    BY DEF TakeReceivedCall, IInv, ThreadInv
  <1>2. PICK c \in Calls : c = receivedCall[m] /\ call[c].method = m /\ call[c].phase = "receiving"
    <2>1. Expecting(m)
      BY <1>1 DEF Expecting
    <2> QED
      BY <2>1 DEF IInv, ReceivedCallInv
  <1> DEFINE e == [call[c] EXCEPT !.refCount = @ + 1, !.phase = "alive", !.owner.closure = "held"]
             r == [io[t] EXCEPT !.pc = "reset", !.call = c]
  <1>3. call[c] \in Impl /\ CallInv(call[c]) /\ io[t] \in Threads
    BY DEF IInv, ServerTypeOK
  <1>4. /\ call' = [call EXCEPT ![c] = e] /\ io' = [io EXCEPT ![t] = r]
        /\ receivedCall' = [receivedCall EXCEPT ![m] = None]
        /\ UNCHANGED <<server, registered, cq>>
    <2>1. call' = [call EXCEPT ![c] = e]
      BY <1>1, <1>2, TakenCall DEF IInv
    <2>2. io' = [io EXCEPT ![t] = r]
      <3>1. io \in [IoThreads -> Threads]
        BY DEF IInv, ServerTypeOK
      <3>2. io' = [io EXCEPT ![t].pc = "reset", ![t].call = c]
        BY <1>1, <1>2 DEF TakeReceivedCall
      <3> QED
        BY <3>1, <3>2 DEF Threads
    <2>3. receivedCall' = [receivedCall EXCEPT ![m] = None] /\ UNCHANGED <<server, registered, cq>>
      BY <1>1 DEF TakeReceivedCall
    <2> QED
      BY <2>1, <2>2, <2>3
  <1>5. e \in Impl /\ CallInv(e)
    BY <1>2, <1>3, TakeInv
  <1>6. /\ e.callback = call[c].callback /\ e.tag = call[c].tag /\ e.method = m /\ e.phase = "alive"
        /\ r \in Threads /\ r.pc = "reset" /\ r.call = c /\ r.method = m
    BY <1>1, <1>2, <1>3 DEF Impl, Threads, ThreadPcs
  <1>7. call[c].callback = "none" /\ call[c].tag = "none"
    BY <1>2, <1>3, CallFacts DEF OwnerNames
  <1> HIDE DEF e, r
  <1>8. call'[c] = e /\ \A b \in Calls : b # c => call'[b] = call[b]
    BY <1>4 DEF IInv, ServerTypeOK
  <1>9. \A s \in IoThreads : io'[s] = IF s = t THEN r ELSE io[s]
    BY <1>4 DEF IInv, ServerTypeOK
  <1>10. receivedCall'[m] = None /\ \A n \in Methods : n # m => receivedCall'[n] = receivedCall[n]
    BY <1>4 DEF IInv, ServerTypeOK
  <1>11. \A s \in IoThreads, n \in Methods : InReceive(s, n)' <=> InReceive(s, n)
    BY <1>1, <1>6, <1>9 DEF InReceive
  <1>12. \A n \in Methods : Queued(n)' <=> Queued(n)
    BY <1>4 DEF Queued
  <1>13. \A n \in Methods : Expecting(n)' => Expecting(n)
    BY <1>4, <1>6, <1>9, <1>12 DEF Expecting
  <1>14. ~Expecting(m)'
    <2>1. InReceive(t, m)
      BY <1>1 DEF InReceive
    <2>2. m \notin registered /\ ~Queued(m) /\ \A s \in IoThreads : InReceive(s, m) => s = t
      BY <2>1 DEF IInv, TokenInv
    <2> QED
      BY <2>2, <1>4, <1>6, <1>9, <1>12 DEF Expecting, InReceive
  <1>15. ServerTypeOK'
    BY <1>4, <1>5, <1>6 DEF IInv, ServerTypeOK
  <1>16. (\A b \in Calls : CallInv(call[b]))' /\ FreshInv'
    BY <1>5, <1>6, <1>8, NoneAssumption DEF IInv, FreshInv
  <1>17. SentInv'
    BY <1>4, <1>6, <1>7, <1>8 DEF IInv, SentInv
  <1>18. TokenInv'
    BY <1>4, <1>11, <1>12 DEF IInv, TokenInv
  <1>19. ThreadInv'
    <2>1. \A s \in IoThreads : /\ io[s].pc \in BeforeSchedule => io[s].call # c
                               /\ io[s].pc = "sent" => io[s].call # c
                               /\ io[s].pc = "destroyClosure" => io[s].call # c
      BY <1>2, <1>7 DEF IInv, ThreadInv
    <2> QED
      BY <2>1, <1>4, <1>6, <1>7, <1>8, <1>9 DEF IInv, ThreadInv, BeforeSchedule
  <1>20. ReceivedCallInv'
    <2>1. \A n \in Methods : n # m /\ receivedCall[n] \in Calls => receivedCall[n] # c
      BY <1>2 DEF IInv, ReceivedCallInv
    <2> QED
      BY <2>1, <1>8, <1>10, <1>13, <1>14, NoneAssumption DEF IInv, ReceivedCallInv
  <1>21. ServerInv'
    <2>1. ~Answered
      BY <1>1 DEF Answered
    <2> QED
      BY <2>1, <1>4, <1>6, <1>9, ServerWaits, WaitingInv DEF IInv, ServerInv
  <1> QED
    BY <1>15, <1>16, <1>17, <1>18, <1>19, <1>20, <1>21 DEF IInv

(* The constructor of the next call: it was never allocated.               *)
LEMMA NewCallFacts ==
    ASSUME IInv, NEW m \in Methods, NewCall(m)
    PROVE  \E c \in Calls :
             /\ call[c] = NewImpl(None)
             /\ receivedCall' = [receivedCall EXCEPT ![m] = c]
             /\ call' = [call EXCEPT ![c] = NewImpl(m)]
             /\ call'[c] = NewImpl(m) /\ \A b \in Calls : b # c => call'[b] = call[b]
             /\ \A n \in Methods : receivedCall'[n] = IF n = m THEN c ELSE receivedCall[n]
             /\ \A n \in Methods : receivedCall[n] # c
             /\ \A s \in IoThreads : io[s].pc \in BeforeSchedule \cup {"sent", "destroyClosure"} => io[s].call # c
  <1>1. PICK c \in Calls \ Allocated : /\ receivedCall' = [receivedCall EXCEPT ![m] = c]
                                       /\ call' = [call EXCEPT ![c] = NewImpl(m)]
    BY DEF NewCall
  <1>2. call[c] = NewImpl(None)
    BY <1>1 DEF Allocated, IInv, FreshInv
  <1>3. call[c].method = None /\ call[c].phase = "receiving" /\ call[c].callback = "none" /\ call[c].tag = "none"
    BY <1>2 DEF NewImpl
  <1>4. call'[c] = NewImpl(m) /\ \A b \in Calls : b # c => call'[b] = call[b]
    BY <1>1 DEF IInv, ServerTypeOK
  <1>5. \A n \in Methods : receivedCall'[n] = IF n = m THEN c ELSE receivedCall[n]
    BY <1>1 DEF IInv, ServerTypeOK
  <1>6. \A n \in Methods : receivedCall[n] # c
    BY <1>1, <1>3, NoneAssumption DEF IInv, ReceivedCallInv
  <1>7. \A s \in IoThreads : io[s].pc \in BeforeSchedule \cup {"sent", "destroyClosure"} => io[s].call # c
    BY <1>3 DEF IInv, ThreadInv
  <1> QED
    BY <1>1, <1>2, <1>4, <1>5, <1>6, <1>7

LEMMA NewImplFields ==
    ASSUME NEW m
    PROVE  /\ NewImpl(m).method = m /\ NewImpl(m).phase = "receiving" /\ NewImpl(m).callback = "none"
           /\ NewImpl(m).tag = "none"
  BY DEF NewImpl

LEMMA ResetStep ==
    ASSUME IInv, NEW t \in IoThreads, ResetReceivedCall(t)
    PROVE  IInv'
  <1>1. PICK m \in Methods : m = io[t].method /\ io[t].pc = "reset"
    BY DEF ResetReceivedCall, IInv, ThreadInv, BeforeSchedule
  <1>2. NewCall(m)
    BY <1>1 DEF ResetReceivedCall
  <1>3. PICK c \in Calls :
             /\ call[c] = NewImpl(None)
             /\ receivedCall' = [receivedCall EXCEPT ![m] = c]
             /\ call' = [call EXCEPT ![c] = NewImpl(m)]
             /\ call'[c] = NewImpl(m) /\ \A b \in Calls : b # c => call'[b] = call[b]
             /\ \A n \in Methods : receivedCall'[n] = IF n = m THEN c ELSE receivedCall[n]
             /\ \A n \in Methods : receivedCall[n] # c
             /\ \A s \in IoThreads : io[s].pc \in BeforeSchedule \cup {"sent", "destroyClosure"} => io[s].call # c
    BY <1>2, NewCallFacts
  <1> DEFINE r == [io[t] EXCEPT !.pc = "rearm"]
  <1>4. io' = [io EXCEPT ![t] = r] /\ UNCHANGED <<server, registered, cq>>
    BY DEF ResetReceivedCall
  <1>5. io[t] \in Threads
    BY DEF IInv, ServerTypeOK
  <1>6. r \in Threads /\ r.pc = "rearm" /\ r.call = io[t].call /\ r.method = m
    BY <1>1, <1>5 DEF Threads, ThreadPcs
  <1> HIDE DEF r
  <1>7. \A s \in IoThreads : io'[s] = IF s = t THEN r ELSE io[s]
    BY <1>4 DEF IInv, ServerTypeOK
  <1>8. \A s \in IoThreads, n \in Methods : InReceive(s, n)' <=> InReceive(s, n)
    BY <1>1, <1>6, <1>7 DEF InReceive
  <1>9. \A n \in Methods : Queued(n)' <=> Queued(n)
    BY <1>4 DEF Queued
  <1>10. \A n \in Methods : n # m => (Expecting(n)' <=> Expecting(n))
    BY <1>1, <1>4, <1>6, <1>7, <1>9 DEF Expecting
  <1>11. NewImpl(m) \in Impl /\ CallInv(NewImpl(m))
    BY NewImplInv
  <1>12. ServerTypeOK'
    BY <1>3, <1>4, <1>6, <1>11 DEF IInv, ServerTypeOK
  <1>13. (\A b \in Calls : CallInv(call[b]))' /\ FreshInv'
    BY <1>3, <1>11, NewImplFields, NoneAssumption DEF IInv, FreshInv
  <1>14. SentInv'
    <2>1. Sent(c) \notin cq
      BY <1>3, NewImplFields DEF IInv, SentInv
    <2> QED
      BY <2>1, <1>3, <1>4 DEF IInv, SentInv
  <1>15. TokenInv'
    BY <1>4, <1>8, <1>9 DEF IInv, TokenInv
  <1>16. ThreadInv'
    BY <1>1, <1>3, <1>4, <1>6, <1>7 DEF IInv, ThreadInv, BeforeSchedule
  <1>17. ReceivedCallInv'
    BY <1>3, <1>10, NewImplFields DEF IInv, ReceivedCallInv
  <1>18. ServerInv'
    <2>1. ~Answered
      BY <1>1, ReceivingThread DEF BeforeSchedule
    <2> QED
      BY <2>1, <1>4, <1>6, <1>7, ServerWaits, WaitingInv DEF IInv, ServerInv
  <1> QED
    BY <1>12, <1>13, <1>14, <1>15, <1>16, <1>17, <1>18 DEF IInv

LEMMA ReceivesDiffer ==
    /\ \A m, n : Received(n, TRUE) # Received(m, FALSE)
    /\ \A m, n : Received(n, FALSE) = Received(m, FALSE) => n = m
    /\ \A m, n : Received(n, TRUE) = Received(m, TRUE) => n = m
    /\ \A m, c : Sent(c) # Received(m, FALSE) /\ Sent(c) # Received(m, TRUE)
  BY DEF Received, Sent

(* RequestAsyncUnary hands the receive of one method to gRPC.              *)
LEMMA RequestFacts ==
    ASSUME IInv, NEW m \in Methods, RequestAsyncUnary(m)
    PROVE  /\ registered' \subseteq Methods /\ cq' \subseteq Events
           /\ m \notin registered /\ ~Queued(m) =>
                /\ ~(m \in registered' /\ Queued(m)')
                /\ ~(Received(m, TRUE) \in cq' /\ Received(m, FALSE) \in cq')
           /\ \A n \in Methods : n # m => /\ Queued(n)' <=> Queued(n)
                                          /\ n \in registered' <=> n \in registered
                                          /\ Received(n, TRUE) \in cq' <=> Received(n, TRUE) \in cq
                                          /\ Received(n, FALSE) \in cq' <=> Received(n, FALSE) \in cq
           /\ \A c \in Calls : Sent(c) \in cq' <=> Sent(c) \in cq
           /\ Received(m, TRUE) \in cq' <=> Received(m, TRUE) \in cq
           /\ server \notin {"starting", "up"} => registered' = registered
           /\ server \in {"starting", "up"} => cq' = cq
  <1>1. CASE server \in {"starting", "up"}
    <2>1. registered' = registered \cup {m} /\ cq' = cq
      BY <1>1 DEF RequestAsyncUnary
    <2>2. \A n \in Methods : Queued(n)' <=> Queued(n)
      BY <2>1 DEF Queued
    <2>3. ~Queued(m) => ~Queued(m)' /\ ~(Received(m, TRUE) \in cq' /\ Received(m, FALSE) \in cq')
      BY <2>1, <2>2 DEF Queued
    <2> QED
      BY <1>1, <2>1, <2>2, <2>3 DEF IInv, ServerTypeOK
  <1>2. CASE server \notin {"starting", "up"}
    <2>1. registered' = registered /\ cq' = cq \cup {Received(m, FALSE)}
      BY <1>2 DEF RequestAsyncUnary
    <2>2. /\ Received(m, FALSE) \in Events
          /\ \A n \in Methods : Received(n, TRUE) \in cq' <=> Received(n, TRUE) \in cq
          /\ \A n \in Methods : n # m => (Received(n, FALSE) \in cq' <=> Received(n, FALSE) \in cq)
          /\ \A c \in Calls : Sent(c) \in cq' <=> Sent(c) \in cq
      <3>1. Received(m, FALSE) \in Events
        BY DEF Events
      <3> QED
        BY <2>1, <3>1, ReceivesDiffer
    <2>3. \A n \in Methods : n # m => (Queued(n)' <=> Queued(n))
      BY <2>2 DEF Queued
    <2>4. ~Queued(m) => ~(Received(m, TRUE) \in cq' /\ Received(m, FALSE) \in cq')
      BY <2>2 DEF Queued
    <2> QED
      BY <1>2, <2>1, <2>2, <2>3, <2>4 DEF IInv, ServerTypeOK
  <1> QED
    BY <1>1, <1>2

LEMMA RearmStep ==
    ASSUME IInv, NEW t \in IoThreads, Rearm(t)
    PROVE  IInv'
  <1>1. PICK m \in Methods : m = io[t].method /\ io[t].pc = "rearm"
    BY DEF Rearm, IInv, ThreadInv, BeforeSchedule
  <1> DEFINE r == [io[t] EXCEPT !.pc = "schedule"]
  <1>2. RequestAsyncUnary(m) /\ io' = [io EXCEPT ![t] = r] /\ UNCHANGED <<server, receivedCall, call>>
    BY <1>1 DEF Rearm
  <1>3. io[t] \in Threads
    BY DEF IInv, ServerTypeOK
  <1>4. r \in Threads /\ r.pc = "schedule" /\ r.call = io[t].call /\ r.method = m
    BY <1>1, <1>3 DEF Threads, ThreadPcs
  <1> HIDE DEF r
  <1>5. \A s \in IoThreads : io'[s] = IF s = t THEN r ELSE io[s]
    BY <1>2 DEF IInv, ServerTypeOK
  <1>6. m \notin registered /\ ~Queued(m) /\ \A s \in IoThreads : InReceive(s, m) => s = t
    <2>1. InReceive(t, m)
      BY <1>1 DEF InReceive
    <2> QED
      BY <2>1 DEF IInv, TokenInv
  <1>7. \A s \in IoThreads, n \in Methods : InReceive(s, n)' <=> InReceive(s, n) /\ n # m
    BY <1>1, <1>4, <1>5, <1>6 DEF InReceive
  <1>8. \A n \in Methods : n # m => (Expecting(n)' <=> Expecting(n))
    <2> SUFFICES ASSUME NEW n \in Methods, n # m PROVE Expecting(n)' <=> Expecting(n)
      OBVIOUS
    <2>1. (Queued(n)' <=> Queued(n)) /\ (n \in registered' <=> n \in registered)
      BY <1>2, RequestFacts
    <2>2. (\E s \in IoThreads : io'[s].pc \in {"take", "rearm"} /\ io'[s].method = n)
            <=> (\E s \in IoThreads : io[s].pc \in {"take", "rearm"} /\ io[s].method = n)
      BY <1>1, <1>4, <1>5
    <2> QED
      BY <2>1, <2>2 DEF Expecting
  <1>9. Expecting(m)
    BY <1>1 DEF Expecting
  <1>10. ServerTypeOK'
    BY <1>2, <1>4, RequestFacts DEF IInv, ServerTypeOK
  <1>11. (\A b \in Calls : CallInv(call[b]))' /\ FreshInv'
    BY <1>2 DEF IInv, FreshInv
  <1>12. SentInv'
    BY <1>2, RequestFacts DEF IInv, SentInv
  <1>13. TokenInv'
    <2> SUFFICES ASSUME NEW n \in Methods
                 PROVE  /\ n \in registered' => ~Queued(n)'
                        /\ ~(Received(n, TRUE) \in cq' /\ Received(n, FALSE) \in cq')
                        /\ \A s \in IoThreads : InReceive(s, n)' => n \notin registered' /\ ~Queued(n)'
                        /\ \A s, u \in IoThreads : InReceive(s, n)' /\ InReceive(u, n)' => s = u
      BY DEF TokenInv
    <2>1. CASE n = m
      BY <2>1, <1>2, <1>6, <1>7, RequestFacts
    <2>2. CASE n # m
      BY <2>2, <1>2, <1>7, RequestFacts DEF IInv, TokenInv
    <2> QED
      BY <2>1, <2>2
  <1>14. ThreadInv'
    <2>1. \A c \in Calls : Sent(c) \in cq' <=> Sent(c) \in cq
      BY <1>2, RequestFacts
    <2> QED
      BY <2>1, <1>1, <1>2, <1>4, <1>5 DEF IInv, ThreadInv, BeforeSchedule
  <1>15. ReceivedCallInv'
    BY <1>2, <1>8, <1>9 DEF IInv, ReceivedCallInv
  <1>16. ServerInv'
    <2>1. ~Answered
      BY <1>1, ReceivingThread DEF BeforeSchedule
    <2>2. server \in {"starting", "up", "shutdown"} /\ \A s \in IoThreads : io'[s].pc # "exited"
      BY <2>1, <1>4, <1>5, ServerWaits
    <2>3. server = "shutdown" => registered' = {}
      BY <1>2, RequestFacts DEF IInv, ServerInv
    <2> QED
      BY <2>2, <2>3, <1>2, WaitingInv DEF IInv
  <1> QED
    BY <1>10, <1>11, <1>12, <1>13, <1>14, <1>15, <1>16 DEF IInv
(* The queue hands an event to a thread, or gains one of one method.       *)
LEMMA NextEventStep ==
    ASSUME IInv, NEW t \in IoThreads, NextEvent(t)
    PROVE  IInv'
  <1> DEFINE After(x) == CASE x.kind = "sent" -> [Idle EXCEPT !.pc = "sent", !.call = x.call]
                           [] x.kind = "received" /\ x.ok -> [Idle EXCEPT !.pc = "take", !.method = x.method]
                           [] OTHER -> Idle
  <1>1. PICK e \in cq : cq' = cq \ {e} /\ io' = [io EXCEPT ![t] = After(e)]
    BY DEF NextEvent
  <1>2. io[t].pc = "polling" /\ UNCHANGED <<server, receivedCall, registered, call>>
    BY DEF NextEvent
  <1>3. cq # {} /\ \A s \in IoThreads : io[s].pc # "exited"
    BY <1>1 DEF IInv, ServerInv
  <1>4. \A r : After(e) = r => \A s \in IoThreads : io'[s] = IF s = t THEN r ELSE io[s]
    BY <1>1 DEF IInv, ServerTypeOK
  <1>5. e \in Events
    BY <1>1 DEF IInv, ServerTypeOK
  <1>6. (\A b \in Calls : CallInv(call[b]))' /\ FreshInv' /\ SentInv'
    BY <1>1, <1>2 DEF IInv, FreshInv, SentInv
  <1>7. ASSUME NEW m \in Methods, e = Received(m, TRUE)
        PROVE  IInv'
    <2> DEFINE r == [Idle EXCEPT !.pc = "take", !.method = m]
    <2>1. After(e) = r
      <3>1. e.kind = "received" /\ e.ok = TRUE /\ e.method = m
        BY <1>7, EventShape
      <3> QED
        BY <3>1
    <2>2. r \in Threads /\ r.pc = "take" /\ r.method = m
      BY DEF Idle, Threads, ThreadPcs
    <2>3. io' = [io EXCEPT ![t] = r]
      BY <1>1, <2>1
    <2> HIDE DEF r, After
    <2>4. \A s \in IoThreads : io'[s] = IF s = t THEN r ELSE io[s]
      BY <1>4, <2>1
    <2>5. /\ \A n \in Methods : Received(n, TRUE) \in cq' <=> Received(n, TRUE) \in cq /\ n # m
          /\ \A n \in Methods : Received(n, FALSE) \in cq' <=> Received(n, FALSE) \in cq
          /\ \A c \in Calls : Sent(c) \in cq' <=> Sent(c) \in cq
      BY <1>1, <1>7, ReceivesDiffer
    <2>6. Queued(m) /\ Received(m, FALSE) \notin cq /\ m \notin registered
      BY <1>1, <1>7 DEF Queued, IInv, TokenInv
    <2>7. /\ \A n \in Methods : n # m => (Queued(n)' <=> Queued(n))
          /\ ~Queued(m)'
      BY <2>5, <2>6 DEF Queued
    <2>8. /\ \A s \in IoThreads, n \in Methods : InReceive(s, n)' <=> InReceive(s, n) \/ (s = t /\ n = m)
          /\ \A s \in IoThreads : ~InReceive(s, m)
      <3>1. \A s \in IoThreads : ~InReceive(s, m)
        BY <2>6 DEF IInv, TokenInv
      <3> QED
        BY <3>1, <1>2, <2>2, <2>4 DEF InReceive
    <2>9. \A n \in Methods : Expecting(n)' => Expecting(n)
      BY <1>2, <2>2, <2>4, <2>6, <2>7 DEF Expecting
    <2>10. ServerTypeOK'
      BY <1>1, <1>2, <2>2, <2>3 DEF IInv, ServerTypeOK
    <2>11. ThreadInv'
      BY <1>2, <2>2, <2>4, <2>5 DEF IInv, ThreadInv, BeforeSchedule
    <2>12. TokenInv'
      <3> SUFFICES ASSUME NEW n \in Methods
                   PROVE  /\ n \in registered' => ~Queued(n)'
                          /\ ~(Received(n, TRUE) \in cq' /\ Received(n, FALSE) \in cq')
                          /\ \A s \in IoThreads : InReceive(s, n)' => n \notin registered' /\ ~Queued(n)'
                          /\ \A s, u \in IoThreads : InReceive(s, n)' /\ InReceive(u, n)' => s = u
        BY DEF TokenInv
      <3>1. CASE n = m
        BY <3>1, <1>2, <2>5, <2>6, <2>7, <2>8
      <3>2. CASE n # m
        BY <3>2, <1>2, <2>5, <2>7, <2>8 DEF IInv, TokenInv
      <3> QED
        BY <3>1, <3>2
    <2>13. ReceivedCallInv'
      BY <1>2, <2>9 DEF IInv, ReceivedCallInv
    <2>14. ServerInv'
      <3>1. ~Answered
        BY <1>1, <1>7 DEF Answered
      <3> QED
        BY <3>1, <1>2, <2>2, <2>4, ServerWaits, WaitingInv DEF IInv, ServerInv
    <2> QED
      BY <1>6, <2>10, <2>11, <2>12, <2>13, <2>14 DEF IInv
  <1>8. ASSUME NEW m \in Methods, e = Received(m, FALSE)
        PROVE  IInv'
    <2>1. After(e) = Idle
      <3>1. e.kind = "received" /\ e.ok = FALSE
        BY <1>8, EventShape
      <3> QED
        BY <3>1
    <2>2. io' = [io EXCEPT ![t] = Idle]
      BY <1>1, <2>1
    <2> HIDE DEF After
    <2>3. \A s \in IoThreads : io'[s] = IF s = t THEN Idle ELSE io[s]
      BY <1>4, <2>1
    <2>4. /\ \A n \in Methods : Received(n, TRUE) \in cq' <=> Received(n, TRUE) \in cq
          /\ \A n \in Methods : Received(n, FALSE) \in cq' => Received(n, FALSE) \in cq
          /\ \A c \in Calls : Sent(c) \in cq' <=> Sent(c) \in cq
      BY <1>1, <1>8, ReceivesDiffer
    <2>5. \A n \in Methods : Queued(n)' => Queued(n)
      BY <2>4 DEF Queued
    <2>6. \A s \in IoThreads, n \in Methods : InReceive(s, n)' <=> InReceive(s, n)
      BY <1>2, <2>3, IdleShape DEF InReceive
    <2>7. \A n \in Methods : Expecting(n)' => Expecting(n)
      BY <1>2, <2>3, <2>5, IdleShape DEF Expecting
    <2>8. ServerTypeOK'
      BY <1>1, <1>2, <2>2, IdleShape DEF IInv, ServerTypeOK
    <2>9. ThreadInv'
      BY <1>2, <2>3, <2>4, IdleShape DEF IInv, ThreadInv, BeforeSchedule
    <2>10. TokenInv'
      BY <1>2, <2>4, <2>5, <2>6 DEF IInv, TokenInv
    <2>11. ReceivedCallInv'
      BY <1>2, <2>7 DEF IInv, ReceivedCallInv
    <2>12. ServerInv'
      BY <1>1, <1>2, <1>3, <2>3, IdleShape, ServerKept DEF IInv
    <2> QED
      BY <1>6, <2>8, <2>9, <2>10, <2>11, <2>12 DEF IInv
  <1>9. ASSUME NEW c \in Calls, e = Sent(c)
        PROVE  IInv'
    <2> DEFINE r == [Idle EXCEPT !.pc = "sent", !.call = c]
    <2>1. After(e) = r
      <3>1. e.kind = "sent" /\ e.call = c
        BY <1>9, EventShape
      <3> QED
        BY <3>1
    <2>2. r \in Threads /\ r.pc = "sent" /\ r.call = c
      BY DEF Idle, Threads, ThreadPcs
    <2>3. io' = [io EXCEPT ![t] = r]
      BY <1>1, <2>1
    <2> HIDE DEF r, After
    <2>4. \A s \in IoThreads : io'[s] = IF s = t THEN r ELSE io[s]
      BY <1>4, <2>1
    <2>5. /\ \A n \in Methods : Received(n, TRUE) \in cq' <=> Received(n, TRUE) \in cq
          /\ \A n \in Methods : Received(n, FALSE) \in cq' <=> Received(n, FALSE) \in cq
          /\ \A b \in Calls : Sent(b) \in cq' <=> Sent(b) \in cq /\ b # c
      BY <1>1, <1>9, ReceivesDiffer, EventsDiffer
    <2>6. \A n \in Methods : Queued(n)' <=> Queued(n)
      BY <2>5 DEF Queued
    <2>7. \A s \in IoThreads, n \in Methods : InReceive(s, n)' <=> InReceive(s, n)
      BY <1>2, <2>2, <2>4 DEF InReceive
    <2>8. \A n \in Methods : Expecting(n)' => Expecting(n)
      BY <1>2, <2>2, <2>4, <2>6 DEF Expecting
    <2>9. ServerTypeOK'
      BY <1>1, <1>2, <2>2, <2>3 DEF IInv, ServerTypeOK
    <2>10. ThreadInv'
      <3>1. call[c].tag = "queued" /\ Sent(c) \in cq
        BY <1>1, <1>9 DEF IInv, SentInv
      <3>2. \A s \in IoThreads : io[s].pc = "sent" => io[s].call # c
        BY <3>1 DEF IInv, ThreadInv
      <3> QED
        BY <3>1, <3>2, <1>2, <2>2, <2>4, <2>5 DEF IInv, ThreadInv, BeforeSchedule
    <2>11. TokenInv'
      BY <1>2, <2>5, <2>6, <2>7 DEF IInv, TokenInv
    <2>12. ReceivedCallInv'
      BY <1>2, <2>8 DEF IInv, ReceivedCallInv
    <2>13. ServerInv'
      BY <1>1, <1>2, <1>3, <2>2, <2>4, ServerKept DEF IInv
    <2> QED
      BY <1>6, <2>9, <2>10, <2>11, <2>12, <2>13 DEF IInv
  <1> HIDE DEF After
  <1> QED
    BY <1>5, <1>7, <1>8, <1>9, EventCases

-----------------------------------------------------------------------------
(* Starting the server, the arrival of a request, and shutting down.       *)
LEMMA StartMethodStep ==
    ASSUME IInv, NEW m \in Methods, StartMethod(m)
    PROVE  IInv'
  <1>1. /\ server = "starting" /\ \A c \in Calls : call[c].method # m
        /\ NewCall(m) /\ RequestAsyncUnary(m) /\ UNCHANGED <<server, io>>
    BY DEF StartMethod
  <1>2. PICK c \in Calls :
             /\ call[c] = NewImpl(None)
             /\ receivedCall' = [receivedCall EXCEPT ![m] = c]
             /\ call' = [call EXCEPT ![c] = NewImpl(m)]
             /\ call'[c] = NewImpl(m) /\ \A b \in Calls : b # c => call'[b] = call[b]
             /\ \A n \in Methods : receivedCall'[n] = IF n = m THEN c ELSE receivedCall[n]
             /\ \A n \in Methods : receivedCall[n] # c
             /\ \A s \in IoThreads : io[s].pc \in BeforeSchedule \cup {"sent", "destroyClosure"} => io[s].call # c
    BY <1>1, NewCallFacts
  <1>3. registered' = registered \cup {m} /\ cq' = cq
    BY <1>1 DEF RequestAsyncUnary
  <1>4. ~Expecting(m) /\ \A s \in IoThreads : ~InReceive(s, m)
    <2>1. ~Expecting(m)
      BY <1>1 DEF IInv, ReceivedCallInv
    <2>2. \A s \in IoThreads : ~(io[s].pc = "reset" /\ io[s].method = m)
      BY <1>1 DEF IInv, ThreadInv, BeforeSchedule
    <2> QED
      BY <2>1, <2>2 DEF Expecting, InReceive
  <1>5. ~Queued(m) /\ m \notin registered
    BY <1>4 DEF Expecting
  <1>6. \A n \in Methods : Queued(n)' <=> Queued(n)
    BY <1>3 DEF Queued
  <1>7. \A s \in IoThreads, n \in Methods : InReceive(s, n)' <=> InReceive(s, n)
    BY <1>1 DEF InReceive
  <1>8. \A n \in Methods : n # m => (Expecting(n)' <=> Expecting(n))
    BY <1>1, <1>3, <1>6 DEF Expecting
  <1>9. NewImpl(m) \in Impl /\ CallInv(NewImpl(m))
    BY NewImplInv
  <1>10. ServerTypeOK'
    BY <1>1, <1>2, <1>3, <1>9 DEF IInv, ServerTypeOK
  <1>11. (\A b \in Calls : CallInv(call[b]))' /\ FreshInv'
    BY <1>2, <1>9, NewImplFields, NoneAssumption DEF IInv, FreshInv
  <1>12. SentInv'
    <2>1. Sent(c) \notin cq
      BY <1>2, NewImplFields DEF IInv, SentInv
    <2> QED
      BY <2>1, <1>2, <1>3 DEF IInv, SentInv
  <1>13. TokenInv'
    BY <1>3, <1>4, <1>5, <1>6, <1>7 DEF IInv, TokenInv
  <1>14. ThreadInv'
    BY <1>1, <1>2, <1>3 DEF IInv, ThreadInv, BeforeSchedule
  <1>15. ReceivedCallInv'
    BY <1>2, <1>8, NewImplFields DEF IInv, ReceivedCallInv
  <1>16. ServerInv'
    BY <1>1, <1>3 DEF IInv, ServerInv
  <1> QED
    BY <1>10, <1>11, <1>12, <1>13, <1>14, <1>15, <1>16 DEF IInv

LEMMA RequestArrivesStep ==
    ASSUME IInv, NEW m \in Methods, RequestArrives(m)
    PROVE  IInv'
  <1>1. /\ server \in {"starting", "up"} /\ m \in registered
        /\ registered' = registered \ {m} /\ cq' = cq \cup {Received(m, TRUE)}
        /\ UNCHANGED <<server, receivedCall, io, call>>
    BY DEF RequestArrives
  <1>2. Received(m, TRUE) \in Events
    BY DEF Events
  <1>3. /\ \A n \in Methods : n # m => (Received(n, TRUE) \in cq' <=> Received(n, TRUE) \in cq)
        /\ \A n \in Methods : Received(n, FALSE) \in cq' <=> Received(n, FALSE) \in cq
        /\ \A c \in Calls : Sent(c) \in cq' <=> Sent(c) \in cq
    BY <1>1, ReceivesDiffer
  <1>4. ~Queued(m) /\ \A s \in IoThreads : ~InReceive(s, m)
    BY <1>1 DEF IInv, TokenInv
  <1>5. \A n \in Methods : n # m => (Queued(n)' <=> Queued(n))
    BY <1>3 DEF Queued
  <1>6. \A s \in IoThreads, n \in Methods : InReceive(s, n)' <=> InReceive(s, n)
    BY <1>1 DEF InReceive
  <1>7. \A n \in Methods : Expecting(n)' => Expecting(n)
    BY <1>1, <1>5 DEF Expecting
  <1>8. ServerTypeOK'
    BY <1>1, <1>2 DEF IInv, ServerTypeOK
  <1>9. (\A b \in Calls : CallInv(call[b]))' /\ FreshInv'
    BY <1>1 DEF IInv, FreshInv
  <1>10. SentInv'
    BY <1>1, <1>3 DEF IInv, SentInv
  <1>11. ThreadInv'
    BY <1>1, <1>3 DEF IInv, ThreadInv
  <1>12. TokenInv'
    <2> SUFFICES ASSUME NEW n \in Methods
                 PROVE  /\ n \in registered' => ~Queued(n)'
                        /\ ~(Received(n, TRUE) \in cq' /\ Received(n, FALSE) \in cq')
                        /\ \A s \in IoThreads : InReceive(s, n)' => n \notin registered' /\ ~Queued(n)'
                        /\ \A s, u \in IoThreads : InReceive(s, n)' /\ InReceive(u, n)' => s = u
      BY DEF TokenInv
    <2>1. CASE n = m
      <3>1. m \notin registered' /\ Received(m, FALSE) \notin cq'
        BY <1>1, <1>3, <1>4 DEF Queued
      <3> QED
        BY <2>1, <3>1, <1>4, <1>6
    <2>2. CASE n # m
      BY <2>2, <1>1, <1>3, <1>5, <1>6 DEF IInv, TokenInv
    <2> QED
      BY <2>1, <2>2
  <1>13. ReceivedCallInv'
    BY <1>1, <1>7 DEF IInv, ReceivedCallInv
  <1>14. ServerInv'
    BY <1>1 DEF IInv, ServerInv
  <1> QED
    BY <1>8, <1>9, <1>10, <1>11, <1>12, <1>13, <1>14 DEF IInv

LEMMA ShutdownStep ==
    ASSUME IInv, Shutdown
    PROVE  IInv'
  <1>1. /\ server = "up" /\ server' = "shutdown" /\ registered' = {}
        /\ cq' = cq \cup {Received(m, FALSE) : m \in registered}
        /\ UNCHANGED <<receivedCall, io, call>>
    BY DEF Shutdown
  <1>2. registered \subseteq Methods
    BY DEF IInv, ServerTypeOK
  <1>3. cq' \subseteq Events
    <2>1. \A m \in Methods : Received(m, FALSE) \in Events
      BY DEF Events
    <2> QED
      BY <2>1, <1>1, <1>2 DEF IInv, ServerTypeOK
  <1>4. /\ \A n \in Methods : Received(n, TRUE) \in cq' <=> Received(n, TRUE) \in cq
        /\ \A n \in Methods : Received(n, FALSE) \in cq' <=> Received(n, FALSE) \in cq \/ n \in registered
        /\ \A c \in Calls : Sent(c) \in cq' <=> Sent(c) \in cq
    BY <1>1, ReceivesDiffer
  <1>5. \A n \in Methods : Queued(n)' <=> Queued(n) \/ n \in registered
    BY <1>4 DEF Queued
  <1>6. \A s \in IoThreads, n \in Methods : InReceive(s, n)' <=> InReceive(s, n)
    BY <1>1 DEF InReceive
  <1>7. \A n \in Methods : Expecting(n)' => Expecting(n)
    BY <1>1, <1>5 DEF Expecting
  <1>8. ServerTypeOK'
    BY <1>1, <1>3 DEF IInv, ServerTypeOK
  <1>9. (\A b \in Calls : CallInv(call[b]))' /\ FreshInv'
    BY <1>1 DEF IInv, FreshInv
  <1>10. SentInv' /\ ThreadInv'
    <2>1. SentInv'
      BY <1>1, <1>4 DEF IInv, SentInv
    <2>2. ThreadInv'
      BY <1>1, <1>4 DEF IInv, ThreadInv
    <2> QED
      BY <2>1, <2>2
  <1>11. TokenInv'
    <2> SUFFICES ASSUME NEW n \in Methods
                 PROVE  /\ ~(Received(n, TRUE) \in cq' /\ Received(n, FALSE) \in cq')
                        /\ \A s \in IoThreads : InReceive(s, n)' => ~Queued(n)'
                        /\ \A s, u \in IoThreads : InReceive(s, n)' /\ InReceive(u, n)' => s = u
      BY <1>1 DEF TokenInv
    <2>1. n \in registered => Received(n, TRUE) \notin cq
      BY DEF IInv, TokenInv, Queued
    <2> QED
      BY <2>1, <1>4, <1>5, <1>6 DEF IInv, TokenInv
  <1>12. ReceivedCallInv'
    BY <1>1, <1>7 DEF IInv, ReceivedCallInv
  <1>13. ServerInv'
    BY <1>1 DEF IInv, ServerInv
  <1> QED
    BY <1>8, <1>9, <1>10, <1>11, <1>12, <1>13 DEF IInv

(* A step of the server's construction or destruction that changes nothing *)
(* but how far it is.                                                      *)
LEMMA ServerOnly ==
    ASSUME IInv, server' \in {"starting", "up", "shutdown", "drained", "cqShutdown", "destroyed"},
           UNCHANGED <<receivedCall, registered, cq, io, call>>, ServerInv'
    PROVE  IInv'
  <1>1. ServerTypeOK'
    BY DEF IInv, ServerTypeOK
  <1>2. (\A b \in Calls : CallInv(call[b]))' /\ FreshInv' /\ SentInv' /\ ThreadInv'
    BY DEF IInv, FreshInv, SentInv, ThreadInv
  <1>3. TokenInv'
    BY DEF IInv, TokenInv, Queued, InReceive
  <1>4. ReceivedCallInv'
    BY DEF IInv, ReceivedCallInv, Expecting, Queued
  <1> QED
    BY <1>1, <1>2, <1>3, <1>4 DEF IInv

LEMMA StartedStep ==
    ASSUME IInv, Started
    PROVE  IInv'
  <1>1. ServerInv'
    BY DEF Started, IInv, ServerInv
  <1> QED
    BY <1>1, ServerOnly DEF Started

LEMMA ShutdownReturnsStep ==
    ASSUME IInv, ShutdownReturns
    PROVE  IInv'
  <1>1. /\ server = "shutdown" /\ server' = "drained" /\ ~AnswersPending
        /\ UNCHANGED <<receivedCall, registered, cq, io, call>>
    BY DEF ShutdownReturns
  <1>2. Answered
    <2>1. \A m \in Methods : Received(m, TRUE) \notin cq
      <3>1. ~\E e \in cq : e.kind = "received" /\ e.ok
        BY <1>1 DEF AnswersPending
      <3> QED
        BY <3>1, PendingShape DEF IInv, ServerTypeOK
    <2>2. \A t \in IoThreads : io[t].pc # "take"
      BY <1>1 DEF AnswersPending
    <2>3. \A c \in Calls : call[c].phase = "alive" => call[c].tag # "none"
      BY <1>1 DEF AnswersPending, IInv, CallInv, FlagInv
    <2> QED
      BY <2>1, <2>2, <2>3 DEF Answered
  <1>3. Answered'
    BY <1>1, <1>2 DEF Answered
  <1>4. ServerInv'
    BY <1>1, <1>3 DEF IInv, ServerInv
  <1> QED
    BY <1>1, <1>4, ServerOnly

LEMMA ShutdownIoManagerStep ==
    ASSUME IInv, ShutdownIoManager
    PROVE  IInv'
  <1>1. /\ server = "drained" /\ server' = "cqShutdown"
        /\ UNCHANGED <<receivedCall, registered, cq, io, call>>
    BY DEF ShutdownIoManager
  <1>2. Answered => Answered'
    BY <1>1 DEF Answered
  <1>3. ServerInv'
    BY <1>1, <1>2 DEF IInv, ServerInv
  <1> QED
    BY <1>1, <1>3, ServerOnly

LEMMA DestroyServicesStep ==
    ASSUME IInv, DestroyServices
    PROVE  IInv'
  <1> DEFINE X == {receivedCall[m] : m \in Methods}
  <1>1. /\ server = "cqShutdown" /\ server' = "destroyed" /\ \A t \in IoThreads : io[t].pc = "exited"
        /\ receivedCall' = [m \in Methods |-> None]
        /\ call' = [c \in Calls |-> IF c \in X THEN [call[c] EXCEPT !.phase = "discarded"] ELSE call[c]]
        /\ UNCHANGED <<registered, cq, io>>
    BY DEF DestroyServices
  <1>2. cq = {} /\ registered = {}
    BY <1>1, ThreadsAssumption DEF IInv, ServerInv
  <1>3. \A c \in Calls \cap X : call[c].phase = "receiving" /\ call[c].method \in Methods
    BY DEF IInv, ReceivedCallInv
  <1> HIDE DEF X
  <1>4. \A c \in Calls : /\ call'[c] \in Impl /\ CallInv(call'[c])
                         /\ call'[c].method = call[c].method /\ call'[c].tag = call[c].tag
                         /\ call'[c].phase = "alive" => call[c].phase = "alive"
                         /\ call[c].method = None => call'[c] = call[c]
    <2> SUFFICES ASSUME NEW c \in Calls
                 PROVE  /\ call'[c] \in Impl /\ CallInv(call'[c])
                        /\ call'[c].method = call[c].method /\ call'[c].tag = call[c].tag
                        /\ call'[c].phase = "alive" => call[c].phase = "alive"
                        /\ call[c].method = None => call'[c] = call[c]
      OBVIOUS
    <2>1. call[c] \in Impl /\ CallInv(call[c])
      BY DEF IInv, ServerTypeOK
    <2>2. CASE c \in X
      <3> DEFINE e == [call[c] EXCEPT !.phase = "discarded"]
      <3>1. call'[c] = e
        BY <1>1, <2>2
      <3>2. e \in Impl /\ CallInv(e)
        BY <1>3, <2>1, <2>2, DiscardInv
      <3>3. e.method = call[c].method /\ e.tag = call[c].tag /\ e.phase = "discarded" /\ call[c].method # None
        BY <1>3, <2>1, <2>2, NoneAssumption DEF Impl
      <3> HIDE DEF e
      <3> QED
        BY <3>1, <3>2, <3>3
    <2>3. CASE c \notin X
      BY <1>1, <2>1, <2>3
    <2> QED
      BY <2>2, <2>3
  <1>5. \A m \in Methods : ~Expecting(m)'
    BY <1>1, <1>2 DEF Expecting, Queued
  <1>6. ServerTypeOK'
    <2>1. call' \in [Calls -> Impl]
      BY <1>1, <1>4
    <2> QED
      BY <2>1, <1>1 DEF IInv, ServerTypeOK
  <1>7. (\A b \in Calls : CallInv(call[b]))' /\ FreshInv'
    BY <1>4 DEF IInv, FreshInv
  <1>8. SentInv' /\ ThreadInv'
    BY <1>1, <1>2 DEF SentInv, ThreadInv, BeforeSchedule
  <1>9. TokenInv'
    BY <1>1, <1>2 DEF TokenInv, Queued, InReceive
  <1>10. ReceivedCallInv'
    BY <1>1, <1>5, NoneAssumption DEF ReceivedCallInv
  <1>11. ServerInv'
    <2>1. Answered => Answered'
      BY <1>1, <1>4 DEF Answered
    <2> QED
      BY <2>1, <1>1, <1>2 DEF IInv, ServerInv
  <1> QED
    BY <1>6, <1>7, <1>8, <1>9, <1>10, <1>11 DEF IInv
-----------------------------------------------------------------------------
(* The invariant holds initially and every step keeps it.                  *)
LEMMA InitIInv == Init => IInv
  <1> SUFFICES ASSUME Init PROVE IInv
    OBVIOUS
  <1>1. /\ server = "starting" /\ receivedCall = [m \in Methods |-> None] /\ registered = {} /\ cq = {}
        /\ \A t \in IoThreads : io[t] = Idle
        /\ \A c \in Calls : call[c] = NewImpl(None)
    BY DEF Init
  <1>2. \A m \in Methods : ~Queued(m) /\ ~Expecting(m) /\ \A t \in IoThreads : ~InReceive(t, m)
    BY <1>1, IdleShape DEF Queued, Expecting, InReceive
  <1>3. ServerTypeOK
    BY NewImplInv, IdleShape DEF Init, ServerTypeOK
  <1>4. (\A c \in Calls : CallInv(call[c])) /\ FreshInv
    BY <1>1, NewImplInv DEF FreshInv
  <1>5. ThreadInv /\ SentInv
    BY <1>1, IdleShape DEF ThreadInv, SentInv, BeforeSchedule
  <1>6. TokenInv /\ ReceivedCallInv
    BY <1>1, <1>2, NoneAssumption DEF TokenInv, ReceivedCallInv
  <1>7. ServerInv
    BY <1>1, IdleShape, ThreadsAssumption DEF ServerInv
  <1> QED
    BY <1>3, <1>4, <1>5, <1>6, <1>7 DEF IInv

LEMMA StutterIInv ==
    ASSUME IInv, UNCHANGED vars
    PROVE  IInv'
  BY ServerOnly DEF vars, IInv, ServerTypeOK, ServerInv, Answered

LEMMA NextIInv == IInv /\ [Next]_vars => IInv'
  <1> SUFFICES ASSUME IInv, [Next]_vars PROVE IInv'
    OBVIOUS
  <1>1. ASSUME NEW m \in Methods, StartMethod(m) \/ RequestArrives(m) PROVE IInv'
    BY <1>1, StartMethodStep, RequestArrivesStep
  <1>2. CASE Started
    BY <1>2, StartedStep
  <1>3. ASSUME NEW t \in IoThreads, IoStep(t) PROVE IInv'
    BY <1>3, NextEventStep, TakeStep, ResetStep, RearmStep, ScheduleStep, ClosureDestroyedStep,
       ResponseSentStep, IoExitStep DEF IoStep
  <1>4. ASSUME NEW c \in Calls, CallbackStep(c) \/ Finish(c) PROVE IInv'
    <2>1. CASE Respond(c)
      BY <2>1, SendStep DEF Respond, OwnerNames, OwnerStates
    <2> QED
      BY <2>1, <1>4, RunClosureStep, EnterCallbackStep, FinishStep DEF CallbackStep
  <1>5. ASSUME NEW c \in Calls, NEW o \in OwnerNames, DropStep(c, o) PROVE IInv'
    <2>1. CASE RespondWithError(c, o)
      BY <2>1, SendStep DEF RespondWithError, OwnerStates
    <2> QED
      BY <2>1, <1>5, TryFinishWithErrorStep, FinishWithErrorStep, ReleaseStep DEF DropStep
  <1>6. CASE Shutdown
    BY <1>6, ShutdownStep
  <1>7. CASE Destructor
    BY <1>7, ShutdownReturnsStep, ShutdownIoManagerStep, DestroyServicesStep DEF Destructor
  <1>8. CASE Terminated \/ UNCHANGED vars
    BY <1>8, StutterIInv DEF Terminated
  <1> QED
    BY <1>1, <1>2, <1>3, <1>4, <1>5, <1>6, <1>7, <1>8 DEF Next

LEMMA Invariance == Spec => []IInv
  BY InitIInv, NextIInv, PTL DEF Spec

-----------------------------------------------------------------------------
LEMMA AtMostOne ==
    ASSUME NEW S, \A x, y \in S : x = y
    PROVE  Cardinality(S) \in {0, 1} /\ (Cardinality(S) = 0 <=> S = {})
  <1>1. CASE S = {}
    BY <1>1, FS_EmptySet
  <1>2. CASE S # {}
    <2>1. PICK x \in S : TRUE
      BY <1>2
    <2>2. S = {x}
      BY <2>1
    <2>3. Cardinality(S) = 1
      BY <2>2, FS_Singleton
    <2> QED
      BY <1>2, <2>3
  <1> QED
    BY <1>1, <1>2

(* The events of one method's receive in a queue.                          *)
LEMMA ReceiveEvents ==
    ASSUME NEW Q \in SUBSET Events, NEW m \in Methods, NEW e \in Q, e.kind = "received", e.method = m
    PROVE  e = Received(m, TRUE) \/ e = Received(m, FALSE)
  <1>1. e \in Events
    OBVIOUS
  <1>2. \A c : e # Sent(c)
    BY EventShape
  <1>3. PICK n \in Methods : e = Received(n, TRUE) \/ e = Received(n, FALSE)
    BY <1>1, <1>2, EventCases
  <1>4. Received(n, TRUE).method = n /\ Received(n, FALSE).method = n
    BY DEF Received
  <1> QED
    BY <1>3, <1>4

(* service.h:199-214: for every number of methods and threads, at most one *)
(* io thread at a time is in the receive of a method, and none while its   *)
(* tag is with gRPC or in the queue.                                       *)
THEOREM ReceivesAreExclusive == Spec => []ReceiveIsExclusive
  <1>1. IInv => ReceiveIsExclusive
    <2> SUFFICES ASSUME IInv, NEW m \in Methods
                 PROVE  Cardinality(Receiving(m)) + Cardinality({e \in cq : e.kind = "received" /\ e.method = m})
                          + Cardinality(registered \cap {m}) <= 1
      BY DEF ReceiveIsExclusive
    <2> DEFINE E == {e \in cq : e.kind = "received" /\ e.method = m}
               R == registered \cap {m}
    <2>1. \A t \in IoThreads : t \in Receiving(m) <=> InReceive(t, m)
      BY DEF Receiving, InReceive
    <2>2. Receiving(m) \subseteq IoThreads
      BY DEF Receiving
    <2>3. \A e \in E : e \in cq /\ (e = Received(m, TRUE) \/ e = Received(m, FALSE))
      BY ReceiveEvents DEF IInv, ServerTypeOK
    <2>4. E # {} => Queued(m)
      BY <2>3 DEF Queued
    <2>5. \A x, y \in E : x = y
      BY <2>3 DEF IInv, TokenInv
    <2>6. \A x, y \in R : x = y
      OBVIOUS
    <2>7. \A x, y \in Receiving(m) : x = y
      BY <2>1, <2>2 DEF IInv, TokenInv
    <2>8. R # {} => m \in registered
      OBVIOUS
    <2>9. Receiving(m) # {} => E = {} /\ R = {}
      BY <2>1, <2>2, <2>4, <2>8 DEF IInv, TokenInv
    <2>10. R # {} => E = {}
      BY <2>4, <2>8 DEF IInv, TokenInv
    <2> HIDE DEF E, R
    <2>11. Cardinality(E) \in {0, 1} /\ (Cardinality(E) = 0 <=> E = {})
      BY <2>5, AtMostOne
    <2>12. Cardinality(R) \in {0, 1} /\ (Cardinality(R) = 0 <=> R = {})
      BY <2>6, AtMostOne
    <2>13. Cardinality(Receiving(m)) \in {0, 1} /\ (Cardinality(Receiving(m)) = 0 <=> Receiving(m) = {})
      BY <2>7, AtMostOne
    <2>14. Cardinality(Receiving(m)) + Cardinality(E) + Cardinality(R) <= 1
      BY <2>9, <2>10, <2>11, <2>12, <2>13
    <2> QED
      BY <2>14 DEF E, R
  <1> QED
    BY <1>1, Invariance, PTL

(* queue_receive (service.h:216-230): the buffers that gRPC was given      *)
(* belong to the method's own, unshared unary_call_impl, from the          *)
(* registration of the receive until its event is taken.                   *)
THEOREM BuffersStayLive == Spec => []ReceiveBuffersLive
  <1>1. IInv => ReceiveBuffersLive
    <2> SUFFICES ASSUME IInv, NEW m \in Methods,
                        m \in registered \/ \E e \in cq : e.kind = "received" /\ e.method = m
                 PROVE  /\ receivedCall[m] \in Allocated
                        /\ call[receivedCall[m]].phase = "receiving"
                        /\ call[receivedCall[m]].refCount = 1
                        /\ \A n \in Methods : receivedCall[n] = receivedCall[m] => n = m
      BY DEF ReceiveBuffersLive
    <2>1. Expecting(m)
      <3>1. ASSUME NEW e \in cq, e.kind = "received", e.method = m
            PROVE  Queued(m)
        <4>1. e = Received(m, TRUE) \/ e = Received(m, FALSE)
          BY <3>1, ReceiveEvents DEF IInv, ServerTypeOK
        <4> QED
          BY <4>1 DEF Queued
      <3> QED
        BY <3>1 DEF Expecting
    <2>2. PICK c \in Calls : c = receivedCall[m] /\ call[c].method = m /\ call[c].phase = "receiving"
      BY <2>1 DEF IInv, ReceivedCallInv
    <2>3. c \in Allocated
      BY <2>2, NoneAssumption DEF Allocated
    <2>4. call[c].refCount = 1
      BY <2>2, CallFacts DEF IInv, ServerTypeOK, OwnerNames
    <2>5. \A n \in Methods : receivedCall[n] = c => n = m
      BY <2>2 DEF IInv, ReceivedCallInv
    <2> QED
      BY <2>2, <2>3, <2>4, <2>5
  <1> QED
    BY <1>1, Invariance, PTL

(* ~server (server.h:123-130, 183-185): once the completion queue is shut  *)
(* down, no receive is registered and no answer is on its way to gRPC.     *)
THEOREM QueueStaysShut == Spec => []NothingAfterCqShutdown
  <1>1. IInv => NothingAfterCqShutdown
    <2> SUFFICES ASSUME IInv, server \in {"cqShutdown", "destroyed"}
                 PROVE  /\ registered = {}
                        /\ \A t \in IoThreads : io[t].pc \notin {"take", "reset", "rearm"}
                        /\ \A c \in Calls : call[c].owner.user # "sending"
                        /\ \A c \in Calls, o \in OwnerNames : call[c].owner[o] # "aborting"
      BY DEF NothingAfterCqShutdown
    <2>1. registered = {} /\ Answered
      BY DEF IInv, ServerInv
    <2>2. \A t \in IoThreads : io[t].pc \notin {"take", "reset", "rearm"}
      BY <2>1, ReceivingThread DEF Answered, BeforeSchedule
    <2>3. \A c \in Calls, o \in OwnerNames : call[c].owner[o] \notin {"sending", "aborting"}
      <3> SUFFICES ASSUME NEW c \in Calls, NEW o \in OwnerNames, call[c].owner[o] \in {"sending", "aborting"}
                   PROVE  FALSE
        OBVIOUS
      <3>1. call[c].phase = "alive" /\ call[c].tag = "none"
        BY CallFacts DEF IInv, ServerTypeOK, Sending
      <3> QED
        BY <2>1, <3>1 DEF Answered
    <2> QED
      BY <2>1, <2>2, <2>3 DEF OwnerNames
  <1> QED
    BY <1>1, Invariance, PTL
-----------------------------------------------------------------------------
(* Step by step, what the server does to one call is a step of UnaryCall,  *)
(* and its callback is scheduled, run and entered in this order.           *)
CallbackMoves(c) ==
    \/ call'[c].callback = call[c].callback /\ (call'[c].method = call[c].method \/ call'[c].callback = "none")
    \/ call'[c].callback = "scheduled"
    \/ /\ call[c].callback = "scheduled" /\ call'[c].method = call[c].method
       /\ call'[c].callback = IF call[c].method \in OneWay THEN "constructing" ELSE "entered"
    \/ call[c].callback = "constructing" /\ call'[c].callback = "entered"

CallStep(c) == [Call(c)!Next]_(Call(c)!vars) /\ CallbackMoves(c)

LEMMA OtherCalls ==
    ASSUME NEW c \in Calls, call'[c] = call[c]
    PROVE  CallStep(c)
  BY DEF CallStep, Call!vars, CallbackMoves

LEMMA OneCall ==
    ASSUME IInv, NEW c \in Calls, NEW e, call' = [call EXCEPT ![c] = e], CallStep(c)
    PROVE  \A b \in Calls : CallStep(b)
  <1>1. \A b \in Calls : b # c => call'[b] = call[b]
    BY DEF IInv, ServerTypeOK
  <1> QED
    BY <1>1, OtherCalls

(* Constructing a call is a stutter of UnaryCall, which begins with it.    *)
LEMMA NewImplsAgree ==
    ASSUME NEW m, NEW n
    PROVE  /\ NewImpl(m).owner = NewImpl(n).owner /\ NewImpl(m).refCount = NewImpl(n).refCount
           /\ NewImpl(m).responseSentFlag = NewImpl(n).responseSentFlag
           /\ NewImpl(m).responses = NewImpl(n).responses
           /\ NewImpl(m).tag = NewImpl(n).tag /\ NewImpl(m).phase = NewImpl(n).phase
           /\ NewImpl(m).callback = "none"
  BY DEF NewImpl

LEMMA NewCallRefines ==
    ASSUME IInv, NEW m \in Methods, NewCall(m)
    PROVE  \A b \in Calls : CallStep(b)
  <1>1. PICK c \in Calls : call[c] = NewImpl(None) /\ call' = [call EXCEPT ![c] = NewImpl(m)] /\ call'[c] = NewImpl(m)
    BY NewCallFacts
  <1>2. /\ call'[c].owner = call[c].owner /\ call'[c].refCount = call[c].refCount
        /\ call'[c].responseSentFlag = call[c].responseSentFlag /\ call'[c].responses = call[c].responses
        /\ call'[c].tag = call[c].tag /\ call'[c].phase = call[c].phase
        /\ call'[c].callback = "none" /\ call[c].callback = "none"
    BY <1>1, NewImplsAgree
  <1>3. CallStep(c)
    BY <1>2 DEF CallStep, Call!vars, CallbackMoves
  <1> QED
    BY <1>1, <1>3, OneCall

LEMMA FinishRefines ==
    ASSUME IInv, NEW c \in Calls, Finish(c)
    PROVE  \A b \in Calls : CallStep(b)
  <1> DEFINE e == [call[c] EXCEPT !.responseSentFlag = TRUE, !.owner.user = "sending"]
  <1>1. call' = [call EXCEPT ![c] = e] /\ call[c] \in Impl /\ call'[c] = e
    BY DEF Finish, IInv, ServerTypeOK
  <1>2. /\ e.owner = [call[c].owner EXCEPT !["user"] = "sending"] /\ e.refCount = call[c].refCount
        /\ e.responseSentFlag = TRUE /\ e.responses = call[c].responses
        /\ e.tag = call[c].tag /\ e.phase = call[c].phase
        /\ e.callback = call[c].callback /\ e.method = call[c].method
    BY <1>1 DEF Impl
  <1> HIDE DEF e
  <1>3. Call(c)!Finish("user")
    BY <1>1, <1>2 DEF Finish, Call!Finish
  <1>4. CallStep(c)
    BY <1>1, <1>2, <1>3 DEF CallStep, CallbackMoves, Call!Next, Call!OwnerStep, Call!LibraryStep, OwnerNames
  <1> QED
    BY <1>1, <1>4, OneCall

LEMMA TryFinishWithErrorRefines ==
    ASSUME IInv, NEW c \in Calls, NEW o \in OwnerNames, TryFinishWithError(c, o)
    PROVE  \A b \in Calls : CallStep(b)
  <1> DEFINE e == [call[c] EXCEPT !.owner[o] = IF call[c].refCount = 2 THEN "abandoning" ELSE "releasing"]
  <1>1. call' = [call EXCEPT ![c] = e] /\ call[c] \in Impl /\ call'[c] = e
    BY DEF TryFinishWithError, IInv, ServerTypeOK
  <1>2. /\ e.owner = [call[c].owner EXCEPT ![o] = IF call[c].refCount = 2 THEN "abandoning" ELSE "releasing"] /\ e.refCount = call[c].refCount
        /\ e.responseSentFlag = call[c].responseSentFlag /\ e.responses = call[c].responses
        /\ e.tag = call[c].tag /\ e.phase = call[c].phase
        /\ e.callback = call[c].callback /\ e.method = call[c].method
    BY <1>1 DEF Impl
  <1> HIDE DEF e
  <1>3. Call(c)!TryFinishWithError(o)
    BY <1>1, <1>2 DEF TryFinishWithError, Call!TryFinishWithError, Dropping
  <1>4. CallStep(c)
    BY <1>1, <1>2, <1>3 DEF CallStep, CallbackMoves, Call!Next, Call!OwnerStep, Call!LibraryStep, OwnerNames
  <1> QED
    BY <1>1, <1>4, OneCall

LEMMA FinishWithErrorRefines ==
    ASSUME IInv, NEW c \in Calls, NEW o \in OwnerNames, FinishWithError(c, o)
    PROVE  \A b \in Calls : CallStep(b)
  <1> DEFINE e == [call[c] EXCEPT !.responseSentFlag = TRUE, !.owner[o] = IF call[c].responseSentFlag THEN "releasing" ELSE "aborting"]
  <1>1. call' = [call EXCEPT ![c] = e] /\ call[c] \in Impl /\ call'[c] = e
    BY DEF FinishWithError, IInv, ServerTypeOK
  <1>2. /\ e.owner = [call[c].owner EXCEPT ![o] = IF call[c].responseSentFlag THEN "releasing" ELSE "aborting"] /\ e.refCount = call[c].refCount
        /\ e.responseSentFlag = TRUE /\ e.responses = call[c].responses
        /\ e.tag = call[c].tag /\ e.phase = call[c].phase
        /\ e.callback = call[c].callback /\ e.method = call[c].method
    BY <1>1 DEF Impl
  <1> HIDE DEF e
  <1>3. Call(c)!FinishWithError(o)
    BY <1>1, <1>2 DEF FinishWithError, Call!FinishWithError
  <1>4. CallStep(c)
    BY <1>1, <1>2, <1>3 DEF CallStep, CallbackMoves, Call!Next, Call!OwnerStep, Call!LibraryStep, OwnerNames
  <1> QED
    BY <1>1, <1>4, OneCall

LEMMA RespondWithErrorRefines ==
    ASSUME IInv, NEW c \in Calls, NEW o \in OwnerNames, RespondWithError(c, o)
    PROVE  \A b \in Calls : CallStep(b)
  <1> DEFINE e == [call[c] EXCEPT !.responses = Append(@, "internal"), !.tag = "queued", !.owner[o] = "releasing"]
  <1>1. call' = [call EXCEPT ![c] = e] /\ call[c] \in Impl /\ call'[c] = e
    BY DEF RespondWithError, Send, IInv, ServerTypeOK
  <1>2. /\ e.owner = [call[c].owner EXCEPT ![o] = "releasing"] /\ e.refCount = call[c].refCount
        /\ e.responseSentFlag = call[c].responseSentFlag /\ e.responses = Append(call[c].responses, "internal")
        /\ e.tag = "queued" /\ e.phase = call[c].phase
        /\ e.callback = call[c].callback /\ e.method = call[c].method
    BY <1>1 DEF Impl
  <1> HIDE DEF e
  <1>3. Call(c)!RespondWithError(o)
    BY <1>1, <1>2 DEF RespondWithError, Send, Call!RespondWithError
  <1>4. CallStep(c)
    BY <1>1, <1>2, <1>3 DEF CallStep, CallbackMoves, Call!Next, Call!OwnerStep, Call!LibraryStep, OwnerNames
  <1> QED
    BY <1>1, <1>4, OneCall

LEMMA RespondRefines ==
    ASSUME IInv, NEW c \in Calls, Respond(c)
    PROVE  \A b \in Calls : CallStep(b)
  <1> DEFINE e == [call[c] EXCEPT !.responses = Append(@, "user"), !.tag = "queued", !.owner["user"] = "held"]
  <1>1. call' = [call EXCEPT ![c] = e] /\ call[c] \in Impl /\ call'[c] = e
    BY DEF Respond, Send, IInv, ServerTypeOK
  <1>2. /\ e.owner = [call[c].owner EXCEPT !["user"] = "held"] /\ e.refCount = call[c].refCount
        /\ e.responseSentFlag = call[c].responseSentFlag /\ e.responses = Append(call[c].responses, "user")
        /\ e.tag = "queued" /\ e.phase = call[c].phase
        /\ e.callback = call[c].callback /\ e.method = call[c].method
    BY <1>1 DEF Impl
  <1> HIDE DEF e
  <1>3. Call(c)!Respond("user")
    BY <1>1, <1>2 DEF Respond, Send, Call!Respond
  <1>4. CallStep(c)
    BY <1>1, <1>2, <1>3 DEF CallStep, CallbackMoves, Call!Next, Call!OwnerStep, Call!LibraryStep, OwnerNames
  <1> QED
    BY <1>1, <1>4, OneCall

LEMMA ReleaseRefines ==
    ASSUME IInv, NEW c \in Calls, NEW o \in OwnerNames, Release(c, o)
    PROVE  \A b \in Calls : CallStep(b)
  <1> DEFINE e == [WithoutReference(call[c]) EXCEPT !.owner[o] = "empty"]
  <1>1. call' = [call EXCEPT ![c] = e] /\ call[c] \in Impl /\ call'[c] = e
    BY DEF Release, IInv, ServerTypeOK
  <1>2. /\ e.owner = [call[c].owner EXCEPT ![o] = "empty"] /\ e.refCount = call[c].refCount - 1
        /\ e.responseSentFlag = call[c].responseSentFlag /\ e.responses = call[c].responses
        /\ e.tag = call[c].tag /\ e.phase = (IF call[c].refCount = 1 THEN "deleted" ELSE call[c].phase)
        /\ e.callback = call[c].callback /\ e.method = call[c].method
    BY <1>1 DEF Impl, WithoutReference
  <1> HIDE DEF e
  <1>3. Call(c)!Release(o)
    BY <1>1, <1>2 DEF Release, Call!Release, Call!DropReference
  <1>4. CallStep(c)
    BY <1>1, <1>2, <1>3 DEF CallStep, CallbackMoves, Call!Next, Call!OwnerStep, Call!LibraryStep, OwnerNames
  <1> QED
    BY <1>1, <1>4, OneCall

LEMMA EnterCallbackRefines ==
    ASSUME IInv, NEW c \in Calls, EnterCallback(c)
    PROVE  \A b \in Calls : CallStep(b)
  <1> DEFINE e == [call[c] EXCEPT !.callback = "entered"]
  <1>1. call' = [call EXCEPT ![c] = e] /\ call[c] \in Impl /\ call'[c] = e /\ call[c].callback = "constructing"
    BY DEF EnterCallback, IInv, ServerTypeOK
  <1>2. /\ e.owner = call[c].owner /\ e.refCount = call[c].refCount
        /\ e.responseSentFlag = call[c].responseSentFlag /\ e.responses = call[c].responses
        /\ e.tag = call[c].tag /\ e.phase = call[c].phase
        /\ e.callback = "entered" /\ e.method = call[c].method
    BY <1>1 DEF Impl
  <1> HIDE DEF e
  <1>3. CallStep(c)
    BY <1>1, <1>2 DEF CallStep, CallbackMoves, Call!vars
  <1> QED
    BY <1>1, <1>3, OneCall

(* Constructing the unary_call of a one-way method is a Finish; entering   *)
(* any other callback is none of the call's business.                      *)
LEMMA RunClosureRefines ==
    ASSUME IInv, NEW c \in Calls, RunClosure(c)
    PROVE  \A b \in Calls : CallStep(b)
  <1>1. CASE call[c].method \in OneWay
    <2> DEFINE e == [call[c] EXCEPT !.callback = "constructing", !.responseSentFlag = TRUE, !.owner.user = "sending"]
    <2>1. call' = [call EXCEPT ![c] = e] /\ call[c] \in Impl /\ call'[c] = e /\ call[c].callback = "scheduled"
      BY <1>1 DEF RunClosure, IInv, ServerTypeOK
    <2>2. /\ e.owner = [call[c].owner EXCEPT !["user"] = "sending"] /\ e.refCount = call[c].refCount
          /\ e.responseSentFlag = TRUE /\ e.responses = call[c].responses
          /\ e.tag = call[c].tag /\ e.phase = call[c].phase
          /\ e.callback = "constructing" /\ e.method = call[c].method
      BY <2>1 DEF Impl
    <2> HIDE DEF e
    <2>3. call[c].owner["user"] = "held" /\ ~call[c].responseSentFlag
      BY <2>1 DEF IInv, CallInv, PhaseInv
    <2>4. Call(c)!Finish("user")
      BY <2>1, <2>2, <2>3 DEF Call!Finish
    <2>5. CallStep(c)
      BY <1>1, <2>1, <2>2, <2>4 DEF CallStep, CallbackMoves, Call!Next, Call!OwnerStep, OwnerNames
    <2> QED
      BY <2>1, <2>5, OneCall
  <1>2. CASE call[c].method \notin OneWay
    <2> DEFINE e == [call[c] EXCEPT !.callback = "entered"]
    <2>1. call' = [call EXCEPT ![c] = e] /\ call[c] \in Impl /\ call'[c] = e /\ call[c].callback = "scheduled"
      BY <1>2 DEF RunClosure, IInv, ServerTypeOK
    <2>2. /\ e.owner = call[c].owner /\ e.refCount = call[c].refCount
          /\ e.responseSentFlag = call[c].responseSentFlag /\ e.responses = call[c].responses
          /\ e.tag = call[c].tag /\ e.phase = call[c].phase
          /\ e.callback = "entered" /\ e.method = call[c].method
      BY <2>1 DEF Impl
    <2> HIDE DEF e
    <2>3. CallStep(c)
      BY <1>2, <2>1, <2>2 DEF CallStep, CallbackMoves, Call!vars
    <2> QED
      BY <2>1, <2>3, OneCall
  <1> QED
    BY <1>1, <1>2

LEMMA TakeRefines ==
    ASSUME IInv, NEW t \in IoThreads, TakeReceivedCall(t)
    PROVE  \A b \in Calls : CallStep(b)
  <1>1. PICK m \in Methods : m = io[t].method /\ io[t].pc = "take"
    BY DEF TakeReceivedCall, IInv, ThreadInv
  <1>2. PICK c \in Calls : c = receivedCall[m] /\ call[c].method = m /\ call[c].phase = "receiving"
    <2>1. Expecting(m)
      BY <1>1 DEF Expecting
    <2> QED
      BY <2>1 DEF IInv, ReceivedCallInv
  <1> DEFINE e == [call[c] EXCEPT !.refCount = @ + 1, !.phase = "alive", !.owner.closure = "held"]
  <1>3. call' = [call EXCEPT ![c] = e] /\ call[c] \in Impl /\ call'[c] = e
    <2>1. call' = [call EXCEPT ![c] = e]
      BY <1>1, <1>2, TakenCall DEF IInv
    <2>2. call \in [Calls -> Impl]
      BY DEF IInv, ServerTypeOK
    <2> HIDE DEF e
    <2> QED
      BY <2>1, <2>2
  <1>4. /\ e.owner = [call[c].owner EXCEPT !["closure"] = "held"] /\ e.refCount = call[c].refCount + 1
        /\ e.responseSentFlag = call[c].responseSentFlag /\ e.responses = call[c].responses
        /\ e.tag = call[c].tag /\ e.phase = "alive"
        /\ e.callback = call[c].callback /\ e.method = call[c].method
    BY <1>3 DEF Impl
  <1> HIDE DEF e
  <1>5. Call(c)!Receive
    BY <1>2, <1>3, <1>4 DEF Call!Receive
  <1>6. CallStep(c)
    BY <1>3, <1>4, <1>5 DEF CallStep, CallbackMoves, Call!Next
  <1> QED
    BY <1>3, <1>6, OneCall

LEMMA ScheduleRefines ==
    ASSUME IInv, NEW t \in IoThreads, Schedule(t)
    PROVE  \A b \in Calls : CallStep(b)
  <1>1. PICK c \in Calls : c = io[t].call /\ call[c].callback = "none" /\ call[c].phase = "alive"
    BY DEF Schedule, IInv, ThreadInv, BeforeSchedule
  <1> DEFINE e == [call[c] EXCEPT !.refCount = @ + 1, !.owner.user = "held", !.callback = "scheduled"]
  <1>2. call' = [call EXCEPT ![c] = e] /\ call[c] \in Impl /\ call'[c] = e
    BY <1>1 DEF Schedule, IInv, ServerTypeOK
  <1>3. /\ e.owner = [call[c].owner EXCEPT !["user"] = "held"] /\ e.refCount = call[c].refCount + 1
        /\ e.responseSentFlag = call[c].responseSentFlag /\ e.responses = call[c].responses
        /\ e.tag = call[c].tag /\ e.phase = call[c].phase
        /\ e.callback = "scheduled" /\ e.method = call[c].method
    BY <1>2 DEF Impl
  <1> HIDE DEF e
  <1>4. call[c].owner["closure"] = "held" /\ call[c].owner["user"] = "empty"
    BY <1>1 DEF IInv, CallInv, PhaseInv
  <1>5. Call(c)!AddRef("closure", "user")
    BY <1>2, <1>3, <1>4 DEF Call!AddRef
  <1>6. CallStep(c)
    BY <1>2, <1>3, <1>5 DEF CallStep, CallbackMoves, Call!Next, Call!OwnerStep, OwnerNames
  <1> QED
    BY <1>2, <1>6, OneCall

LEMMA ResponseSentRefines ==
    ASSUME IInv, NEW t \in IoThreads, ResponseSent(t)
    PROVE  \A b \in Calls : CallStep(b)
  <1>1. PICK c \in Calls : c = io[t].call /\ call[c].tag = "queued"
    BY DEF ResponseSent, IInv, ThreadInv
  <1> DEFINE e == [WithoutReference(call[c]) EXCEPT !.tag = "invoked"]
  <1>2. call' = [call EXCEPT ![c] = e] /\ call[c] \in Impl /\ call'[c] = e
    BY <1>1 DEF ResponseSent, IInv, ServerTypeOK
  <1>3. /\ e.owner = call[c].owner /\ e.refCount = call[c].refCount - 1
        /\ e.responseSentFlag = call[c].responseSentFlag /\ e.responses = call[c].responses
        /\ e.tag = "invoked" /\ e.phase = (IF call[c].refCount = 1 THEN "deleted" ELSE call[c].phase)
        /\ e.callback = call[c].callback /\ e.method = call[c].method
    BY <1>2 DEF Impl, WithoutReference
  <1> HIDE DEF e
  <1>4. Call(c)!Invoke
    BY <1>1, <1>2, <1>3 DEF Call!Invoke, Call!DropReference
  <1>5. CallStep(c)
    BY <1>2, <1>3, <1>4 DEF CallStep, CallbackMoves, Call!Next
  <1> QED
    BY <1>2, <1>5, OneCall

LEMMA DestroyServicesRefines ==
    ASSUME IInv, DestroyServices
    PROVE  \A b \in Calls : CallStep(b)
  <1> SUFFICES ASSUME NEW c \in Calls PROVE CallStep(c)
    OBVIOUS
  <1> DEFINE X == {receivedCall[m] : m \in Methods}
             e == [call[c] EXCEPT !.phase = "discarded"]
  <1>1. call' = [b \in Calls |-> IF b \in X THEN [call[b] EXCEPT !.phase = "discarded"] ELSE call[b]]
    BY DEF DestroyServices
  <1>2. c \in X => call[c].phase = "receiving"
    BY DEF IInv, ReceivedCallInv
  <1> HIDE DEF X
  <1>3. CASE c \in X
    <2>1. call'[c] = e /\ call[c] \in Impl
      BY <1>1, <1>3 DEF IInv, ServerTypeOK
    <2>2. /\ e.owner = call[c].owner /\ e.refCount = call[c].refCount
          /\ e.responseSentFlag = call[c].responseSentFlag /\ e.responses = call[c].responses
          /\ e.tag = call[c].tag /\ e.phase = "discarded"
          /\ e.callback = call[c].callback /\ e.method = call[c].method
      BY <2>1 DEF Impl
    <2> HIDE DEF e
    <2>3. Call(c)!Discard
      BY <1>2, <1>3, <2>1, <2>2 DEF Call!Discard
    <2> QED
      BY <2>1, <2>2, <2>3 DEF CallStep, CallbackMoves, Call!Next
  <1>4. CASE c \notin X
    BY <1>1, <1>4, OtherCalls
  <1> QED
    BY <1>3, <1>4

LEMMA StepRefines ==
    ASSUME IInv, [Next]_vars
    PROVE  \A c \in Calls : CallStep(c)
  <1>1. CASE UNCHANGED call
    BY <1>1, OtherCalls
  <1>2. ASSUME NEW m \in Methods, StartMethod(m) \/ RequestArrives(m) PROVE \A c \in Calls : CallStep(c)
    BY <1>1, <1>2, NewCallRefines DEF StartMethod, RequestArrives
  <1>3. ASSUME NEW t \in IoThreads, IoStep(t) PROVE \A c \in Calls : CallStep(c)
    <2>1. CASE ResetReceivedCall(t)
      <3>1. io[t].method \in Methods
        BY <2>1 DEF ResetReceivedCall, IInv, ThreadInv, BeforeSchedule
      <3> QED
        BY <2>1, <3>1, NewCallRefines DEF ResetReceivedCall
    <2>2. CASE NextEvent(t) \/ Rearm(t) \/ ClosureDestroyed(t) \/ IoExit(t)
      BY <1>1, <2>2 DEF NextEvent, Rearm, ClosureDestroyed, IoExit
    <2> QED
      BY <1>3, <2>1, <2>2, TakeRefines, ScheduleRefines, ResponseSentRefines DEF IoStep
  <1>4. ASSUME NEW c \in Calls, CallbackStep(c) \/ Finish(c) PROVE \A b \in Calls : CallStep(b)
    BY <1>4, RunClosureRefines, EnterCallbackRefines, RespondRefines, FinishRefines DEF CallbackStep
  <1>5. ASSUME NEW c \in Calls, NEW o \in OwnerNames, DropStep(c, o) PROVE \A b \in Calls : CallStep(b)
    BY <1>5, TryFinishWithErrorRefines, FinishWithErrorRefines, RespondWithErrorRefines, ReleaseRefines DEF DropStep
  <1>6. CASE Destructor
    BY <1>1, <1>6, DestroyServicesRefines DEF Destructor, ShutdownReturns, ShutdownIoManager
  <1>7. CASE Started \/ Shutdown \/ Terminated \/ UNCHANGED vars
    BY <1>1, <1>7 DEF Started, Shutdown, Terminated, vars
  <1> QED
    BY <1>2, <1>3, <1>4, <1>5, <1>6, <1>7 DEF Next

LEMMA InitRefines == Init => \A c \in Calls : Call(c)!Init
  <1> SUFFICES ASSUME Init, NEW c \in Calls PROVE Call(c)!Init
    OBVIOUS
  <1>1. call[c] = NewImpl(None)
    BY DEF Init
  <1>2. call[c].owner = [o \in OwnerNames |-> "empty"]
    BY <1>1 DEF NewImpl, OwnerNames
  <1>3. /\ call[c].refCount = 1 /\ call[c].responseSentFlag = FALSE /\ call[c].responses = << >>
        /\ call[c].tag = "none" /\ call[c].phase = "receiving"
    BY <1>1 DEF NewImpl
  <1> QED
    BY <1>2, <1>3 DEF Call!Init

(* unary_call_impl.h: every call of the server, of any number of methods   *)
(* and served by any number of threads, starts and changes as UnaryCall    *)
(* allows; what UnaryCallProofs proves of one call so holds of each.       *)
THEOREM CallsRefineUnaryCall == Spec => CallsFollowUnaryCall
  <1>1. IInv /\ [Next]_vars => [\A c \in Calls : [Call(c)!Next]_(Call(c)!vars)]_vars
    BY StepRefines DEF CallStep
  <1> QED
    BY <1>1, InitRefines, Invariance, PTL DEF Spec, CallsFollowUnaryCall

-----------------------------------------------------------------------------
(* Only the callback of a one-way method runs with its answer already      *)
(* given: its unary_call finishes the call when it is constructed.         *)
ConstructingInv == \A c \in Calls : call[c].callback = "constructing" => call[c].method \in OneWay

LEMMA OneWayOnly == Spec => []ConstructingInv
  <1>1. Init => ConstructingInv
    BY NewImplFields DEF Init, ConstructingInv
  <1>2. IInv /\ ConstructingInv /\ [Next]_vars => ConstructingInv'
    <2> SUFFICES ASSUME IInv, ConstructingInv, [Next]_vars, NEW c \in Calls, call'[c].callback = "constructing"
                 PROVE  call'[c].method \in OneWay
      BY DEF ConstructingInv
    <2>1. CallbackMoves(c)
      BY StepRefines DEF CallStep
    <2> QED
      BY <2>1 DEF CallbackMoves, ConstructingInv
  <1> QED
    BY <1>1, <1>2, Invariance, PTL DEF Spec

(* service.h:70, server.h:145: if no method is one-way, a callback is only *)
(* entered while the service it is bound to exists.  (With a one-way       *)
(* method this is false: Shutdown does not wait for a callback whose call  *)
(* is answered before it is entered.)                                      *)
THEOREM CallbacksEnterLiveServices == OneWay = {} => (Spec => CallbackEntersLiveService)
  <1> SUFFICES ASSUME OneWay = {} PROVE Spec => CallbackEntersLiveService
    OBVIOUS
  <1>1. IInv /\ ConstructingInv /\ [Next]_vars =>
          [\A c \in Calls : call[c].callback # "entered" /\ call'[c].callback = "entered" => server # "destroyed"]_vars
    <2> SUFFICES ASSUME IInv, ConstructingInv, [Next]_vars, NEW c \in Calls,
                        call[c].callback # "entered", call'[c].callback = "entered"
                 PROVE  server # "destroyed"
      OBVIOUS
    <2>1. CallbackMoves(c)
      BY StepRefines DEF CallStep
    <2>2. call[c].callback = "scheduled"
      BY <2>1 DEF CallbackMoves, ConstructingInv
    <2>3. call[c].owner.user = "held" /\ ~call[c].responseSentFlag
      BY <2>2 DEF IInv, CallInv, PhaseInv
    <2>4. call[c].phase = "alive" /\ call[c].tag = "none"
      BY <2>3, CallFacts DEF IInv, ServerTypeOK, CallInv, FlagInv, OwnerNames
    <2>5. ~Answered
      BY <2>4 DEF Answered
    <2> QED
      BY <2>5, ServerWaits
  <1> QED
    BY <1>1, Invariance, OneWayOnly, PTL DEF Spec, CallbackEntersLiveService

-----------------------------------------------------------------------------
OneAnswer == \A c \in Calls : Len(call[c].responses) <= 1

LEMMA AnswersOnce == Spec => []OneAnswer
  <1>1. Init => OneAnswer
    BY DEF Init, NewImpl, OneAnswer
  <1>2. IInv /\ [Next]_vars /\ OneAnswer => OneAnswer'
    <2> SUFFICES ASSUME IInv, [Next]_vars, NEW c \in Calls, Len(call[c].responses) <= 1
                 PROVE  Len(call'[c].responses) <= 1
      BY DEF OneAnswer
    <2>1. [Call(c)!Next]_(Call(c)!vars)
      BY StepRefines DEF CallStep
    <2>2. CASE call'[c].responses = call[c].responses
      BY <2>2
    <2>3. ASSUME NEW o \in OwnerNames, Call(c)!Respond(o) \/ Call(c)!RespondWithError(o)
          PROVE  Len(call'[c].responses) <= 1
      <3>1. call[c].owner[o] \in {"sending", "aborting"}
        BY <2>3 DEF Call!Respond, Call!RespondWithError
      <3>2. call[c].responses = << >>
        BY <3>1, CallFacts DEF IInv, ServerTypeOK, Sending
      <3>3. call'[c].responses = <<"user">> \/ call'[c].responses = <<"internal">>
        BY <2>3, <3>2 DEF Call!Respond, Call!RespondWithError
      <3>4. Len(<<"user">>) = 1 /\ Len(<<"internal">>) = 1
        OBVIOUS
      <3>5. Len(call'[c].responses) = 1
        BY <3>3, <3>4
      <3> QED
        BY <3>5
    <2> QED
      BY <2>1, <2>2, <2>3 DEF Call!Next, Call!OwnerStep, Call!LibraryStep, Call!Receive, Call!Discard, Call!Invoke,
         Call!AddRef, Call!Move, Call!Finish, Call!SerializeThrows, Call!TryFinishWithError, Call!FinishWithError,
         Call!Release, Call!vars
  <1> QED
    BY <1>1, <1>2, Invariance, PTL DEF Spec

(* unary_call_impl.h:93, 124: however io threads, callbacks and the        *)
(* server's destruction interleave, each request is answered at most once, *)
(* and its unary_call_impl is deleted exactly when neither its owners nor  *)
(* the queued completion can reach it.                                     *)
THEOREM ServerCallsAreSafe ==
    Spec => [](\A c \in Calls : Call(c)!AtMostOneResponse /\ Call(c)!NoUseAfterFree)
  <1>1. IInv /\ OneAnswer => \A c \in Calls : Call(c)!AtMostOneResponse /\ Call(c)!NoUseAfterFree
    <2> SUFFICES ASSUME IInv, NEW c \in Calls, Len(call[c].responses) <= 1
                 PROVE  Call(c)!AtMostOneResponse /\ Call(c)!NoUseAfterFree
      BY DEF OneAnswer
    <2>1. call[c] \in Impl /\ CallInv(call[c])
      BY DEF IInv, ServerTypeOK
    <2>2. Call(c)!AtMostOneResponse
      BY <2>1 DEF Call!AtMostOneResponse, CallInv, FlagInv
    <2>3. Call(c)!Holders = {} <=> call[c].owner["closure"] = "empty" /\ call[c].owner["user"] = "empty"
      BY DEF Call!Holders, OwnerNames
    <2>4. Call(c)!NoUseAfterFree
      BY <2>1, <2>3 DEF Call!NoUseAfterFree, CallInv, CountInv, Held, SelfReference, Impl
    <2> QED
      BY <2>2, <2>4
  <1> QED
    BY <1>1, Invariance, AnswersOnce, PTL

=============================================================================
