-------------------------- MODULE UnaryCallProofs --------------------------
(***************************************************************************)
(* For any finite set of owner objects, and however they are shared: the   *)
(* reference count is exact, the call is never used after it is deleted,   *)
(* and at most one response is sent for it.                                *)
(***************************************************************************)
EXTENDS UnaryCall, FiniteSetTheorems, TLAPS

(* Whoever won _responseSentFlag and has not called the responder yet.     *)
Senders == {o \in Owners : owner[o] \in {"sending", "aborting"}}

(* The flag is set by one caller only, and nothing is handed to the        *)
(* responder before that caller does it.                                   *)
FlagInv ==
    /\ \A o, p \in Senders : o = p
    /\ Senders # {} => responseSentFlag /\ responses = << >>
    /\ responses # << >> => responseSentFlag

(* An owner that loaded 2 while nothing was sent is the only one left.     *)
LastInv ==
    \A o \in Owners :
        owner[o] = "aborting" \/ (owner[o] = "abandoning" /\ ~responseSentFlag)
            => Holders = {o}

PhaseInv ==
    /\ phase \in {"receiving", "discarded"} => Holders = {} /\ ~responseSentFlag
    /\ phase = "deleted" <=> refCount = 0

IInv ==
    /\ TypeOK
    /\ RefCountExact
    /\ AtMostOneResponse
    /\ FlagInv
    /\ LastInv
    /\ PhaseInv

-----------------------------------------------------------------------------
(* The holders are finitely many, and counting them behaves as expected    *)
(* when one owner takes or drops its reference.                            *)
LEMMA HoldersFinite ==
    IsFiniteSet(Holders) /\ Cardinality(Holders) \in Nat
  BY OwnersAssumption, FS_Subset, FS_CardinalityType DEF Holders

LEMMA HoldersPlus ==
    ASSUME NEW o, o \notin Holders
    PROVE  Cardinality(Holders \cup {o}) = Cardinality(Holders) + 1
  BY HoldersFinite, FS_AddElement

LEMMA HoldersMinus ==
    ASSUME NEW o \in Holders
    PROVE  /\ Cardinality(Holders \ {o}) = Cardinality(Holders) - 1
           /\ Cardinality(Holders) # 0
  BY HoldersFinite, FS_RemoveElement, FS_EmptySet

LEMMA SingleHolder ==
    ASSUME NEW o \in Holders, Cardinality(Holders) = 1
    PROVE  Holders = {o}
  <1>1. PICK x : Holders = {x}
    BY HoldersFinite, FS_Singleton
  <1> QED
    BY <1>1

LEMMA NoHolder == Cardinality(Holders) = 0 <=> Holders = {}
  BY HoldersFinite, FS_EmptySet

-----------------------------------------------------------------------------
LEMMA InitIInv == Init => IInv
  <1> SUFFICES ASSUME Init PROVE IInv
    OBVIOUS
  <1>1. Holders = {} /\ Senders = {}
    BY DEF Init, Holders, Senders
  <1>2. Cardinality(Holders) = 0
    BY <1>1, FS_EmptySet
  <1>3. TypeOK
    <2>1. owner \in [Owners -> OwnerStates]
      BY DEF Init, OwnerStates
    <2>2. responses \in Seq({"user", "internal"})
      BY DEF Init
    <2> QED
      BY <2>1, <2>2 DEF Init, TypeOK
  <1>4. RefCountExact
    BY <1>2 DEF Init, RefCountExact, SelfReference
  <1>5. AtMostOneResponse /\ FlagInv
    BY <1>1 DEF Init, AtMostOneResponse, FlagInv
  <1>6. LastInv /\ PhaseInv
    BY <1>1 DEF Init, LastInv, PhaseInv
  <1> QED
    BY <1>3, <1>4, <1>5, <1>6 DEF IInv

LEMMA NextIInv == IInv /\ [Next]_vars => IInv'
  <1> SUFFICES ASSUME IInv, [Next]_vars PROVE IInv'
    OBVIOUS
  <1> USE HoldersFinite DEF IInv
  <1>1. CASE Receive
    <2>1. Holders = {} /\ Senders = {} /\ ~responseSentFlag
      BY <1>1 DEF Receive, PhaseInv, FlagInv
    <2>2. First \in Owners /\ Holders' = Holders \cup {First} /\ Senders' = {}
      BY <1>1, <2>1, OwnersAssumption DEF Receive, Holders, Senders, TypeOK
    <2>3. TypeOK'
      BY <1>1, <2>2 DEF Receive, TypeOK, OwnerStates
    <2>4. RefCountExact'
      <3>1. Cardinality(Holders') = Cardinality(Holders) + 1
        BY <2>1, <2>2, HoldersPlus
      <3> QED
        BY <1>1, <3>1 DEF Receive, RefCountExact, SelfReference
    <2>5. AtMostOneResponse' /\ FlagInv'
      BY <1>1, <2>1, <2>2 DEF Receive, AtMostOneResponse, FlagInv
    <2>6. LastInv'
      BY <1>1, <2>1, <2>2 DEF Receive, LastInv, Holders, TypeOK
    <2>7. PhaseInv'
      BY <1>1 DEF Receive, PhaseInv, TypeOK
    <2> QED
      BY <2>3, <2>4, <2>5, <2>6, <2>7
  <1>2. CASE Invoke
    <2>1. responses # << >> /\ responseSentFlag /\ Senders = {} /\ SelfReference = 1
      BY <1>2 DEF Invoke, AtMostOneResponse, FlagInv, SelfReference
    <2>2. refCount # 0
      BY <2>1 DEF RefCountExact
    <2>3. Holders' = Holders /\ Senders' = Senders
      BY <1>2 DEF Invoke, Holders, Senders
    <2>4. TypeOK'
      BY <1>2, <2>2 DEF Invoke, DropReference, TypeOK
    <2>5. RefCountExact'
      BY <1>2, <2>1, <2>3 DEF Invoke, DropReference, RefCountExact, SelfReference
    <2>6. AtMostOneResponse' /\ FlagInv' /\ LastInv'
      BY <1>2, <2>1, <2>3 DEF Invoke, AtMostOneResponse, FlagInv, LastInv
    <2>7. PhaseInv'
      BY <1>2, <2>1, <2>2, <2>3 DEF Invoke, DropReference, PhaseInv, TypeOK
    <2> QED
      BY <2>4, <2>5, <2>6, <2>7
  <1>3. ASSUME NEW o \in Owners, NEW p \in Owners, AddRef(o, p) PROVE IInv'
    <2>1. o \in Holders /\ p \notin Holders /\ o # p
      BY <1>3 DEF AddRef, Holders
    <2>2. Holders' = Holders \cup {p} /\ Senders' = Senders
      BY <1>3 DEF AddRef, Holders, Senders, TypeOK
    <2>3. TypeOK'
      BY <1>3 DEF AddRef, TypeOK, OwnerStates
    <2>4. RefCountExact'
      <3>1. Cardinality(Holders') = Cardinality(Holders) + 1
        BY <2>1, <2>2, HoldersPlus
      <3> QED
        BY <1>3, <3>1 DEF AddRef, RefCountExact, SelfReference
    <2>5. AtMostOneResponse' /\ FlagInv'
      BY <1>3, <2>2 DEF AddRef, AtMostOneResponse, FlagInv
    <2>6. LastInv'
      BY <1>3, <2>1, <2>2 DEF AddRef, LastInv, Holders, TypeOK
    <2>7. PhaseInv'
      <3>0. Cardinality(Holders) # 0
        BY <2>1, HoldersMinus
      <3>1. refCount # 0
        BY <3>0 DEF RefCountExact, SelfReference
      <3> QED
        BY <1>3, <2>1, <3>1 DEF AddRef, PhaseInv, TypeOK
    <2> QED
      BY <2>3, <2>4, <2>5, <2>6, <2>7
  <1>4. ASSUME NEW o \in Owners, NEW p \in Owners, Move(o, p) PROVE IInv'
    <2>1. o \in Holders /\ p \notin Holders /\ o # p
      BY <1>4 DEF Move, Holders
    <2>2. Holders' = (Holders \ {o}) \cup {p} /\ Senders' = Senders
      BY <1>4, <2>1 DEF Move, Holders, Senders, TypeOK
    <2>3. TypeOK'
      BY <1>4 DEF Move, TypeOK, OwnerStates
    <2>4. RefCountExact'
      <3>1. IsFiniteSet(Holders \ {o}) /\ p \notin Holders \ {o}
        BY <2>1, FS_RemoveElement
      <3>2. Cardinality(Holders') = Cardinality(Holders \ {o}) + 1
        BY <2>2, <3>1, FS_AddElement
      <3>3. Cardinality(Holders') = Cardinality(Holders)
        BY <2>1, <3>2, HoldersMinus
      <3> QED
        BY <1>4, <3>3 DEF Move, RefCountExact, SelfReference
    <2>5. AtMostOneResponse' /\ FlagInv'
      BY <1>4, <2>2 DEF Move, AtMostOneResponse, FlagInv
    <2>6. LastInv'
      BY <1>4, <2>1, <2>2 DEF Move, LastInv, Holders, TypeOK
    <2>7. PhaseInv'
      BY <1>4, <2>1 DEF Move, PhaseInv
    <2> QED
      BY <2>3, <2>4, <2>5, <2>6, <2>7
  <1>5. ASSUME NEW o \in Owners, Finish(o) PROVE IInv'
    <2>1. o \in Holders /\ Holders' = Holders /\ Senders = {} /\ Senders' = {o}
      BY <1>5 DEF Finish, Holders, Senders, FlagInv, TypeOK
    <2>2. responses = << >>
      BY <1>5 DEF Finish, FlagInv
    <2>3. TypeOK'
      BY <1>5 DEF Finish, TypeOK, OwnerStates
    <2>4. RefCountExact' /\ AtMostOneResponse'
      BY <1>5, <2>1 DEF Finish, RefCountExact, SelfReference, AtMostOneResponse
    <2>5. FlagInv'
      BY <1>5, <2>1, <2>2 DEF Finish, FlagInv
    <2>6. LastInv'
      BY <1>5, <2>1 DEF Finish, LastInv, TypeOK
    <2>7. PhaseInv'
      BY <1>5, <2>1 DEF Finish, PhaseInv
    <2> QED
      BY <2>3, <2>4, <2>5, <2>6, <2>7
  <1>6. ASSUME NEW o \in Owners, Respond(o) PROVE IInv'
    <2>1. o \in Holders /\ Holders' = Holders /\ Senders = {o} /\ Senders' = {}
      BY <1>6 DEF Respond, Holders, Senders, FlagInv, TypeOK
    <2>2. responses = << >> /\ responseSentFlag /\ tag = "none"
      BY <2>1 DEF FlagInv, AtMostOneResponse
    <2>3. responses' = << "user" >>
      BY <1>6, <2>2 DEF Respond
    <2>4. TypeOK'
      BY <1>6, <2>3 DEF Respond, TypeOK, OwnerStates
    <2>5. RefCountExact' /\ AtMostOneResponse' /\ FlagInv'
      BY <1>6, <2>1, <2>2, <2>3 DEF Respond, RefCountExact, SelfReference, AtMostOneResponse, FlagInv
    <2>6. LastInv'
      BY <1>6, <2>1, <2>2 DEF Respond, LastInv, TypeOK
    <2>7. PhaseInv'
      BY <1>6, <2>1 DEF Respond, PhaseInv
    <2> QED
      BY <2>4, <2>5, <2>6, <2>7
  <1>7. ASSUME NEW o \in Owners, TryFinishWithError(o) PROVE IInv'
    <2>1. o \in Holders /\ Holders' = Holders /\ Senders' = Senders
      BY <1>7 DEF TryFinishWithError, Holders, Senders, TypeOK
    <2>2. TypeOK'
      BY <1>7 DEF TryFinishWithError, TypeOK, OwnerStates
    <2>3. RefCountExact' /\ AtMostOneResponse' /\ FlagInv'
      BY <1>7, <2>1 DEF TryFinishWithError, RefCountExact, SelfReference, AtMostOneResponse, FlagInv
    <2>4. refCount = 2 /\ ~responseSentFlag => Holders = {o}
      <3> HAVE refCount = 2 /\ ~responseSentFlag
      <3>1. tag = "none"
        BY DEF FlagInv, AtMostOneResponse
      <3>2. Cardinality(Holders) = 1
        BY <3>1 DEF RefCountExact, SelfReference
      <3> QED
        BY <2>1, <3>2, SingleHolder
    <2>5. LastInv'
      BY <1>7, <2>1, <2>4 DEF TryFinishWithError, LastInv, TypeOK
    <2>6. PhaseInv'
      BY <1>7, <2>1 DEF TryFinishWithError, PhaseInv
    <2> QED
      BY <2>2, <2>3, <2>5, <2>6
  <1>8. ASSUME NEW o \in Owners, FinishWithError(o) PROVE IInv'
    <2>1. o \in Holders /\ Holders' = Holders
      BY <1>8 DEF FinishWithError, Holders, TypeOK
    <2>2. TypeOK'
      BY <1>8 DEF FinishWithError, TypeOK, OwnerStates
    <2>3. RefCountExact' /\ AtMostOneResponse'
      BY <1>8, <2>1 DEF FinishWithError, RefCountExact, SelfReference, AtMostOneResponse
    <2>4. FlagInv'
      <3>1. CASE responseSentFlag
        <4>1. Senders' = Senders
          BY <1>8, <3>1 DEF FinishWithError, Senders, TypeOK
        <4> QED
          BY <1>8, <3>1, <4>1 DEF FinishWithError, FlagInv
      <3>2. CASE ~responseSentFlag
        <4>1. Senders = {} /\ responses = << >>
          BY <3>2 DEF FlagInv
        <4>2. Senders' = {o}
          BY <1>8, <3>2, <4>1 DEF FinishWithError, Senders, TypeOK
        <4> QED
          BY <1>8, <4>1, <4>2 DEF FinishWithError, FlagInv
      <3> QED
        BY <3>1, <3>2
    <2>5. LastInv'
      BY <1>8, <2>1 DEF FinishWithError, LastInv, TypeOK
    <2>6. PhaseInv'
      BY <1>8, <2>1 DEF FinishWithError, PhaseInv
    <2> QED
      BY <2>2, <2>3, <2>4, <2>5, <2>6
  <1>9. ASSUME NEW o \in Owners, RespondWithError(o) PROVE IInv'
    <2>1. o \in Holders /\ Holders' = Holders /\ Senders = {o} /\ Senders' = {}
      BY <1>9 DEF RespondWithError, Holders, Senders, FlagInv, TypeOK
    <2>2. responses = << >> /\ responseSentFlag /\ tag = "none"
      BY <2>1 DEF FlagInv, AtMostOneResponse
    <2>3. responses' = << "internal" >>
      BY <1>9, <2>2 DEF RespondWithError
    <2>4. TypeOK'
      BY <1>9, <2>3 DEF RespondWithError, TypeOK, OwnerStates
    <2>5. RefCountExact' /\ AtMostOneResponse' /\ FlagInv'
      BY <1>9, <2>1, <2>2, <2>3 DEF RespondWithError, RefCountExact, SelfReference, AtMostOneResponse, FlagInv
    <2>6. LastInv'
      BY <1>9, <2>1, <2>2 DEF RespondWithError, LastInv, TypeOK
    <2>7. PhaseInv'
      BY <1>9, <2>1 DEF RespondWithError, PhaseInv
    <2> QED
      BY <2>4, <2>5, <2>6, <2>7
  <1>10. ASSUME NEW o \in Owners, Release(o) PROVE IInv'
    <2>1. o \in Holders /\ Holders' = Holders \ {o} /\ Senders' = Senders
      BY <1>10 DEF Release, Holders, Senders, TypeOK
    <2>2. Cardinality(Holders') = Cardinality(Holders) - 1 /\ Cardinality(Holders) # 0
      BY <2>1, HoldersMinus
    <2>3. refCount # 0
      BY <2>2 DEF RefCountExact, SelfReference
    <2>4. TypeOK'
      BY <1>10, <2>3 DEF Release, DropReference, TypeOK, OwnerStates
    <2>5. RefCountExact'
      BY <1>10, <2>2 DEF Release, DropReference, RefCountExact, SelfReference, TypeOK
    <2>6. AtMostOneResponse' /\ FlagInv'
      BY <1>10, <2>1 DEF Release, AtMostOneResponse, FlagInv
    <2>7. LastInv'
      BY <1>10, <2>1 DEF Release, LastInv, TypeOK
    <2>8. PhaseInv'
      BY <1>10, <2>1, <2>3 DEF Release, DropReference, PhaseInv, TypeOK
    <2> QED
      BY <2>4, <2>5, <2>6, <2>7, <2>8
  <1>11. CASE Discard
    BY <1>11 DEF Discard, TypeOK, RefCountExact, SelfReference, Holders, AtMostOneResponse,
                 FlagInv, Senders, LastInv, PhaseInv
  <1>12. CASE UNCHANGED vars
    BY <1>12 DEF vars, TypeOK, RefCountExact, SelfReference, Holders, AtMostOneResponse,
                 FlagInv, Senders, LastInv, PhaseInv
  <1>13. ASSUME NEW o \in Owners, SerializeThrows(o) PROVE IInv'
    <2>1. o \in Holders /\ Holders' = Holders /\ Senders = {o} /\ Senders' = {}
      BY <1>13 DEF SerializeThrows, Holders, Senders, FlagInv, TypeOK
    <2>2. responses = << >> /\ responseSentFlag /\ tag = "none"
      BY <2>1 DEF FlagInv, AtMostOneResponse
    <2>3. TypeOK'
      BY <1>13 DEF SerializeThrows, TypeOK, OwnerStates
    <2>4. RefCountExact' /\ AtMostOneResponse' /\ FlagInv'
      BY <1>13, <2>1, <2>2 DEF SerializeThrows, RefCountExact, SelfReference, AtMostOneResponse, FlagInv
    <2>5. LastInv'
      BY <1>13, <2>1, <2>2 DEF SerializeThrows, LastInv, TypeOK
    <2>6. PhaseInv'
      BY <1>13, <2>1 DEF SerializeThrows, PhaseInv
    <2> QED
      BY <2>3, <2>4, <2>5, <2>6
  <1> QED
    BY <1>1, <1>2, <1>3, <1>4, <1>5, <1>6, <1>7, <1>8, <1>9, <1>10, <1>11, <1>12, <1>13
       DEF Next, OwnerStep, LibraryStep

LEMMA Invariance == Spec => []IInv
  <1> QED
    BY InitIInv, NextIInv, PTL DEF Spec

-----------------------------------------------------------------------------
(* Every variable of the call keeps its type.                              *)
THEOREM TypeCorrect == Spec => []TypeOK
  <1>1. IInv => TypeOK
    BY DEF IInv
  <1> QED
    BY <1>1, Invariance, PTL

(* _refCount counts exactly the owners and the call's own reference.       *)
THEOREM RefCountIsExact == Spec => []RefCountExact
  <1>1. IInv => RefCountExact
    BY DEF IInv
  <1> QED
    BY <1>1, Invariance, PTL

(* unary_call_impl is deleted exactly when neither an owner nor the        *)
(* completion queue can reach it any more.                                 *)
THEOREM NeverUsedAfterFree == Spec => []NoUseAfterFree
  <1>1. IInv => NoUseAfterFree
    <2> SUFFICES ASSUME IInv PROVE NoUseAfterFree
      OBVIOUS
    <2>1. refCount = 0 <=> (tag = "invoked" /\ Holders = {})
      BY NoHolder, HoldersFinite DEF IInv, RefCountExact, SelfReference
    <2> QED
      BY <2>1 DEF IInv, PhaseInv, NoUseAfterFree
  <1> QED
    BY <1>1, Invariance, PTL

(* However Finish calls and destructors interleave, the client is sent at  *)
(* most one response.                                                      *)
THEOREM SingleResponse == Spec => []AtMostOneResponse
  <1>1. IInv => AtMostOneResponse
    BY DEF IInv
  <1> QED
    BY <1>1, Invariance, PTL

(* The generic error never pre-empts an owner that could still answer.     *)
THEOREM ErrorOnlyFromLast == Spec => []InternalErrorOnlyFromLast
  <1>1. IInv => InternalErrorOnlyFromLast
    BY DEF IInv, LastInv, FlagInv, Senders, AtMostOneResponse, InternalErrorOnlyFromLast
  <1> QED
    BY <1>1, Invariance, PTL

(* A response once given to the responder is never replaced.               *)
THEOREM ResponseNeverChanges == Spec => ResponseIsFinal
  <1>1. IInv /\ [Next]_vars => [responses # << >> => responses' = responses]_vars
    <2> SUFFICES ASSUME IInv, Next, responses # << >>
                 PROVE  responses' = responses
      BY DEF vars
    <2>1. Senders = {}
      BY DEF IInv, FlagInv
    <2>2. \A o \in Owners : ~Respond(o) /\ ~RespondWithError(o)
      BY <2>1 DEF Respond, RespondWithError, Senders
    <2> QED
      BY <2>2 DEF Next, OwnerStep, LibraryStep, Receive, Discard, Invoke, AddRef, Move, Finish,
                  SerializeThrows, TryFinishWithError, FinishWithError, Release
  <1> QED
    BY <1>1, Invariance, PTL DEF Spec, ResponseIsFinal
=============================================================================
