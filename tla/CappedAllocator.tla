--------------------------- MODULE CappedAllocator -------------------------
(***************************************************************************)
(* bond::ext::capped_allocator over a multi_threaded_counter               *)
(* (src/cpp/inc/bond/ext/capped_allocator.h, multi_threaded_counter.h,     *)
(* shared_counter.h): allocate charges the counter before it calls the     *)
(* underlying allocator and takes the charge back when that throws;        *)
(* deallocate gives the memory back before it takes back the charge.       *)
(*                                                                         *)
(* The processes are the memory blocks: each is allocated and freed by one *)
(* thread at a time, different blocks by different threads.  Sizes are     *)
(* computed in a machine word, so n * sizeof(value_type) may wrap.         *)
(***************************************************************************)
EXTENDS Naturals, FiniteSets

CONSTANTS
    Blocks,                 \* the blocks that are allocated and freed
    Word,                   \* 2^w, for size_type of w bits
    ElemSize,               \* sizeof(value_type)
    MaxValue,               \* _max_value of the counter
    Base,                   \* what a counter that lives in capped memory charges for itself
    Keeping                 \* the blocks of an allocator with _subtract_on_deallocate off

ASSUME WordAssumption == Word \in Nat \ {0}

ASSUME SizeAssumption == ElemSize \in 1 .. (Word - 1) /\ MaxValue \in 0 .. (Word - 1)

(* shared_counter::allocate_counter has charged the counter's own size, or *)
(* thrown bad_alloc.                                                       *)
ASSUME BaseAssumption == Base \in 0 .. MaxValue

ASSUME BlocksAssumption == IsFiniteSet(Blocks) /\ Keeping \subseteq Blocks

VARIABLES
    value,      \* _value of the counter
    pc,         \* where each block is
    n,          \* the number of elements each block was requested with
    val         \* the counter value that each try_add has read

vars == <<value, pc, n, val>>

(***************************************************************************)
(* "free"      not allocated                                               *)
(* "load"      try_add is about to load the counter                        *)
(* "cas"       try_add is about to compare and exchange                    *)
(* "charged"   the counter was raised, the allocator not yet called        *)
(* "live"      the caller has the memory                                   *)
(* "rollback"  the allocator threw                                         *)
(* "returned"  the memory is gone, the counter not yet lowered             *)
(* "spent"     the same for good: the counter keeps the charge             *)
(***************************************************************************)
PcStates == {"free", "load", "cas", "charged", "live", "rollback", "returned", "spent"}

TypeOK ==
    /\ value \in 0 .. (Word - 1)
    /\ pc \in [Blocks -> PcStates]
    /\ n \in [Blocks -> 0 .. (Word - 1)]
    /\ val \in [Blocks -> 0 .. (Word - 1)]

Init ==
    /\ value = Base
    /\ pc = [b \in Blocks |-> "free"]
    /\ n = [b \in Blocks |-> 0]
    /\ val = [b \in Blocks |-> 0]

(* Arithmetic of size_type.                                                *)
Plus(x, y) == (x + y) % Word
Minus(x, y) == (x + Word - y) % Word

(* const auto size = n * sizeof(value_type)                                *)
Size(b) == (n[b] * ElemSize) % Word

-----------------------------------------------------------------------------
(* Mutant: try_add does not test n <= max_value().                         *)
AllocateUnchecked(b, k) ==
    /\ pc[b] = "free"
    /\ n' = [n EXCEPT ![b] = k]
    /\ pc' = [pc EXCEPT ![b] = "load"]
    /\ UNCHANGED <<value, val>>

(* allocate(k): try_add refuses a size above the maximum at once, and      *)
(* bad_alloc is thrown.                                                    *)
Allocate(b, k) ==
    /\ pc[b] = "free"
    /\ n' = [n EXCEPT ![b] = k]
    /\ pc' = [pc EXCEPT ![b] = IF (k * ElemSize) % Word <= MaxValue THEN "load" ELSE "free"]
    /\ UNCHANGED <<value, val>>

(* The condition of try_add's loop, for the value just read.               *)
Read(b) ==
    /\ val' = [val EXCEPT ![b] = value]
    /\ pc' = [pc EXCEPT ![b] = IF value <= Minus(MaxValue, Size(b)) THEN "cas" ELSE "free"]

Load(b) ==
    /\ pc[b] = "load"
    /\ Read(b)
    /\ UNCHANGED <<value, n>>

CompareExchange(b) ==
    /\ pc[b] = "cas"
    /\ value = val[b]
    /\ value' = Plus(val[b], Size(b))
    /\ pc' = [pc EXCEPT ![b] = "charged"]
    /\ UNCHANGED <<n, val>>

(* compare_exchange_weak fails, for another value or spuriously, and reads *)
(* the counter again.                                                      *)
CompareExchangeFails(b) ==
    /\ pc[b] = "cas"
    /\ Read(b)
    /\ UNCHANGED <<value, n>>

(* The underlying allocator returns memory, which it cannot for more bytes *)
(* than there are addresses ...                                            *)
BaseAllocate(b) ==
    /\ pc[b] = "charged"
    /\ n[b] * ElemSize < Word
    /\ pc' = [pc EXCEPT ![b] = "live"]
    /\ UNCHANGED <<value, n, val>>

(* ... or throws.                                                          *)
BaseThrows(b) ==
    /\ pc[b] = "charged"
    /\ pc' = [pc EXCEPT ![b] = "rollback"]
    /\ UNCHANGED <<value, n, val>>

(* Mutant: the counter keeps the charge of an allocation that threw.       *)
RollbackForgotten(b) ==
    /\ pc[b] = "rollback"
    /\ pc' = [pc EXCEPT ![b] = "free"]
    /\ UNCHANGED <<value, n, val>>

(* The catch clause of allocate.                                           *)
Rollback(b) ==
    /\ pc[b] = "rollback"
    /\ value' = Minus(value, Size(b))
    /\ pc' = [pc EXCEPT ![b] = "free"]
    /\ UNCHANGED <<n, val>>

(* deallocate, first statement, ...                                        *)
Deallocate(b) ==
    /\ pc[b] = "live"
    /\ pc' = [pc EXCEPT ![b] = IF b \in Keeping THEN "spent" ELSE "returned"]
    /\ UNCHANGED <<value, n, val>>

(* ... and second.                                                         *)
Subtract(b) ==
    /\ pc[b] = "returned"
    /\ value' = Minus(value, Size(b))
    /\ pc' = [pc EXCEPT ![b] = "free"]
    /\ UNCHANGED <<n, val>>

BlockStep(b) ==
    \/ \E k \in 0 .. (Word - 1) : Allocate(b, k)
    \/ Load(b)
    \/ CompareExchange(b)
    \/ CompareExchangeFails(b)
    \/ BaseAllocate(b)
    \/ BaseThrows(b)
    \/ Rollback(b)
    \/ Deallocate(b)
    \/ Subtract(b)

Next == \E b \in Blocks : BlockStep(b)

Spec == Init /\ [][Next]_vars

-----------------------------------------------------------------------------
(* The blocks whose size the counter includes.                             *)
Charges(b) == pc[b] \in {"charged", "live", "rollback", "returned", "spent"}

(* One element per byte that the counter includes, and per byte that was   *)
(* really handed out.                                                      *)
ChargedBytes == {p \in Blocks \X (1 .. Word) : Charges(p[1]) /\ p[2] <= Size(p[1])}
LiveBytes == {p \in Blocks \X (1 .. Word) : pc[p[1]] = "live" /\ p[2] <= n[p[1]] * ElemSize}

(* No charge is lost or kept too long: the counter is the sum of the sizes *)
(* of exactly the blocks between the exchange and the subtraction, however *)
(* threads interleave inside try_add.                                      *)
CounterExact == value = Base + Cardinality(ChargedBytes)

(* "fails allocations by throwing std::bad_alloc if the maximum number of  *)
(* bytes to be allocated is exceeded" (capped_allocator.h:60-61).  The     *)
(* bytes handed out never exceed the maximum, although the product that is *)
(* charged may wrap.                                                       *)
BytesWithinCap == Base + Cardinality(LiveBytes) <= MaxValue

(* The BOOST_ASSERT in subtract (multi_threaded_counter.h:59): whoever     *)
(* subtracts finds at least that much in the counter.                      *)
NoUnderflow == \A b \in Blocks : pc[b] \in {"rollback", "returned"} => value >= Size(b)
=============================================================================
