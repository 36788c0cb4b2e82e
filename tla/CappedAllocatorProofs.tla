------------------------ MODULE CappedAllocatorProofs ----------------------
(***************************************************************************)
(* What CappedAllocator promises, proved for every number of blocks, every *)
(* word size, element size and maximum.                                    *)
(***************************************************************************)
EXTENDS CappedAllocator, FiniteSetTheorems, TLAPS

(* A size that try_add accepted is at most the maximum, a value it is      *)
(* about to exchange leaves room for it, and a block that was handed out   *)
(* has a size that did not wrap.                                           *)
SizesFit ==
    \A b \in Blocks :
        /\ pc[b] # "free" => Size(b) <= MaxValue
        /\ pc[b] = "cas" => val[b] <= MaxValue - Size(b)
        /\ pc[b] = "live" => n[b] * ElemSize < Word

(* The inductive invariant.                                                *)
IInv == TypeOK /\ CounterExact /\ SizesFit /\ value <= MaxValue

(* The bytes of one block of size k.                                       *)
Column(b, k) == {b} \X (1 .. k)

-----------------------------------------------------------------------------
LEMMA ProductNat == ASSUME NEW x \in Nat, NEW y \in Nat PROVE x * y \in Nat
  OBVIOUS

LEMMA ModRange == ASSUME NEW x \in Nat, NEW w \in Nat \ {0} PROVE x % w \in 0 .. (w - 1)
  OBVIOUS

LEMMA ModSmall == ASSUME NEW w \in Nat \ {0}, NEW x \in 0 .. (w - 1) PROVE x % w = x
  OBVIOUS

LEMMA ModWrap == ASSUME NEW w \in Nat \ {0}, NEW x \in 0 .. (w - 1) PROVE (x + w) % w = x
  OBVIOUS

(* Subtraction in a machine word is subtraction when it does not go below  *)
(* zero.                                                                   *)
LEMMA MinusExact ==
  ASSUME NEW x \in 0 .. (Word - 1), NEW y \in 0 .. x
  PROVE  Minus(x, y) = x - y
<1>1. x - y \in 0 .. (Word - 1) /\ x + Word - y = (x - y) + Word
  BY WordAssumption
<1> QED BY <1>1, ModWrap, WordAssumption DEF Minus

LEMMA PlusExact ==
  ASSUME NEW x \in Nat, NEW y \in Nat, x + y < Word
  PROVE  Plus(x, y) = x + y
BY ModSmall, WordAssumption DEF Plus

LEMMA ProductSizeType ==
  ASSUME NEW k \in 0 .. (Word - 1)
  PROVE  k * ElemSize \in Nat /\ (k * ElemSize) % Word \in 0 .. (Word - 1)
<1>1. k \in Nat /\ ElemSize \in Nat BY SizeAssumption, WordAssumption
<1>2. k * ElemSize \in Nat BY <1>1, ProductNat
<1> QED BY <1>2, ModRange, WordAssumption

LEMMA SizeType ==
  ASSUME TypeOK, NEW b \in Blocks
  PROVE  n[b] * ElemSize \in Nat /\ Size(b) \in 0 .. (Word - 1)
BY ProductSizeType DEF TypeOK, Size

LEMMA ColumnCardinality ==
  ASSUME NEW b, NEW k \in Nat
  PROVE  IsFiniteSet(Column(b, k)) /\ Cardinality(Column(b, k)) = k
<1>1. IsFiniteSet({b}) /\ Cardinality({b}) = 1 BY FS_Singleton
<1>2. IsFiniteSet(1 .. k) /\ Cardinality(1 .. k) = k BY FS_Interval
<1>3. /\ IsFiniteSet({b} \X (1 .. k))
      /\ Cardinality({b} \X (1 .. k)) = Cardinality({b}) * Cardinality(1 .. k)
  BY <1>1, <1>2, FS_Product
<1> QED BY <1>1, <1>2, <1>3 DEF Column

LEMMA BytesFinite ==
  /\ IsFiniteSet(ChargedBytes)
  /\ IsFiniteSet(LiveBytes)
<1>1. IsFiniteSet(1 .. Word) BY FS_Interval, WordAssumption
<1>2. IsFiniteSet(Blocks \X (1 .. Word)) BY <1>1, FS_Product, BlocksAssumption
<1>3. /\ ChargedBytes \in SUBSET (Blocks \X (1 .. Word))
      /\ LiveBytes \in SUBSET (Blocks \X (1 .. Word))
  BY DEF ChargedBytes, LiveBytes
<1> HIDE DEF ChargedBytes, LiveBytes
<1> QED BY <1>2, <1>3, FS_Subset

(* The bytes of a charged block are among those that are counted.          *)
LEMMA ColumnCharged ==
  ASSUME TypeOK, NEW b \in Blocks, Charges(b)
  PROVE  Column(b, Size(b)) \subseteq ChargedBytes
<1>1. Size(b) \in 0 .. (Word - 1) BY SizeType
<1> QED BY <1>1, WordAssumption DEF Column, ChargedBytes

LEMMA ChargedAtLeast ==
  ASSUME TypeOK, CounterExact, NEW b \in Blocks, Charges(b)
  PROVE  value >= Size(b)
<1>1. Size(b) \in Nat BY SizeType
<1>2. Size(b) <= Cardinality(ChargedBytes)
  BY <1>1, ColumnCharged, ColumnCardinality, BytesFinite, FS_Subset
<1>3. Cardinality(ChargedBytes) \in Nat BY BytesFinite, FS_CardinalityType
<1> QED BY <1>1, <1>2, <1>3, BaseAssumption, SizeAssumption DEF CounterExact

(* What is counted when a block is charged ...                             *)
LEMMA ChargeOne ==
  ASSUME TypeOK, CounterExact, NEW b \in Blocks, ~Charges(b), n' = n,
         ChargedBytes' = ChargedBytes \cup Column(b, Size(b)),
         value' = value + Size(b)
  PROVE  CounterExact'
<1>1. Size(b) \in Nat BY SizeType
<1>2. ChargedBytes \cap Column(b, Size(b)) = {}
  BY DEF ChargedBytes, Column
<1>3. Cardinality(ChargedBytes) \in Nat BY BytesFinite, FS_CardinalityType
<1>4. Cardinality(ChargedBytes') = Cardinality(ChargedBytes) + Size(b) - 0
  BY <1>2, BytesFinite, <1>1, ColumnCardinality, FS_Union, FS_EmptySet
<1> QED BY <1>1, <1>3, <1>4, BaseAssumption, SizeAssumption DEF CounterExact

(* ... and when its charge is taken back.                                  *)
LEMMA UnchargeOne ==
  ASSUME TypeOK, CounterExact, NEW b \in Blocks, Charges(b),
         ChargedBytes' = ChargedBytes \ Column(b, Size(b)),
         value' = value - Size(b)
  PROVE  CounterExact'
<1>1. Size(b) \in Nat BY SizeType
<1>2. ChargedBytes \cap Column(b, Size(b)) = Column(b, Size(b))
  BY ColumnCharged
<1>3. Cardinality(ChargedBytes) \in Nat BY BytesFinite, FS_CardinalityType
<1>4. Cardinality(ChargedBytes') = Cardinality(ChargedBytes) - Size(b)
  <2>1. Cardinality(ChargedBytes \ Column(b, Size(b)))
          = Cardinality(ChargedBytes) - Cardinality(ChargedBytes \cap Column(b, Size(b)))
    BY BytesFinite, FS_Difference
  <2>2. Cardinality(Column(b, Size(b))) = Size(b) BY <1>1, ColumnCardinality
  <2> QED BY <1>2, <2>1, <2>2
<1> QED BY <1>1, <1>3, <1>4, BaseAssumption, SizeAssumption DEF CounterExact

-----------------------------------------------------------------------------
LEMMA InitIInv == Init => IInv
<1> SUFFICES ASSUME Init PROVE IInv
  OBVIOUS
<1>1. TypeOK
  BY WordAssumption, SizeAssumption, BaseAssumption DEF Init, TypeOK, PcStates
<1>2. ChargedBytes = {}
  BY DEF Init, ChargedBytes, Charges
<1>3. CounterExact
  BY <1>2, FS_EmptySet, BaseAssumption, SizeAssumption DEF Init, CounterExact
<1>4. SizesFit
  BY DEF Init, SizesFit
<1> QED BY <1>1, <1>3, <1>4, BaseAssumption, SizeAssumption DEF IInv, Init

(* try_add raises the counter by the size, and not beyond the maximum.     *)
LEMMA ChargePreserves ==
  ASSUME IInv, NEW b \in Blocks, CompareExchange(b)
  PROVE  IInv'
<1> USE DEF IInv
<1>1. Size(b) \in 0 .. (Word - 1) /\ Size(b) <= MaxValue
  BY SizeType DEF CompareExchange, SizesFit
<1>2. value + Size(b) <= MaxValue
  BY <1>1, SizeAssumption, WordAssumption DEF CompareExchange, SizesFit, TypeOK
<1>3. value' = value + Size(b)
  BY <1>1, <1>2, PlusExact, SizeAssumption, WordAssumption DEF CompareExchange, TypeOK
<1>4. TypeOK'
  BY <1>1, <1>2, <1>3, SizeAssumption, WordAssumption DEF CompareExchange, TypeOK, PcStates
<1>5. ChargedBytes' = ChargedBytes \cup Column(b, Size(b))
  <2>1. n' = n /\ \A c \in Blocks : Size(c)' = Size(c)
    BY DEF CompareExchange, Size
  <2>2. \A c \in Blocks : Charges(c)' <=> Charges(c) \/ c = b
    BY DEF CompareExchange, TypeOK, Charges
  <2> QED BY <1>1, <2>1, <2>2, WordAssumption DEF ChargedBytes, Column
<1>6. CounterExact'
  BY <1>3, <1>5, ChargeOne DEF CompareExchange, Charges
<1>7. SizesFit'
  BY DEF CompareExchange, SizesFit, TypeOK, Size
<1> QED BY <1>2, <1>3, <1>4, <1>6, <1>7

(* The catch clause of allocate and the end of deallocate lower it by as   *)
(* much.                                                                   *)
LEMMA UnchargePreserves ==
  ASSUME IInv, NEW b \in Blocks, Rollback(b) \/ Subtract(b)
  PROVE  IInv'
<1> USE DEF IInv
<1>1. Size(b) \in 0 .. (Word - 1) /\ Charges(b)
  BY SizeType DEF Rollback, Subtract, Charges
<1>2. value >= Size(b) BY <1>1, ChargedAtLeast
<1>3. value' = value - Size(b)
  BY <1>1, <1>2, MinusExact, WordAssumption DEF Rollback, Subtract, TypeOK
<1>4. TypeOK'
  BY <1>1, <1>2, <1>3, WordAssumption DEF Rollback, Subtract, TypeOK, PcStates
<1>5. ChargedBytes' = ChargedBytes \ Column(b, Size(b))
  BY <1>1 DEF Rollback, Subtract, TypeOK, ChargedBytes, Charges, Column, Size
<1>6. CounterExact'
  BY <1>1, <1>3, <1>5, UnchargeOne
<1>7. SizesFit'
  BY DEF Rollback, Subtract, SizesFit, TypeOK, Size
<1>8. value' <= MaxValue
  BY <1>1, <1>2, <1>3, SizeAssumption, WordAssumption DEF TypeOK
<1> QED BY <1>4, <1>6, <1>7, <1>8

(* Reading the counter, first or again, changes no charge.                 *)
LEMMA ReadPreserves ==
  ASSUME IInv, NEW b \in Blocks, pc[b] \in {"load", "cas"}, Read(b), UNCHANGED <<value, n>>
  PROVE  IInv'
<1> USE DEF IInv
<1>1. Size(b) \in 0 .. (Word - 1) /\ Size(b) <= MaxValue
  BY SizeType DEF SizesFit
<1>2. Minus(MaxValue, Size(b)) = MaxValue - Size(b)
  BY <1>1, MinusExact, SizeAssumption, WordAssumption
<1>3. TypeOK' BY DEF Read, TypeOK, PcStates
<1>4. ChargedBytes' = ChargedBytes
  BY DEF Read, TypeOK, ChargedBytes, Charges, Size
<1>5. SizesFit'
  BY <1>1, <1>2 DEF Read, SizesFit, TypeOK, Size
<1> QED BY <1>3, <1>4, <1>5 DEF CounterExact

LEMMA NextIInv == IInv /\ [Next]_vars => IInv'
<1> USE DEF IInv
<1> SUFFICES ASSUME IInv, [Next]_vars PROVE IInv'
  OBVIOUS
<1>1. ASSUME NEW b \in Blocks, NEW k \in 0 .. (Word - 1), Allocate(b, k) PROVE IInv'
  <2>1. TypeOK' BY <1>1 DEF Allocate, TypeOK, PcStates
  <2>2. ChargedBytes' = ChargedBytes
    BY <1>1 DEF Allocate, TypeOK, ChargedBytes, Charges, Size
  <2>3. SizesFit'
    BY <1>1 DEF Allocate, SizesFit, TypeOK, Size
  <2> QED BY <1>1, <2>1, <2>2, <2>3 DEF CounterExact, Allocate
<1>2. ASSUME NEW b \in Blocks, Load(b) PROVE IInv'
  BY <1>2, ReadPreserves DEF Load
<1>3. ASSUME NEW b \in Blocks, CompareExchangeFails(b) PROVE IInv'
  BY <1>3, ReadPreserves DEF CompareExchangeFails
<1>4. ASSUME NEW b \in Blocks, BaseAllocate(b) \/ BaseThrows(b) \/ Deallocate(b) PROVE IInv'
  <2> USE <1>4 DEF BaseAllocate, BaseThrows, Deallocate
  <2>1. TypeOK' BY DEF TypeOK, PcStates
  <2>2. ChargedBytes' = ChargedBytes
    BY DEF TypeOK, ChargedBytes, Charges, Size
  <2>3. SizesFit' BY DEF SizesFit, TypeOK, Size
  <2> QED BY <2>1, <2>2, <2>3 DEF CounterExact
<1>5. CASE UNCHANGED vars
  <2>1. ChargedBytes' = ChargedBytes BY <1>5 DEF vars, ChargedBytes, Charges, Size
  <2> QED BY <1>5, <2>1 DEF vars, TypeOK, CounterExact, SizesFit, Size
<1>6. CASE Next
  <2>1. PICK b \in Blocks : BlockStep(b) BY <1>6 DEF Next
  <2> QED BY <2>1, <1>1, <1>2, <1>3, <1>4, ChargePreserves, UnchargePreserves DEF BlockStep
<1> QED BY <1>5, <1>6

LEMMA Invariance == Spec => []IInv
BY InitIInv, NextIInv, PTL DEF Spec

-----------------------------------------------------------------------------
(* Every variable keeps its type; in particular the counter never wraps.   *)
THEOREM TypeCorrect == Spec => []TypeOK
<1>1. IInv => TypeOK BY DEF IInv
<1> QED BY <1>1, Invariance, PTL

(* The counter is always the sum of the charges in force: no interleaving  *)
(* of try_add, subtract and failing allocations loses or invents a byte.   *)
THEOREM CounterIsExact == Spec => []CounterExact
<1>1. IInv => CounterExact BY DEF IInv
<1> QED BY <1>1, Invariance, PTL

(* The bytes handed out never exceed the maximum of the counter.           *)
THEOREM CapHolds == Spec => []BytesWithinCap
<1>1. IInv => BytesWithinCap
  <2> SUFFICES ASSUME IInv PROVE BytesWithinCap
    OBVIOUS
  <2> USE DEF IInv
  <2>1. \A b \in Blocks : pc[b] = "live" => Size(b) = n[b] * ElemSize
    BY SizeType, ModSmall, WordAssumption DEF SizesFit, Size
  <2>2. LiveBytes \subseteq ChargedBytes
    BY <2>1 DEF LiveBytes, ChargedBytes, Charges
  <2>3. Cardinality(LiveBytes) <= Cardinality(ChargedBytes)
    BY <2>2, BytesFinite, FS_Subset
  <2>4. Cardinality(LiveBytes) \in Nat /\ Cardinality(ChargedBytes) \in Nat
    BY BytesFinite, FS_CardinalityType
  <2> QED BY <2>3, <2>4, BaseAssumption, SizeAssumption DEF BytesWithinCap, CounterExact
<1> QED BY <1>1, Invariance, PTL

(* The assertion in subtract() holds whenever it is evaluated.             *)
THEOREM SubtractNeverUnderflows == Spec => []NoUnderflow
<1>1. IInv => NoUnderflow
  BY ChargedAtLeast DEF IInv, NoUnderflow, Charges
<1> QED BY <1>1, Invariance, PTL
=============================================================================
