------------------------------ MODULE Nullable ------------------------------
(***************************************************************************)
(* bond::nullable<T> (src/cpp/inc/bond/core/nullable.h) for a T that is    *)
(* kept on the heap, with a stateful allocator: the owner of a pointer and *)
(* of the allocator the pointer must go back to.  T is a generated struct  *)
(* of one field, nullable<T> next, so that a value is a list of cells, and *)
(* what T's own constructors, assignment and destructor do is what they do *)
(* to next.                                                                *)
(***************************************************************************)
EXTENDS Integers, FiniteSets, TLC

CONSTANTS
    NullVars,       \* the caller's nullable variables
    NullCells,      \* heap cells: an allocation throws when none is free
    NullAllocators  \* allocator instances, pairwise different

Free == "free"
Null == "null"
Dead == [alloc |-> "dead", ptr |-> Null]
Temp == "temp"      \* the temporary of an assignment

(* mem.of: the allocator a cell was allocated with, or Free.               *)
(* mem.at: the nullable of each variable, of the temporary and, as next,   *)
(*   of each cell: [alloc, ptr], or Dead where none is constructed.        *)
(* mem.fault: a destroyed nullable was used or a pointer was deallocated   *)
(*   with an allocator that it does not come from.                         *)
(* abandoned: cells whose last pointer a move has overwritten.             *)
VARIABLES mem, abandoned

nullableVars == <<mem, abandoned>>

At(m, x, n) == [m EXCEPT !.at[x] = n]
Pointer(m, x) == m.at[x].ptr
FreeCells(m) == {c \in NullCells : m.of[c] = Free}
Fails(m) == [ok |-> FALSE, m |-> m, lost |-> {}]
Succeeds(m) == [ok |-> TRUE, m |-> m, lost |-> {}]

-----------------------------------------------------------------------------
(* new_value: a cell of the allocator a, T constructed in it by Construct. *)
NewValue(m, a, Construct(_, _)) ==
    IF FreeCells(m) = {} THEN Fails(m) @@ [cell |-> Null]
    ELSE LET c == CHOOSE q \in FreeCells(m) : TRUE
             r == Construct([m EXCEPT !.of[c] = a], c)
         IN  IF r.ok THEN r @@ [cell |-> c]
             ELSE [r EXCEPT !.m.of[c] = Free] @@ [cell |-> Null]

(* A nullable with the allocator a around the new value.                   *)
Holding(x, a, r) == [ok |-> r.ok, m |-> IF r.ok THEN At(r.m, x, [alloc |-> a, ptr |-> r.cell]) ELSE r.m, lost |-> r.lost]

RECURSIVE ResetAt(_, _)

(* delete_value: T is destroyed, which resets next, then the cell goes to  *)
(* this nullable's allocator.                                              *)
DeleteValue(m, x, c) ==
    LET n == ResetAt([m EXCEPT !.at[x].ptr = Null, !.fault = @ \/ m.of[c] # m.at[x].alloc], c)
    IN  [n EXCEPT !.at[c] = Dead, !.of[c] = Free]

ResetAt(m, x) ==
    CASE m.at[x] = Dead -> [m EXCEPT !.fault = TRUE]
      [] m.at[x] # Dead /\ Pointer(m, x) = Null -> m
      [] m.at[x] # Dead /\ Pointer(m, x) # Null -> DeleteValue(m, x, Pointer(m, x))

DestroyAt(m, x) == At(ResetAt(m, x), x, Dead)

(* nullable(const nullable&), and nullable(const nullable&, alloc) when    *)
(* A = {alloc}: a deep copy.                                               *)
RECURSIVE CopyTo(_, _, _, _)
CopyTo(m, x, y, A) ==
    LET a == IF A = {} THEN m.at[y].alloc ELSE CHOOSE q \in A : TRUE IN
    IF Pointer(m, y) = Null THEN Succeeds(At(m, x, [alloc |-> a, ptr |-> Null]))
    ELSE Holding(x, a, NewValue(m, a, LAMBDA n, c : CopyTo(n, c, Pointer(m, y), A)))

(* nullable(nullable&&).                                                   *)
MoveTo(m, x, y) == Succeeds([At(m, x, m.at[y]) EXCEPT !.at[y].ptr = Null])

(* nullable(nullable&&, alloc): between different allocators the value is  *)
(* moved to a new cell, and other._value is cleared without being deleted. *)
RECURSIVE MoveToAllocator(_, _, _, _)
MoveToAllocator(m, x, y, a) ==
    LET c == Pointer(m, y)
        Cleared(r) == IF r.ok THEN [r EXCEPT !.m.at[y].ptr = Null] ELSE r
    IN  CASE m.at[y].alloc = a -> Cleared(Succeeds(At(m, x, m.at[y])))
          [] m.at[y].alloc # a /\ c = Null -> Succeeds(At(m, x, [alloc |-> a, ptr |-> Null]))
          [] m.at[y].alloc # a /\ c # Null ->
               LET r == Holding(x, a, NewValue(m, a, LAMBDA n, d : MoveToAllocator(n, d, c, a)))
               IN  IF r.ok THEN [Cleared(r) EXCEPT !.lost = @ \cup {c}] ELSE r

(* Mutant: only the pointers are exchanged.                                *)
SwapPointers(m, x, y) == [m EXCEPT !.at[x].ptr = Pointer(m, y), !.at[y].ptr = Pointer(m, x)]

(* swap: allocators and pointers.                                          *)
SwapAt(m, x, y) == [m EXCEPT !.at[x] = m.at[y], !.at[y] = m.at[x]]

(* The two operator=: a temporary, a swap, and the temporary's destructor. *)
SwapIn(r, x) == IF r.ok THEN [r EXCEPT !.m = DestroyAt(SwapAt(r.m, Temp, x), Temp)] ELSE r
AssignCopy(m, x, y) == SwapIn(CopyTo(m, Temp, y, {}), x)
AssignMove(m, x, y) == SwapIn(MoveTo(m, Temp, y), x)

-----------------------------------------------------------------------------
Live(m) == {x \in NullVars : m.at[x] # Dead}

(* The cells a nullable owns, directly and through next.                   *)
RECURSIVE Below(_, _)
Below(m, x) ==
    IF m.at[x] = Dead \/ Pointer(m, x) = Null THEN {}
    ELSE LET c == Pointer(m, x) IN {c} \cup Below(At(m, x, Dead), c)

(* The nullables the caller can name, and the values it can.               *)
OwnedCells(m) == UNION {Below(m, x) : x \in Live(m)}
Nullables(m) == Live(m) \cup OwnedCells(m)

(* The effect of an operation, thrown exceptions included.                 *)
Become(r) == mem' = r.m /\ abandoned' = abandoned \cup r.lost

NullableInit ==
    /\ mem = [of |-> [c \in NullCells |-> Free],
              at |-> [x \in NullVars \cup NullCells \cup {Temp} |-> Dead], fault |-> FALSE]
    /\ abandoned = {}

Construct(x) == \E a \in NullAllocators : Become(Succeeds(At(mem, x, [alloc |-> a, ptr |-> Null])))

CopyConstruct(x, y) == Become(CopyTo(mem, x, y, {}))
CopyConstructWith(x, y) == \E a \in NullAllocators : Become(CopyTo(mem, x, y, {a}))
MoveConstruct(x, y) == Become(MoveTo(mem, x, y))
MoveConstructWith(x, y) == \E a \in NullAllocators : Become(MoveToAllocator(mem, x, y, a))

(* nullable(const T&, alloc) and nullable(T&&, alloc).                     *)
ConstructFromValue(x, v) ==
    \E a \in NullAllocators, move \in BOOLEAN :
        Become(Holding(x, a, NewValue(mem, a, LAMBDA n, c : IF move THEN MoveTo(n, c, v) ELSE CopyTo(n, c, v, {}))))

Destroy(x) == Become(Succeeds(DestroyAt(mem, x)))

CopyAssign(x, y) == Become(AssignCopy(mem, x, y))
MoveAssign(x, y) == Become(AssignMove(mem, x, y))
Swap(x, y) == Become(Succeeds(SwapAt(mem, x, y)))

(* set(): T is constructed with this nullable's allocator.                 *)
SetDefault(x) ==
    LET a == mem.at[x].alloc IN
    /\ Pointer(mem, x) = Null
    /\ Become(Holding(x, a, NewValue(mem, a, LAMBDA n, c : Succeeds(At(n, c, [alloc |-> a, ptr |-> Null])))))

(* set_value(U&&): the value is constructed or assigned.                   *)
SetValueAt(x, v, move) ==
    LET a == mem.at[x].alloc  p == Pointer(mem, x) IN
    IF p = Null
    THEN Holding(x, a, NewValue(mem, a, LAMBDA n, c : IF move THEN MoveTo(n, c, v) ELSE CopyTo(n, c, v, {})))
    ELSE IF move THEN AssignMove(mem, p, v) ELSE AssignCopy(mem, p, v)

SetCopy(x, v) == Become(SetValueAt(x, v, FALSE))
SetMove(x, v) == Become(SetValueAt(x, v, TRUE))

Reset(x) == Become(Succeeds(ResetAt(mem, x)))

(* resize_list, called by the parser for a list of size elements.          *)
ResizeList(x, size) == IF size # 0 THEN SetDefault(x) ELSE Reset(x)

(* The caller does not move a value into something it owns.                *)
NullableNext ==
    \/ \E x \in NullVars \ Live(mem) :
           \/ Construct(x)
           \/ \E y \in Nullables(mem) :
                  CopyConstruct(x, y) \/ CopyConstructWith(x, y) \/ MoveConstruct(x, y) \/ MoveConstructWith(x, y)
           \/ \E v \in OwnedCells(mem) : ConstructFromValue(x, v)
    \/ \E x \in Live(mem) : Destroy(x)
    \/ \E x \in Nullables(mem) :
           \/ ResizeList(x, 0)
           \/ ResizeList(x, 1)
           \/ \E y \in Nullables(mem) :
                  \/ CopyAssign(x, y)
                  \/ x \notin Below(mem, y) /\ MoveAssign(x, y)
                  \/ x \notin Below(mem, y) /\ y \notin Below(mem, x) /\ Swap(x, y)
           \/ \E v \in OwnedCells(mem) :
                  \/ SetCopy(x, v)
                  \/ x # v /\ x \notin Below(mem, v) /\ SetMove(x, v)

NullableSpec == NullableInit /\ [][NullableNext]_nullableVars

-----------------------------------------------------------------------------
Owners(c) == {x \in NullVars \cup {d \in NullCells : mem.of[d] # Free} : mem.at[x] # Dead /\ Pointer(mem, x) = c}

(* After any sequence of copies, moves, swaps and failed allocations every *)
(* cell in use has exactly one owner, which holds the allocator the cell   *)
(* came from and is reached from a variable; a free cell has none; nothing *)
(* was freed twice or to another allocator.  The one exception is a cell   *)
(* that nullable(nullable&&, alloc) has abandoned.                         *)
NullableOwnsItsValue ==
    /\ ~mem.fault
    /\ mem.at[Temp] = Dead
    /\ \A c \in NullCells :
           IF mem.of[c] = Free \/ c \in abandoned THEN Owners(c) = {}
           ELSE c \in OwnedCells(mem) /\ \E x \in Owners(c) : Owners(c) = {x} /\ mem.at[x].alloc = mem.of[c]

=============================================================================
