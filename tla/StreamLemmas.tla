---------------------------- MODULE StreamLemmas ----------------------------
(***************************************************************************)
(* What the operators of Streams compute, for every argument: the writes   *)
(* of an output stream append, GetBuffer merges, and reading a variable-   *)
(* length integer inverts writing it. The recursive functions in them are  *)
(* treated alike: their recursion has a solution, has only one, and the    *)
(* operator is a value of it.                                              *)
(***************************************************************************)
EXTENDS Streams, SequenceTheorems, FiniteSetTheorems, WellFoundedInduction, TLAPS

(* Induction, and the least element of a set of numbers.                   *)
LEMMA Least == ASSUME NEW S \in SUBSET Nat, S # {} PROVE \E n \in S : \A m \in S : n <= m
  <1> DEFINE R == {ss \in Nat \X Nat : ss[1] < ss[2]}
  <1>1. IsWellFoundedOn(R, Nat)
    BY NatLessThanWellFounded DEF OpToRel
  <1>3. \A m, n \in S : <<m, n>> \in R <=> m < n
    OBVIOUS
  <1> HIDE DEF R
  <1>2. PICK n \in S : \A m \in S : ~(<<m, n>> \in R)
    BY <1>1, WFMin
  <1>4. \A m \in S : ~(m < n) /\ m \in Nat /\ n \in Nat
    BY <1>2, <1>3
  <1>5. \A m \in S : n <= m
    BY <1>4
  <1> QED
    BY <1>5

(* A set with 0 that has with every number the next one has all of them.   *)
LEMMA NatInd == ASSUME NEW S, 0 \in S, \A n \in Nat : n \in S => n + 1 \in S PROVE Nat \subseteq S
  <1> DEFINE T == {n \in Nat : n \notin S}
  <1> SUFFICES ASSUME T # {} PROVE FALSE
    OBVIOUS
  <1>1. PICK n \in T : \A m \in T : n <= m
    BY Least
  <1>2. n # 0 /\ n - 1 \in Nat /\ n - 1 \notin T
    BY <1>1
  <1> QED
    BY <1>2, <1>1

(* A function on 1 .. n is a sequence.                                     *)
LEMMA FunctionIsSeq == ASSUME NEW X, NEW n \in Nat, NEW f \in [1 .. n -> X] PROVE f \in Seq(X) /\ Len(f) = n
  OBVIOUS

(* A position of a part is one of the whole; one before it is none of it.  *)
LEMMA OffsetIn ==
    ASSUME NEW a \in Nat, NEW n \in Nat, NEW k \in Nat, a + n <= k, NEW i \in 1 .. n
    PROVE  a + i \in 1 .. k
  OBVIOUS

(* ... and a position up to x + y is not behind it.                        *)
LEMMA OffsetOut ==
    ASSUME NEW x \in Nat, NEW y \in Nat, NEW z \in Nat, NEW i \in Int, i <= x + y
    PROVE  i - x - y \notin 1 .. z
  OBVIOUS

(* ConcatAssociative for sequences of bytes.                               *)
LEMMA BytesAssociative ==
    ASSUME NEW a \in Seq(Int), NEW b \in Seq(Int), NEW c \in Seq(Int)
    PROVE  (a \o b) \o c = a \o (b \o c)
  BY ConcatAssociative

(* What FlattenSeq computes, for all indices up to n.                      *)
FlattenStep(f, q, i) == IF i = 1 THEN q[i] ELSE f[i - 1] \o q[i]
Flattens(f, q, n) == \A i \in 1 .. n : f[i] = FlattenStep(f, q, i)
Agree(q, p, m) == \A i \in 1 .. m : q[i] = p[i]
FlattensUpto(X, q, n) == \E f \in [1 .. n -> Seq(X)] : Flattens(f, q, n)

(* The recursion of FlattenSeq has a solution for the first element ...    *)
LEMMA FlattensOne ==
    ASSUME NEW X, NEW q \in Seq(Seq(X)), q # <<>>
    PROVE  FlattensUpto(X, q, 1)
  <1>1. q[1] \in Seq(X)
    OBVIOUS
  <1>f. PICK f : f = [i \in 1 .. 1 |-> q[1]]
    OBVIOUS
  <1>2. f \in [1 .. 1 -> Seq(X)] /\ f[1] = q[1] /\ \A i \in 1 .. 1 : i = 1
    BY <1>1, <1>f
  <1>3. \A i \in 1 .. 1 : f[i] = FlattenStep(f, q, i)
    BY <1>2 DEF FlattenStep
  <1> QED
    BY <1>2, <1>3, Zenon DEF FlattensUpto, Flattens

(* ... and with one up to n, one up to n + 1 ...                           *)
LEMMA FlattensMore ==
    ASSUME NEW X, NEW q \in Seq(Seq(X)), NEW n \in Nat, 1 <= n, n + 1 <= Len(q), FlattensUpto(X, q, n)
    PROVE  FlattensUpto(X, q, n + 1)
  <1>1. PICK f \in [1 .. n -> Seq(X)] : Flattens(f, q, n)
    BY DEF FlattensUpto
  <1>a. PICK a : a = f[n] \o q[n + 1]
    OBVIOUS
  <1>2. a \in Seq(X)
    <2>1. n + 1 \in 1 .. Len(q) /\ n \in 1 .. n
      OBVIOUS
    <2>2. f[n] \in Seq(X)
      BY <1>1, <2>1
    <2>3. q[n + 1] \in Seq(X)
      BY <2>1, ElementOfSeq
    <2> QED
      BY <1>a, <2>2, <2>3, ConcatProperties
  <1>g. PICK g : g = [i \in 1 .. n + 1 |-> IF i = n + 1 THEN a ELSE f[i]]
    OBVIOUS
  <1>3. g \in [1 .. n + 1 -> Seq(X)]
    <2>1. ASSUME NEW i \in 1 .. n + 1 PROVE (IF i = n + 1 THEN a ELSE f[i]) \in Seq(X)
      <3>1. CASE i = n + 1
        BY <3>1, <1>2
      <3>2. CASE i # n + 1
        <4>1. i \in 1 .. n
          BY <3>2
        <4> QED
          BY <3>2, <4>1
      <3> QED
        BY <3>1, <3>2
    <2> QED
      BY <1>g, <2>1
  <1>4. g[n + 1] = a /\ \A i \in 1 .. n : g[i] = f[i]
    BY <1>g
  <1>5. ASSUME NEW i \in 1 .. n + 1 PROVE g[i] = FlattenStep(g, q, i)
    <2>1. CASE i = n + 1
      <3>1. i # 1 /\ i - 1 = n /\ n \in 1 .. n
        BY <2>1
      <3>2. g[i - 1] = f[n] /\ g[i] = f[n] \o q[i]
        BY <2>1, <3>1, <1>4, <1>a
      <3> QED
        BY <3>1, <3>2 DEF FlattenStep
    <2>2. CASE i # n + 1
      <3>1. i \in 1 .. n /\ (i # 1 => i - 1 \in 1 .. n)
        BY <2>2
      <3>2. f[i] = FlattenStep(f, q, i)
        BY <3>1, <1>1 DEF Flattens
      <3>3. g[i] = f[i] /\ (i # 1 => g[i - 1] = f[i - 1])
        BY <3>1, <1>4
      <3> QED
        BY <3>2, <3>3 DEF FlattenStep
    <2> QED
      BY <2>1, <2>2
  <1> QED
    BY <1>3, <1>5, Zenon DEF FlattensUpto, Flattens

(* ... hence one for the whole sequence.                                   *)
LEMMA FlattensExists ==
    ASSUME NEW X, NEW q \in Seq(Seq(X)), q # <<>>
    PROVE  FlattensUpto(X, q, Len(q))
  <1> DEFINE S == {n \in Nat : n + 1 <= Len(q) => FlattensUpto(X, q, n + 1)}
  <1>l. Len(q) \in Nat
    OBVIOUS
  <1>1. 0 \in S
    <2>1. 0 + 1 = 1
      OBVIOUS
    <2> QED
      BY <2>1, FlattensOne
  <1>2. ASSUME NEW n \in Nat, n \in S PROVE n + 1 \in S
    <2>1. ASSUME (n + 1) + 1 <= Len(q) PROVE FlattensUpto(X, q, (n + 1) + 1)
      <3>1. n + 1 \in Nat /\ 1 <= n + 1 /\ n + 1 <= Len(q)
        BY <2>1, <1>l
      <3>2. FlattensUpto(X, q, n + 1)
        BY <1>2, <3>1
      <3> QED
        BY <2>1, <3>1, <3>2, FlattensMore, Zenon
    <2>2. n + 1 \in Nat
      OBVIOUS
    <2> QED
      BY <2>1, <2>2, Zenon
  <1>3. Nat \subseteq S
    <2> HIDE DEF S
    <2> QED
      BY <1>1, <1>2, NatInd
  <1>4. Len(q) - 1 \in Nat /\ (Len(q) - 1) + 1 = Len(q)
    OBVIOUS
  <1>5. Len(q) - 1 \in S
    BY <1>3, <1>4
  <1> QED
    BY <1>4, <1>5

(* Two solutions agree as far as their sequences do.                       *)
LEMMA FlattensUnique ==
    ASSUME NEW q, NEW p, NEW m \in Nat, NEW n \in Nat, 1 <= m, m <= n,
           Agree(q, p, m), NEW f, NEW g, Flattens(f, q, m), Flattens(g, p, n)
    PROVE  f[m] = g[m]
  <1> DEFINE S == {k \in Nat : k + 1 <= m => f[k + 1] = g[k + 1]}
  <1>1. 0 \in S
    <2>1. 1 \in 1 .. m /\ 1 \in 1 .. n
      OBVIOUS
    <2>2. f[1] = q[1] /\ g[1] = p[1] /\ q[1] = p[1]
      BY <2>1 DEF Flattens, FlattenStep, Agree
    <2> QED
      BY <2>2
  <1>2. ASSUME NEW k \in Nat, k \in S PROVE k + 1 \in S
    <2> SUFFICES ASSUME k + 2 <= m PROVE f[k + 2] = g[k + 2]
      OBVIOUS
    <2>1. k + 1 <= m /\ k + 2 \in 1 .. m /\ k + 2 \in 1 .. n /\ k + 2 # 1 /\ k + 2 - 1 = k + 1
      OBVIOUS
    <2>2. f[k + 1] = g[k + 1] /\ q[k + 2] = p[k + 2]
      BY <1>2, <2>1 DEF Agree
    <2>3. f[k + 2] = FlattenStep(f, q, k + 2) /\ g[k + 2] = FlattenStep(g, p, k + 2)
      BY <2>1 DEF Flattens
    <2>4. FlattenStep(f, q, k + 2) = f[k + 1] \o q[k + 2] /\ FlattenStep(g, p, k + 2) = g[k + 1] \o p[k + 2]
      <3>1. PICK j : j = k + 2
        OBVIOUS
      <3>2. j # 1 /\ j - 1 = k + 1
        BY <2>1, <3>1
      <3>3. FlattenStep(f, q, j) = f[k + 1] \o q[j] /\ FlattenStep(g, p, j) = g[k + 1] \o p[j]
        BY <3>2, Zenon DEF FlattenStep
      <3> QED
        BY <3>1, <3>3
    <2> QED
      BY <2>2, <2>3, <2>4
  <1>3. Nat \subseteq S
    <2> HIDE DEF S
    <2> QED
      BY <1>1, <1>2, NatInd
  <1>4. m - 1 \in Nat /\ (m - 1) + 1 = m
    OBVIOUS
  <1>5. m - 1 \in S
    BY <1>3, <1>4
  <1> QED
    BY <1>4, <1>5

(* FlattenSeq is the last element of the solution.                         *)
LEMMA FlattenIs ==
    ASSUME NEW X, NEW q \in Seq(Seq(X)), q # <<>>
    PROVE  \E f \in [1 .. Len(q) -> Seq(X)] : Flattens(f, q, Len(q)) /\ FlattenSeq(q) = f[Len(q)]
  <1>1. Len(q) # 0 /\ Len(q) \in Nat /\ 1 <= Len(q)
    OBVIOUS
  <1>2. PICK f \in [1 .. Len(q) -> Seq(X)] : Flattens(f, q, Len(q))
    BY FlattensExists DEF FlattensUpto
  <1> DEFINE Is(h) == h = [i \in 1 .. Len(q) |-> IF i = 1 THEN q[i] ELSE h[i - 1] \o q[i]]
             g == CHOOSE h : Is(h)
  <1>3. Is(f)
    <2>1. \A i \in 1 .. Len(q) : f[i] = IF i = 1 THEN q[i] ELSE f[i - 1] \o q[i]
      BY <1>2 DEF Flattens, FlattenStep
    <2>2. f = [i \in 1 .. Len(q) |-> f[i]]
      BY <1>2
    <2> QED
      BY <2>1, <2>2
  <1>4. ASSUME NEW h, Is(h) PROVE Flattens(h, q, Len(q))
    <2>1. PICK b : b = [i \in 1 .. Len(q) |-> IF i = 1 THEN q[i] ELSE h[i - 1] \o q[i]]
      OBVIOUS
    <2>2. \A i \in 1 .. Len(q) : b[i] = IF i = 1 THEN q[i] ELSE h[i - 1] \o q[i]
      BY <2>1
    <2>3. h = b
      BY <1>4, <2>1, Zenon
    <2> QED
      BY <2>2, <2>3, Zenon DEF Flattens, FlattenStep
  <1>5. Is(g)
    BY <1>3, Zenon
  <1>6. FlattenSeq(q) = g[Len(q)]
    BY <1>1, Zenon DEF FlattenSeq
  <1> HIDE DEF g, Is
  <1>7. Flattens(g, q, Len(q))
    BY <1>4, <1>5
  <1>8. f[Len(q)] = g[Len(q)]
    <2>1. Len(q) <= Len(q) /\ Agree(q, q, Len(q))
      BY <1>1 DEF Agree
    <2> QED
      BY <2>1, <1>1, <1>2, <1>7, FlattensUnique
  <1> QED
    BY <1>2, <1>6, <1>8

(* A concatenation of sequences over X is one.                             *)
LEMMA FlattenType ==
    ASSUME NEW X, NEW q \in Seq(Seq(X)) PROVE FlattenSeq(q) \in Seq(X)
  <1>1. CASE q = <<>>
    BY <1>1 DEF FlattenSeq
  <1>2. CASE q # <<>>
    <2>1. PICK f \in [1 .. Len(q) -> Seq(X)] : FlattenSeq(q) = f[Len(q)]
      BY <1>2, FlattenIs
    <2>2. Len(q) \in 1 .. Len(q)
      BY <1>2
    <2> QED
      BY <2>1, <2>2
  <1> QED
    BY <1>1, <1>2

(* Nothing concatenated is nothing.                                        *)
LEMMA FlattenEmpty == FlattenSeq(<<>>) = <<>>
  BY DEF FlattenSeq

(* One more element is concatenated behind the others.                     *)
LEMMA FlattenAppend ==
    ASSUME NEW X, NEW q \in Seq(Seq(X)), NEW e \in Seq(X)
    PROVE  FlattenSeq(Append(q, e)) = FlattenSeq(q) \o e
  <1>p. PICK p : p = Append(q, e)
    OBVIOUS
  <1>1. p \in Seq(Seq(X)) /\ p # <<>> /\ Len(p) = Len(q) + 1 /\ (\A i \in 1 .. Len(q) : p[i] = q[i])
          /\ p[Len(q) + 1] = e /\ Len(q) \in Nat
    BY <1>p
  <1>2. PICK g \in [1 .. Len(p) -> Seq(X)] : Flattens(g, p, Len(p)) /\ FlattenSeq(p) = g[Len(p)]
    BY <1>1, FlattenIs
  <1>3. \A i \in 1 .. Len(p) : g[i] = IF i = 1 THEN p[i] ELSE g[i - 1] \o p[i]
    BY <1>2 DEF Flattens, FlattenStep
  <1>4. CASE q = <<>>
    <2>1. Len(p) = 1 /\ FlattenSeq(p) = e
      BY <1>4, <1>1, <1>2, <1>3
    <2>2. <<>> \o e = e
      BY ConcatEmptySeq
    <2> QED
      BY <2>1, <2>2, <1>p, <1>4, FlattenEmpty
  <1>5. CASE q # <<>>
    <2>1. PICK f \in [1 .. Len(q) -> Seq(X)] : Flattens(f, q, Len(q)) /\ FlattenSeq(q) = f[Len(q)]
      BY <1>5, FlattenIs
    <2>2. Len(q) \in Nat /\ Len(p) \in Nat /\ 1 <= Len(q) /\ Len(q) <= Len(p) /\ Agree(q, p, Len(q))
      BY <1>5, <1>1 DEF Agree
    <2>3. f[Len(q)] = g[Len(q)]
      BY <1>2, <2>1, <2>2, FlattensUnique
    <2>4. Len(p) \in 1 .. Len(p) /\ Len(p) # 1 /\ Len(p) - 1 = Len(q) /\ p[Len(p)] = e
      BY <1>1, <2>2
    <2>5. g[Len(p)] = g[Len(p) - 1] \o p[Len(p)]
      BY <1>3, <2>4, Zenon
    <2>6. g[Len(p)] = g[Len(q)] \o e
      BY <2>5, <2>4
    <2> QED
      BY <1>p, <1>2, <2>1, <2>3, <2>6
  <1> QED
    BY <1>4, <1>5

(* a is a prefix of x.                                                     *)
StartsWith(X, a, x) == \E r \in Seq(X) : x = a \o r

(* A prefix stays one when something is appended.                          *)
LEMMA StartsWithMore ==
    ASSUME NEW X, NEW a \in Seq(X), NEW x, NEW e \in Seq(X), StartsWith(X, a, x)
    PROVE  StartsWith(X, a, x \o e)
  <1>1. PICK r \in Seq(X) : x = a \o r
    BY DEF StartsWith
  <1>2. r \o e \in Seq(X)
    BY ConcatProperties
  <1>3. (a \o r) \o e = a \o (r \o e)
    BY ConcatAssociative
  <1> QED
    BY <1>1, <1>2, <1>3, Zenon DEF StartsWith

(* A concatenation starts with its first element.                          *)
LEMMA FlattenFirst ==
    ASSUME NEW X, NEW q \in Seq(Seq(X)), q # <<>>
    PROVE  StartsWith(X, q[1], FlattenSeq(q))
  <1>0. Len(q) \in Nat /\ Len(q) >= 1
    OBVIOUS
  <1>1. PICK f \in [1 .. Len(q) -> Seq(X)] : Flattens(f, q, Len(q)) /\ FlattenSeq(q) = f[Len(q)]
    BY FlattenIs
  <1>a. PICK a \in Seq(X) : a = q[1]
    BY <1>0
  <1> DEFINE S == {n \in Nat : n + 1 <= Len(q) => StartsWith(X, a, f[n + 1])}
  <1>3. 0 \in S
    <2>1. f[1] = a
      <3>1. 1 \in 1 .. Len(q)
        BY <1>0
      <3> QED
        BY <1>1, <1>a, <3>1 DEF Flattens, FlattenStep
    <2>2. a \o <<>> = a /\ <<>> \in Seq(X)
      BY ConcatEmptySeq
    <2>3. StartsWith(X, a, f[1])
      BY <2>1, <2>2, Zenon DEF StartsWith
    <2>4. 0 + 1 = 1 /\ 0 \in Nat
      OBVIOUS
    <2> QED
      BY <2>3, <2>4
  <1>4. ASSUME NEW n \in Nat, n \in S PROVE n + 1 \in S
    <2>1. ASSUME (n + 1) + 1 <= Len(q) PROVE StartsWith(X, a, f[(n + 1) + 1])
      <3>m. PICK m : m = (n + 1) + 1
        OBVIOUS
      <3>1. m \in 1 .. Len(q) /\ m # 1 /\ m - 1 = n + 1 /\ n + 1 <= Len(q)
        BY <1>0, <2>1, <3>m
      <3>2. StartsWith(X, a, f[n + 1])
        BY <1>4, <3>1
      <3>3. f[m] = FlattenStep(f, q, m)
        BY <3>1, <1>1 DEF Flattens
      <3>4. PICK e \in Seq(X) : e = q[m]
        BY <3>1
      <3>5. f[m] = f[n + 1] \o e
        BY <3>1, <3>3, <3>4 DEF FlattenStep
      <3> QED
        BY <3>2, <3>5, <3>m, StartsWithMore
    <2>2. n + 1 \in Nat
      OBVIOUS
    <2> QED
      BY <2>1, <2>2, Zenon
  <1>5. Nat \subseteq S
    <2> HIDE DEF S
    <2> QED
      BY <1>3, <1>4, NatInd
  <1>6. Len(q) - 1 \in Nat /\ (Len(q) - 1) + 1 = Len(q)
    BY <1>0
  <1>7. Len(q) - 1 \in S
    BY <1>5, <1>6
  <1>8. StartsWith(X, a, f[Len(q)])
    <2> HIDE DEF S
    <2>1. (Len(q) - 1) + 1 <= Len(q) => StartsWith(X, a, f[(Len(q) - 1) + 1])
      BY <1>7 DEF S
    <2> QED
      BY <2>1, <1>6, <1>0
  <1> QED
    BY <1>1, <1>8, <1>a, Zenon

-----------------------------------------------------------------------------
(* The types of the heap's cells, of blobs and of streams.                 *)
Cell == [bytes : Seq(Int), raw : BOOLEAN, live : BOOLEAN]
BlobType == [buf : Nat, off : Nat, len : Nat]
StreamType ==
    [heap : Seq(Cell), buffer : Nat, size : Nat, range : Nat, offset : Nat, blobs : Seq(BlobType), error : {"none", "bad_alloc"}]

(* The bytes of the current buffer that are in use.                        *)
Used(s) == s.offset + s.range

(* b lies in memory that is live and ref-counted.                          *)
Lies(h, b) ==
    /\ b.buf \in 1 .. Len(h) /\ h[b.buf].live /\ ~h[b.buf].raw
    /\ b.off + b.len <= Len(h[b.buf].bytes)

(* No write of stream s reaches the bytes of b: they lie before the end of *)
(* the current range, or in another buffer.                                *)
Settled(s, b) == Lies(s.heap, b) /\ (b.buf = s.buffer => b.off + b.len <= Used(s))

(* What holds of a stream between two calls: it is within its buffer, and  *)
(* what it has chained is settled.                                         *)
Fine(s) ==
    /\ s \in StreamType
    /\ s.buffer = 0 => s.size = 0
    /\ s.buffer # 0 => Lies(s.heap, Blob(s.buffer, 0, s.size)) /\ Len(s.heap[s.buffer].bytes) = s.size
    /\ Used(s) <= s.size
    /\ \A i \in DOMAIN s.blobs : Settled(s, s.blobs[i])

(* From s to u no byte that was in use has changed, and no memory was      *)
(* freed; u continues in the same buffer or in a new one.                  *)
Keeps(s, u) ==
    /\ Len(s.heap) <= Len(u.heap)
    /\ \A k \in 1 .. Len(s.heap) :
           /\ u.heap[k].live = s.heap[k].live /\ u.heap[k].raw = s.heap[k].raw
           /\ Len(u.heap[k].bytes) = Len(s.heap[k].bytes)
           /\ \A i \in 1 .. Len(s.heap[k].bytes) :
                  (k = s.buffer => i <= Used(s)) => u.heap[k].bytes[i] = s.heap[k].bytes[i]
    /\ (u.buffer = s.buffer /\ Used(s) <= Used(u)) \/ u.buffer > Len(s.heap)

(* The types of the fields of a stream.                                    *)
LEMMA StreamFacts ==
    ASSUME NEW s \in StreamType
    PROVE  /\ s.heap \in Seq(Cell) /\ Len(s.heap) \in Nat /\ s.blobs \in Seq(BlobType)
           /\ s.buffer \in Nat /\ s.size \in Nat /\ s.range \in Nat /\ s.offset \in Nat /\ Used(s) \in Nat
           /\ \A k \in 1 .. Len(s.heap) : s.heap[k] \in Cell /\ s.heap[k].bytes \in Seq(Int)
                /\ Len(s.heap[k].bytes) \in Nat
           /\ s = [heap |-> s.heap, buffer |-> s.buffer, size |-> s.size, range |-> s.range, offset |-> s.offset, blobs |-> s.blobs, error |-> s.error]
  <1>1. s.heap \in Seq(Cell) /\ s.blobs \in Seq(BlobType) /\ s.buffer \in Nat /\ s.size \in Nat
          /\ s.range \in Nat /\ s.offset \in Nat
    BY DEF StreamType
  <1>2. Len(s.heap) \in Nat /\ Used(s) \in Nat
    BY <1>1 DEF Used
  <1>3. ASSUME NEW k \in 1 .. Len(s.heap) PROVE s.heap[k] \in Cell /\ s.heap[k].bytes \in Seq(Int)
                 /\ Len(s.heap[k].bytes) \in Nat
    <2>1. s.heap[k] \in Cell
      BY <1>1
    <2> QED
      BY <2>1 DEF Cell
  <1>4. s = [heap |-> s.heap, buffer |-> s.buffer, size |-> s.size, range |-> s.range, offset |-> s.offset, blobs |-> s.blobs, error |-> s.error]
    BY DEF StreamType
  <1> QED
    BY <1>1, <1>2, <1>3, <1>4

(* What two steps keep, both together keep.                                *)
LEMMA KeepsTransitive ==
    ASSUME NEW s \in StreamType, NEW u \in StreamType, NEW w \in StreamType, Keeps(s, u), Keeps(u, w)
    PROVE  Keeps(s, w)
  <1>0. Len(s.heap) \in Nat /\ Len(u.heap) \in Nat /\ Len(w.heap) \in Nat /\ Used(s) \in Nat
          /\ Used(u) \in Nat /\ Used(w) \in Nat /\ s.buffer \in Nat /\ u.buffer \in Nat /\ w.buffer \in Nat
    BY StreamFacts
  <1>1. Len(s.heap) <= Len(w.heap) /\ 1 .. Len(s.heap) \subseteq 1 .. Len(u.heap)
    BY <1>0 DEF Keeps
  <1>2. (w.buffer = s.buffer /\ Used(s) <= Used(w)) \/ w.buffer > Len(s.heap)
    BY <1>0 DEF Keeps
  <1>3. ASSUME NEW k \in 1 .. Len(s.heap)
        PROVE /\ w.heap[k].live = s.heap[k].live /\ w.heap[k].raw = s.heap[k].raw
              /\ Len(w.heap[k].bytes) = Len(s.heap[k].bytes)
              /\ \A i \in 1 .. Len(s.heap[k].bytes) :
                  (k = s.buffer => i <= Used(s)) => w.heap[k].bytes[i] = s.heap[k].bytes[i]
    <2>1. k \in 1 .. Len(u.heap) /\ k \in Nat
      BY <1>1, <1>0
    <2>2. w.heap[k].live = s.heap[k].live /\ w.heap[k].raw = s.heap[k].raw
            /\ Len(w.heap[k].bytes) = Len(s.heap[k].bytes) /\ Len(u.heap[k].bytes) = Len(s.heap[k].bytes)
      BY <2>1 DEF Keeps
    <2>3. ASSUME NEW i \in 1 .. Len(s.heap[k].bytes), k = s.buffer => i <= Used(s) PROVE w.heap[k].bytes[i] = s.heap[k].bytes[i]
      <3>0. i \in Int
        OBVIOUS
      <3>1. u.heap[k].bytes[i] = s.heap[k].bytes[i]
        BY <2>3 DEF Keeps
      <3>2. k = u.buffer => i <= Used(u)
        BY <1>0, <2>1, <2>3, <3>0 DEF Keeps
      <3>3. w.heap[k].bytes[i] = u.heap[k].bytes[i]
        BY <2>1, <2>2, <3>2 DEF Keeps
      <3> QED
        BY <3>1, <3>3
    <2> QED
      BY <2>2, <2>3
  <1> QED
    BY <1>1, <1>2, <1>3 DEF Keeps

(* A settled blob stays settled and keeps its content.                     *)
LEMMA KeepsSettled ==
    ASSUME NEW s \in StreamType, NEW u \in StreamType, Keeps(s, u), NEW b \in BlobType, Settled(s, b)
    PROVE  Settled(u, b) /\ Content(u.heap, b) = Content(s.heap, b)
  <1>0. Len(s.heap) \in Nat /\ Len(u.heap) \in Nat /\ Used(s) \in Nat /\ Used(u) \in Nat /\ s.buffer \in Nat
          /\ u.buffer \in Nat
    BY StreamFacts
  <1>b. b.buf \in Nat /\ b.off \in Nat /\ b.len \in Nat
    BY DEF BlobType
  <1>1. b.buf \in 1 .. Len(s.heap) /\ b.buf \in 1 .. Len(u.heap)
    BY <1>0, <1>b DEF Settled, Lies, Keeps
  <1>2. u.heap[b.buf].live = s.heap[b.buf].live /\ u.heap[b.buf].raw = s.heap[b.buf].raw
          /\ Len(u.heap[b.buf].bytes) = Len(s.heap[b.buf].bytes)
    BY <1>1 DEF Keeps
  <1>3. Lies(u.heap, b)
    BY <1>1, <1>2 DEF Settled, Lies
  <1>4. b.buf = u.buffer => b.off + b.len <= Used(u)
    BY <1>0, <1>b, <1>1 DEF Settled, Keeps
  <1>5. ASSUME NEW i \in 1 .. b.len PROVE u.heap[b.buf].bytes[b.off + i] = s.heap[b.buf].bytes[b.off + i]
    <2>l. Len(s.heap[b.buf].bytes) \in Nat
      <3>1. s.heap[b.buf] \in Cell
        BY <1>1 DEF StreamType
      <3> QED
        BY <3>1 DEF Cell
    <2>o. b.off + b.len <= Len(s.heap[b.buf].bytes)
      BY DEF Settled, Lies
    <2>1. b.off + i \in 1 .. Len(s.heap[b.buf].bytes)
      BY <1>b, <2>l, <2>o, OffsetIn, Zenon
    <2>2. b.buf = s.buffer => b.off + i <= Used(s)
      BY <1>b, <1>0 DEF Settled
    <2> QED
      BY <2>1, <2>2, <1>1 DEF Keeps
  <1>6. Content(u.heap, b) = Content(s.heap, b)
    BY <1>2, <1>5, <1>1 DEF Content
  <1> QED
    BY <1>3, <1>4, <1>6 DEF Settled

(* The current buffer with data behind the range.                          *)
Filled(s, data) ==
    [i \in DOMAIN s.heap[s.buffer].bytes |->
        LET k == i - s.offset - s.range IN IF k \in DOMAIN data THEN data[k] ELSE s.heap[s.buffer].bytes[i]]

(* CopyIn replaces the bytes of the current buffer, and nothing else.      *)
LEMMA CopyInIs ==
    ASSUME NEW s \in StreamType, NEW data, data # <<>>, s.buffer \in 1 .. Len(s.heap)
    PROVE  CopyIn(s, data) =
             [s EXCEPT !.heap = [s.heap EXCEPT ![s.buffer] = [bytes |-> Filled(s, data), raw |-> s.heap[s.buffer].raw, live |-> s.heap[s.buffer].live]],
                       !.range = s.range + Len(data)]
  <1>1. s.heap[s.buffer] \in Cell
    BY StreamFacts
  <1>2. [s.heap[s.buffer] EXCEPT !.bytes = Filled(s, data)] = [bytes |-> Filled(s, data), raw |-> s.heap[s.buffer].raw, live |-> s.heap[s.buffer].live]
    BY <1>1 DEF Cell
  <1>3. CopyIn(s, data) = [s EXCEPT !.heap = [s.heap EXCEPT ![s.buffer] = [s.heap[s.buffer] EXCEPT !.bytes = Filled(s, data)]], !.range = s.range + Len(data)]
    BY DEF CopyIn, Filled, StreamType
  <1> QED
    BY <1>2, <1>3

(* Data that fits is appended to the range; all that was in use stays.     *)
LEMMA CopyInFine ==
    ASSUME NEW s, Fine(s), NEW data \in Seq(Int), data # <<>>, Used(s) + Len(data) <= s.size
    PROVE  /\ Fine(CopyIn(s, data))
           /\ Keeps(s, CopyIn(s, data))
           /\ CopyIn(s, data).error = s.error
           /\ CopyIn(s, data).blobs = s.blobs
           /\ CopyIn(s, data).buffer = s.buffer /\ CopyIn(s, data).size = s.size
           /\ CopyIn(s, data).offset = s.offset /\ CopyIn(s, data).range = s.range + Len(data)
           /\ Content(CopyIn(s, data).heap, Blob(s.buffer, s.offset, s.range + Len(data)))
                 = Content(s.heap, Blob(s.buffer, s.offset, s.range)) \o data
  <1>s. s \in StreamType
    BY DEF Fine
  <1>t. s.heap \in Seq(Cell) /\ Len(s.heap) \in Nat /\ s.blobs \in Seq(BlobType) /\ s.buffer \in Nat
          /\ s.size \in Nat /\ s.range \in Nat /\ s.offset \in Nat
    BY <1>s, StreamFacts
  <1>d. Len(data) \in Nat /\ Len(data) > 0 /\ DOMAIN data = 1 .. Len(data)
    OBVIOUS
  <1>1. s.buffer \in 1 .. Len(s.heap) /\ Len(s.heap[s.buffer].bytes) = s.size /\ s.heap[s.buffer].live
          /\ ~s.heap[s.buffer].raw
    BY <1>t, <1>d DEF Fine, Lies, Blob, Used
  <1>2. s.heap[s.buffer].bytes \in Seq(Int) /\ DOMAIN s.heap[s.buffer].bytes = 1 .. s.size
          /\ s.heap[s.buffer] \in Cell
    BY <1>s, <1>1, StreamFacts
  <1>o. PICK old : old = s.heap[s.buffer].bytes
    OBVIOUS
  <1>f. PICK f : f = Filled(s, data)
    OBVIOUS
  <1>g. f = [i \in 1 .. s.size |-> IF i - s.offset - s.range \in 1 .. Len(data) THEN data[i - s.offset - s.range] ELSE old[i]]
    BY <1>f, <1>2, <1>d, <1>o DEF Filled
  <1>h. f \in Seq(Int) /\ Len(f) = s.size
    <2>1. f \in [1 .. s.size -> Int]
      <3>1. \A i \in 1 .. Len(data) : data[i] \in Int
        OBVIOUS
      <3>2. \A i \in 1 .. s.size : old[i] \in Int
        <4>1. old \in Seq(Int) /\ Len(old) = s.size
          BY <1>o, <1>1, <1>2
        <4> QED
          BY <4>1, ElementOfSeq
      <3> QED
        BY <1>g, <3>1, <3>2
    <2> QED
      BY <2>1, <1>t, FunctionIsSeq
  <1>c. PICK c : c = [bytes |-> f, raw |-> s.heap[s.buffer].raw, live |-> s.heap[s.buffer].live]
    OBVIOUS
  <1>3. c \in Cell /\ c.bytes = f /\ c.live /\ ~c.raw
    BY <1>c, <1>h, <1>1, <1>2 DEF Cell
  <1>u. PICK u : u = CopyIn(s, data)
    OBVIOUS
  <1>e. PICK e : e = [s.heap EXCEPT ![s.buffer] = c]
    OBVIOUS
  <1>6. e \in Seq(Cell) /\ Len(e) = Len(s.heap) /\ e[s.buffer] = c
          /\ \A k \in 1 .. Len(s.heap) : k # s.buffer => e[k] = s.heap[k]
    BY <1>e, <1>t, <1>3, <1>1
  <1>4. u = [s EXCEPT !.heap = e, !.range = s.range + Len(data)]
    BY <1>u, <1>c, <1>f, <1>1, <1>s, <1>e, CopyInIs
  <1>5. u \in StreamType /\ u.heap = e /\ u.buffer = s.buffer /\ u.size = s.size
          /\ u.range = s.range + Len(data) /\ u.offset = s.offset /\ u.blobs = s.blobs /\ u.error = s.error
    <2>1. s.range + Len(data) \in Nat
      BY <1>t, <1>d
    <2>2. PICK r \in Nat : r = s.range + Len(data)
      BY <2>1
    <2>3. e \in Seq(Cell) /\ u = [s EXCEPT !.heap = e, !.range = r]
      BY <1>4, <1>6, <2>2
    <2>4. /\ u \in StreamType
           /\ u.heap = e /\ u.buffer = s.buffer /\ u.size = s.size /\ u.range = r
           /\ u.offset = s.offset /\ u.blobs = s.blobs /\ u.error = s.error
      BY <1>s, <2>3 DEF StreamType
    <2> QED
      BY <2>2, <2>4
  <1>7. u \in StreamType
    BY <1>5
  <1>8. Used(u) = Used(s) + Len(data) /\ Used(s) \in Nat /\ Used(s) = s.offset + s.range
    <2>1. PICK x \in Nat, y \in Nat, z \in Nat : x = s.offset /\ y = s.range /\ z = Len(data)
      BY <1>t, <1>d
    <2>2. Used(u) = x + (y + z) /\ Used(s) = x + y
      BY <1>5, <2>1, Zenon DEF Used
    <2>3. x + (y + z) = (x + y) + z /\ x + y \in Nat
      OBVIOUS
    <2> QED
      BY <2>1, <2>2, <2>3, Zenon
  <1>9. ASSUME NEW i \in 1 .. s.size, i <= Used(s) PROVE f[i] = s.heap[s.buffer].bytes[i]
    <2>1. f[i] = IF i - s.offset - s.range \in 1 .. Len(data) THEN data[i - s.offset - s.range] ELSE old[i]
      BY <1>g, Zenon
    <2>2. PICK x \in Nat, y \in Nat, z \in Nat : x = s.offset /\ y = s.range /\ z = Len(data)
      BY <1>t, <1>d
    <2>3. i <= x + y
      BY <1>9, <1>8, <2>2, Zenon
    <2>4. i - x - y \notin 1 .. z
      BY <2>3, OffsetOut
    <2> QED
      BY <2>1, <2>2, <2>4, <1>o, Zenon
  <1>10. Keeps(s, u)
    <2>1. ASSUME NEW k \in 1 .. Len(s.heap)
          PROVE  /\ u.heap[k].live = s.heap[k].live /\ u.heap[k].raw = s.heap[k].raw
                 /\ Len(u.heap[k].bytes) = Len(s.heap[k].bytes)
                 /\ \A i \in 1 .. Len(s.heap[k].bytes) :
                       (k = s.buffer => i <= Used(s)) => u.heap[k].bytes[i] = s.heap[k].bytes[i]
      <3>1. CASE k = s.buffer
        BY <3>1, <1>5, <1>6, <1>3, <1>c, <1>h, <1>1, <1>9
      <3>2. CASE k # s.buffer
        BY <3>2, <1>5, <1>6
      <3> QED
        BY <3>1, <3>2
    <2>2. Len(s.heap) <= Len(u.heap) /\ u.buffer = s.buffer /\ Used(s) <= Used(u)
      BY <1>5, <1>6, <1>8, <1>t, <1>d
    <2> QED
      BY <2>1, <2>2 DEF Keeps
  <1>11. Fine(u)
    <2>1. \A i \in DOMAIN u.blobs : Settled(u, u.blobs[i])
      <3> SUFFICES ASSUME NEW i \in DOMAIN s.blobs PROVE Settled(u, s.blobs[i])
        BY <1>5
      <3>1. s.blobs[i] \in BlobType /\ Settled(s, s.blobs[i])
        BY <1>t DEF Fine
      <3> QED
        BY <3>1, <1>s, <1>7, <1>10, KeepsSettled
    <2>2. Lies(u.heap, Blob(u.buffer, 0, u.size)) /\ Len(u.heap[u.buffer].bytes) = u.size
      <3>1. u.buffer \in 1 .. Len(u.heap) /\ u.heap[u.buffer] = c
        BY <1>5, <1>6, <1>1
      <3>2. Len(u.heap[u.buffer].bytes) = u.size /\ u.heap[u.buffer].live /\ ~u.heap[u.buffer].raw
        BY <3>1, <1>3, <1>h, <1>5
      <3>3. 0 + u.size <= u.size
        BY <1>5, <1>t
      <3> QED
        BY <3>1, <3>2, <3>3 DEF Lies, Blob
    <2>3. Used(u) <= u.size /\ u.buffer # 0
      BY <1>5, <1>8, <1>1
    <2> QED
      BY <1>7, <2>1, <2>2, <2>3 DEF Fine
  <1>12. Content(u.heap, Blob(s.buffer, s.offset, s.range + Len(data))) = Content(s.heap, Blob(s.buffer, s.offset, s.range)) \o data
    <2>1. s.offset + s.range + Len(data) <= s.size
      BY <1>8
    <2>2. Content(u.heap, Blob(s.buffer, s.offset, s.range + Len(data))) = [i \in 1 .. s.range + Len(data) |-> f[s.offset + i]]
      BY <1>5, <1>6, <1>3, <1>1 DEF Content, Blob
    <2>3. PICK o : o = Content(s.heap, Blob(s.buffer, s.offset, s.range))
      OBVIOUS
    <2>4. o = [i \in 1 .. s.range |-> old[s.offset + i]]
      BY <2>3, <1>1, <1>o DEF Content, Blob
    <2>5. o \in Seq(Int) /\ Len(o) = s.range
      <3>1. \A i \in 1 .. s.range : s.offset + i \in 1 .. s.size
        <4>1. s.offset + s.range <= s.size
          BY <2>1, <1>t, <1>d
        <4> QED
          BY <4>1, <1>t, OffsetIn, Zenon
      <3>2. old \in Seq(Int) /\ Len(old) = s.size
        BY <1>o, <1>1, <1>2
      <3>3. \A i \in 1 .. s.range : old[s.offset + i] \in Int
        BY <3>1, <3>2, ElementOfSeq
      <3>4. o \in [1 .. s.range -> Int]
        BY <2>4, <3>3
      <3> QED
        BY <3>4, <1>t, FunctionIsSeq
    <2>6. /\ o \o data \in Seq(Int) /\ Len(o \o data) = s.range + Len(data)
          /\ \A i \in 1 .. s.range + Len(data) : (o \o data)[i] = IF i <= s.range THEN o[i] ELSE data[i - s.range]
      <3>1. /\ o \o data \in Seq(Int) /\ Len(o \o data) = Len(o) + Len(data)
            /\ \A i \in 1 .. Len(o) + Len(data) : (o \o data)[i] = IF i <= Len(o) THEN o[i] ELSE data[i - Len(o)]
        BY <2>5, ConcatProperties, Zenon
      <3> QED
        BY <3>1, <2>5, Zenon
    <2>7. ASSUME NEW i \in 1 .. s.range + Len(data) PROVE f[s.offset + i] = IF i <= s.range THEN o[i] ELSE data[i - s.range]
      <3>0. i \in Nat /\ i >= 1 /\ i <= s.range + Len(data)
        BY <1>t, <1>d
      <3>n. s.offset \in Nat /\ s.range \in Nat /\ s.size \in Nat /\ Len(data) \in Nat
        BY <1>t, <1>d
      <3>a. s.offset + i \in 1 .. s.size
        BY <3>0, <2>1, <3>n
      <3>b. (s.offset + i) - s.offset - s.range = i - s.range
        BY <3>0, <3>n
      <3>1. s.offset + i \in 1 .. s.size /\ (s.offset + i) - s.offset - s.range = i - s.range
        BY <3>a, <3>b
      <3>2. CASE i <= s.range
        <4>1. i - s.range \notin 1 .. Len(data) /\ i \in 1 .. s.range
          BY <3>0, <3>2, <1>t, <1>d
        <4> QED
          BY <4>1, <3>1, <3>2, <1>g, <2>4
      <3>3. CASE ~(i <= s.range)
        <4>1. i - s.range \in 1 .. Len(data)
          BY <3>0, <3>3, <3>n
        <4> QED
          BY <4>1, <3>1, <3>3, <1>g
      <3> QED
        BY <3>2, <3>3
    <2>8. PICK g : g = [i \in 1 .. s.range + Len(data) |-> f[s.offset + i]]
      OBVIOUS
    <2>9. s.range + Len(data) \in Nat
      BY <1>t, <1>d
    <2>10. g \in Seq(Int) /\ Len(g) = s.range + Len(data)
             /\ \A i \in 1 .. s.range + Len(data) : g[i] = (o \o data)[i]
      <3>1. \A i \in 1 .. s.range + Len(data) : g[i] = (o \o data)[i]
        BY <2>8, <2>6, <2>7
      <3>2. g \in [1 .. s.range + Len(data) -> Int]
        <4>1. \A i \in 1 .. s.range + Len(data) : (o \o data)[i] \in Int
          BY <2>6, ElementOfSeq
        <4> QED
          BY <3>1, <4>1, <2>8
      <3> QED
        BY <3>1, <3>2, <2>9, FunctionIsSeq
    <2>11. g = o \o data
      BY <2>6, <2>10, SeqEqual
    <2> QED
      BY <2>2, <2>3, <2>8, <2>11
  <1> QED
    BY <1>u, <1>5, <1>10, <1>11, <1>12

(* The contents of a list of blobs, and what a stream has been written:    *)
(* the contents of its list and of its current range.                      *)
Contents(h, bs) == [i \in DOMAIN bs |-> Content(h, bs[i])]
AllSettled(s, bs) == \A i \in DOMAIN bs : Settled(s, bs[i])
Out(s) == FlattenSeq(Contents(s.heap, SnapRange(s)))

(* The fields of a blob.                                                   *)
LEMMA BlobIs == \A x, y, z : Blob(x, y, z).buf = x /\ Blob(x, y, z).off = y /\ Blob(x, y, z).len = z
  BY DEF Blob

(* Its type.                                                               *)
LEMMA BlobTyped == ASSUME NEW x \in Nat, NEW y \in Nat, NEW z \in Nat PROVE Blob(x, y, z) \in BlobType
  BY DEF Blob, BlobType

(* The content of a blob is as long as the blob.                           *)
LEMMA ContentTyped ==
    ASSUME NEW h \in Seq(Cell), NEW b \in BlobType, Lies(h, b)
    PROVE  Content(h, b) \in Seq(Int) /\ Len(Content(h, b)) = b.len
  <1>1. b.buf \in 1 .. Len(h) /\ b.buf # 0 /\ h[b.buf].live /\ b.off \in Nat /\ b.len \in Nat
    BY DEF Lies, BlobType
  <1>2. PICK a : a = h[b.buf].bytes
    OBVIOUS
  <1>3. a \in Seq(Int) /\ b.off + b.len <= Len(a)
    <2>1. h[b.buf] \in Cell
      BY <1>1, ElementOfSeq
    <2> QED
      BY <2>1, <1>2 DEF Cell, Lies
  <1>4. Content(h, b) = [i \in 1 .. b.len |-> a[b.off + i]]
    BY <1>1, <1>2 DEF Content
  <1>5. ASSUME NEW i \in 1 .. b.len PROVE a[b.off + i] \in Int
    <2>1. Len(a) \in Nat
      BY <1>3
    <2>2. b.off + i \in 1 .. Len(a)
      BY <1>1, <1>3, <2>1, OffsetIn, Zenon
    <2> QED
      BY <2>2, <1>3, ElementOfSeq
  <1>6. Content(h, b) \in [1 .. b.len -> Int]
    BY <1>4, <1>5
  <1> QED
    BY <1>6, <1>1, FunctionIsSeq

(* An empty blob has no content, wherever it points to.                    *)
LEMMA ContentEmpty == \A h, x, y : Content(h, Blob(x, y, 0)) = <<>>
  <1> TAKE h, x, y
  <1>1. 1 .. 0 = {}
    OBVIOUS
  <1> QED
    BY <1>1, BlobIs DEF Content

(* The content of a list of settled blobs is a byte string.                *)
LEMMA ContentsTyped ==
    ASSUME NEW s \in StreamType, NEW bs \in Seq(BlobType), AllSettled(s, bs)
    PROVE  Contents(s.heap, bs) \in Seq(Seq(Int)) /\ Len(Contents(s.heap, bs)) = Len(bs)
             /\ FlattenSeq(Contents(s.heap, bs)) \in Seq(Int)
  <1>1. DOMAIN bs = 1 .. Len(bs) /\ Len(bs) \in Nat /\ s.heap \in Seq(Cell)
    BY StreamFacts
  <1>2. ASSUME NEW i \in 1 .. Len(bs) PROVE Content(s.heap, bs[i]) \in Seq(Int)
    <2>1. bs[i] \in BlobType /\ Lies(s.heap, bs[i])
      BY <1>1 DEF AllSettled, Settled
    <2> QED
      BY <2>1, <1>1, ContentTyped
  <1>3. Contents(s.heap, bs) \in [1 .. Len(bs) -> Seq(Int)]
    BY <1>1, <1>2 DEF Contents
  <1>4. Contents(s.heap, bs) \in Seq(Seq(Int)) /\ Len(Contents(s.heap, bs)) = Len(bs)
    BY <1>1, <1>3, FunctionIsSeq
  <1> QED
    BY <1>4, FlattenType

(* A blob appended to the list appends its content.                        *)
LEMMA ContentsAppend ==
    ASSUME NEW s \in StreamType, NEW bs \in Seq(BlobType), AllSettled(s, bs), NEW b \in BlobType, Settled(s, b)
    PROVE  /\ Append(bs, b) \in Seq(BlobType) /\ AllSettled(s, Append(bs, b))
           /\ FlattenSeq(Contents(s.heap, Append(bs, b))) = FlattenSeq(Contents(s.heap, bs)) \o Content(s.heap, b)
  <1>a. PICK as : as = Append(bs, b)
    OBVIOUS
  <1>1. /\ as \in Seq(BlobType) /\ Len(as) = Len(bs) + 1 /\ (\A i \in 1 .. Len(bs) : as[i] = bs[i])
             /\ as[Len(bs) + 1] = b
        /\ DOMAIN as = 1 .. Len(bs) + 1 /\ DOMAIN bs = 1 .. Len(bs) /\ Len(bs) \in Nat
    BY <1>a
  <1>2. AllSettled(s, as)
    <2> SUFFICES ASSUME NEW i \in 1 .. Len(bs) + 1 PROVE Settled(s, as[i])
      BY <1>1 DEF AllSettled
    <2>1. CASE i = Len(bs) + 1
      BY <2>1, <1>1
    <2>2. CASE i # Len(bs) + 1
      <3>1. i \in 1 .. Len(bs)
        BY <2>2, <1>1
      <3> QED
        BY <3>1, <1>1 DEF AllSettled
    <2> QED
      BY <2>1, <2>2
  <1>3. PICK c : c = Contents(s.heap, bs)
    OBVIOUS
  <1>4. PICK d : d = Contents(s.heap, as)
    OBVIOUS
  <1>5. PICK e : e = Content(s.heap, b)
    OBVIOUS
  <1>6. c \in Seq(Seq(Int)) /\ Len(c) = Len(bs) /\ d \in Seq(Seq(Int)) /\ Len(d) = Len(bs) + 1
    BY <1>1, <1>2, <1>3, <1>4, ContentsTyped
  <1>7. e \in Seq(Int)
    BY <1>5, ContentTyped, StreamFacts DEF Settled
  <1>8. d[Len(bs) + 1] = e /\ \A i \in 1 .. Len(bs) : d[i] = c[i]
    <2>1. \A i \in 1 .. Len(bs) + 1 : d[i] = Content(s.heap, as[i])
      BY <1>1, <1>4 DEF Contents
    <2>2. \A i \in 1 .. Len(bs) : c[i] = Content(s.heap, bs[i])
      BY <1>1, <1>3 DEF Contents
    <2>3. Len(bs) + 1 \in 1 .. Len(bs) + 1 /\ \A i \in 1 .. Len(bs) : i \in 1 .. Len(bs) + 1
      BY <1>1
    <2> QED
      BY <2>1, <2>2, <2>3, <1>1, <1>5
  <1>9. d = Append(c, e)
    <2>1. PICK x : x = Append(c, e)
      OBVIOUS
    <2>2. x \in Seq(Seq(Int)) /\ Len(x) = Len(d) /\ (\A i \in 1 .. Len(bs) : x[i] = c[i]) /\ x[Len(bs) + 1] = e
      BY <1>6, <1>7, <2>1
    <2>3. \A i \in 1 .. Len(d) : i \in 1 .. Len(bs) \/ i = Len(bs) + 1
      BY <1>6, <1>1
    <2>4. \A i \in 1 .. Len(d) : d[i] = x[i]
      BY <2>2, <2>3, <1>8
    <2>5. d = x
      BY <2>2, <2>4, <1>6, SeqEqual
    <2> QED
      BY <2>1, <2>5
  <1>10. FlattenSeq(Append(c, e)) = FlattenSeq(c) \o e
    BY <1>6, <1>7, FlattenAppend
  <1> QED
    BY <1>a, <1>1, <1>2, <1>3, <1>4, <1>5, <1>9, <1>10

(* Settled blobs keep their content when a stream is written on.           *)
LEMMA ContentsKept ==
    ASSUME NEW s \in StreamType, NEW u \in StreamType, Keeps(s, u), NEW bs \in Seq(BlobType), AllSettled(s, bs)
    PROVE  AllSettled(u, bs) /\ Contents(u.heap, bs) = Contents(s.heap, bs)
  <1>1. ASSUME NEW i \in DOMAIN bs PROVE Settled(u, bs[i]) /\ Content(u.heap, bs[i]) = Content(s.heap, bs[i])
    <2>1. bs[i] \in BlobType /\ Settled(s, bs[i])
      BY DEF AllSettled
    <2> QED
      BY <2>1, KeepsSettled
  <1>2. AllSettled(u, bs)
    BY <1>1 DEF AllSettled
  <1>3. Contents(u.heap, bs) = Contents(s.heap, bs)
    BY <1>1 DEF Contents
  <1> QED
    BY <1>2, <1>3

(* The current range of the buffer.                                        *)
Current(s) == Blob(s.buffer, s.offset, s.range)

(* The current range is settled, and empty before there is a buffer.       *)
LEMMA CurrentSettled ==
    ASSUME NEW s, Fine(s)
    PROVE  /\ s \in StreamType /\ Current(s) \in BlobType
           /\ s.buffer # 0 => Settled(s, Current(s))
           /\ s.buffer = 0 => s.range = 0 /\ s.offset = 0
           /\ Content(s.heap, Current(s)) \in Seq(Int)
           /\ Len(Content(s.heap, Current(s))) = s.range
           /\ s.blobs \in Seq(BlobType) /\ AllSettled(s, s.blobs)
  <1>1. s \in StreamType
    BY DEF Fine
  <1>2. s.buffer \in Nat /\ s.offset \in Nat /\ s.range \in Nat /\ s.size \in Nat /\ s.heap \in Seq(Cell)
          /\ s.blobs \in Seq(BlobType)
    BY <1>1, StreamFacts
  <1>3. Current(s) \in BlobType
    BY <1>2, BlobTyped DEF Current
  <1>4. s.buffer # 0 => Settled(s, Current(s))
    BY <1>2 DEF Fine, Settled, Lies, Current, Blob, Used
  <1>5. s.buffer = 0 => s.range = 0 /\ s.offset = 0
    BY <1>2 DEF Fine, Used
  <1>6. Content(s.heap, Current(s)) \in Seq(Int) /\ Len(Content(s.heap, Current(s))) = s.range
    <2>1. CASE s.buffer = 0
      <3>1. Content(s.heap, Current(s)) = <<>>
        BY <2>1, <1>5, ContentEmpty DEF Current
      <3> QED
        BY <3>1, <2>1, <1>5
    <2>2. CASE s.buffer # 0
      <3>1. Lies(s.heap, Current(s)) /\ Current(s).len = s.range
        BY <2>2, <1>4, BlobIs DEF Settled, Current
      <3> QED
        BY <3>1, <1>2, <1>3, ContentTyped
    <2> QED
      BY <2>1, <2>2
  <1>7. AllSettled(s, s.blobs)
    BY DEF Fine, AllSettled
  <1> QED
    BY <1>1, <1>2, <1>3, <1>4, <1>5, <1>6, <1>7

(* The output is the content of the list followed by that of the range.    *)
LEMMA OutIs ==
    ASSUME NEW s, Fine(s)
    PROVE  /\ SnapRange(s) \in Seq(BlobType) /\ AllSettled(s, SnapRange(s))
           /\ Out(s) = FlattenSeq(Contents(s.heap, s.blobs)) \o Content(s.heap, Current(s))
           /\ Out(s) \in Seq(Int) /\ FlattenSeq(Contents(s.heap, s.blobs)) \in Seq(Int)
  <1>1. s \in StreamType /\ s.blobs \in Seq(BlobType) /\ AllSettled(s, s.blobs) /\ s.range \in Nat
    BY CurrentSettled, StreamFacts
  <1>2. FlattenSeq(Contents(s.heap, s.blobs)) \in Seq(Int)
    BY <1>1, ContentsTyped
  <1>3. CASE s.range > 0
    <2>1. Settled(s, Current(s)) /\ Current(s) \in BlobType
      BY <1>1, <1>3, CurrentSettled
    <2>2. SnapRange(s) = Append(s.blobs, Current(s))
      BY <1>3 DEF SnapRange, Current
    <2>3. Content(s.heap, Current(s)) \in Seq(Int)
      BY CurrentSettled
    <2>4. /\ Append(s.blobs, Current(s)) \in Seq(BlobType) /\ AllSettled(s, Append(s.blobs, Current(s)))
          /\ FlattenSeq(Contents(s.heap, Append(s.blobs, Current(s)))) = FlattenSeq(Contents(s.heap, s.blobs)) \o Content(s.heap, Current(s))
      BY <1>1, <2>1, ContentsAppend
    <2>5. FlattenSeq(Contents(s.heap, s.blobs)) \o Content(s.heap, Current(s)) \in Seq(Int)
      BY <1>2, <2>3, ConcatProperties
    <2> QED
      BY <2>2, <2>4, <2>5, <1>2 DEF Out
  <1>4. CASE ~(s.range > 0)
    <2>1. SnapRange(s) = s.blobs /\ s.range = 0
      BY <1>1, <1>4 DEF SnapRange
    <2>2. Content(s.heap, Current(s)) = <<>>
      BY <2>1, ContentEmpty DEF Current
    <2>3. FlattenSeq(Contents(s.heap, s.blobs)) \o <<>> = FlattenSeq(Contents(s.heap, s.blobs))
      BY <1>2, ConcatEmptySeq
    <2> QED
      BY <1>1, <1>2, <2>1, <2>2, <2>3 DEF Out
  <1> QED
    BY <1>3, <1>4

-----------------------------------------------------------------------------
(* u comes from s by writing d behind what s holds.                        *)
Writes(s, u, d) ==
    /\ Fine(u) /\ Keeps(s, u)
    /\ u.error = "none" => Out(u) = Out(s) \o d

(* A stream that is left alone keeps everything.                           *)
LEMMA KeepsReflexive == ASSUME NEW s \in StreamType PROVE Keeps(s, s)
  <1>1. Len(s.heap) \in Nat /\ Used(s) \in Nat
    BY StreamFacts
  <1> QED
    BY <1>1 DEF Keeps

(* Writing nothing.                                                        *)
LEMMA WritesNothing == ASSUME NEW s, Fine(s) PROVE Writes(s, s, <<>>)
  <1>1. Out(s) \o <<>> = Out(s)
    BY OutIs, ConcatEmptySeq
  <1>2. Keeps(s, s)
    BY KeepsReflexive DEF Fine
  <1> QED
    BY <1>1, <1>2 DEF Writes

(* Writing d and then e is writing d \o e, as long as nothing was thrown   *)
(* in between.                                                             *)
LEMMA WritesThenWrites ==
    ASSUME NEW s, NEW u, NEW w, NEW d \in Seq(Int), NEW e \in Seq(Int), Fine(s),
           w.error = "none" => u.error = "none", Writes(s, u, d), Writes(u, w, e)
    PROVE  Writes(s, w, d \o e)
  <1>1. Fine(u) /\ Fine(w) /\ Keeps(s, u) /\ Keeps(u, w)
    BY DEF Writes
  <1>2. Keeps(s, w)
    BY <1>1, KeepsTransitive DEF Fine
  <1>3. ASSUME w.error = "none" PROVE Out(w) = Out(s) \o (d \o e)
    <2>1. Out(w) = Out(u) \o e /\ Out(u) = Out(s) \o d
      BY <1>3 DEF Writes
    <2>2. PICK o \in Seq(Int) : o = Out(s)
      BY OutIs
    <2>3. (o \o d) \o e = o \o (d \o e)
      BY BytesAssociative, Zenon
    <2> QED
      BY <2>1, <2>2, <2>3
  <1> QED
    BY <1>1, <1>2, <1>3 DEF Writes

(* CopyIn of data that fits writes it.                                     *)
LEMMA CopyInWrites ==
    ASSUME NEW s, Fine(s), NEW data \in Seq(Int), Used(s) + Len(data) <= s.size
    PROVE  Writes(s, CopyIn(s, data), data) /\ CopyIn(s, data).error = s.error
  <1>1. CASE data = <<>>
    <2>1. CopyIn(s, data) = s
      BY <1>1 DEF CopyIn
    <2> QED
      BY <1>1, <2>1, WritesNothing
  <1>2. CASE data # <<>>
    <2>u. PICK u : u = CopyIn(s, data)
      OBVIOUS
    <2>1. /\ Fine(u) /\ Keeps(s, u) /\ u.error = s.error /\ u.blobs = s.blobs
          /\ Content(u.heap, Blob(s.buffer, s.offset, s.range + Len(data))) = Content(s.heap, Blob(s.buffer, s.offset, s.range)) \o data
      BY <2>u, <1>2, CopyInFine
    <2>2. u.buffer = s.buffer /\ u.offset = s.offset /\ u.range = s.range + Len(data)
      BY <2>u, <1>2, CopyInFine
    <2>3. Content(u.heap, Current(u)) = Content(s.heap, Current(s)) \o data
      BY <2>1, <2>2 DEF Current
    <2>4. PICK f : f = FlattenSeq(Contents(s.heap, s.blobs))
      OBVIOUS
    <2>5. FlattenSeq(Contents(u.heap, u.blobs)) = f
      <3>1. s \in StreamType /\ s.blobs \in Seq(BlobType) /\ AllSettled(s, s.blobs) /\ u \in StreamType
        BY <2>1, CurrentSettled
      <3>2. Contents(u.heap, s.blobs) = Contents(s.heap, s.blobs)
        BY <3>1, <2>1, ContentsKept
      <3> QED
        BY <3>2, <2>1, <2>4
    <2>6. PICK c : c = Content(s.heap, Current(s))
      OBVIOUS
    <2>7. f \in Seq(Int) /\ c \in Seq(Int) /\ Out(s) = f \o c
      BY <2>4, <2>6, OutIs, CurrentSettled
    <2>8. Out(u) = f \o (c \o data)
      BY <2>1, <2>3, <2>5, <2>6, OutIs
    <2>9. (f \o c) \o data = f \o (c \o data)
      BY <2>7, BytesAssociative, Zenon
    <2> QED
      BY <2>u, <2>1, <2>7, <2>8, <2>9 DEF Writes
  <1> QED
    BY <1>1, <1>2

(* New memory leaves the old alone.                                        *)
LEMMA AppendKeeps ==
    ASSUME NEW s \in StreamType, NEW u \in StreamType, NEW c, u.heap = Append(s.heap, c),
           (u.buffer = s.buffer /\ Used(s) <= Used(u)) \/ u.buffer = Len(s.heap) + 1
    PROVE  Keeps(s, u)
  <1>1. s.heap \in Seq(Cell) /\ Len(s.heap) \in Nat /\ u.buffer \in Nat /\ Used(s) \in Nat
    BY StreamFacts
  <1>2. Len(u.heap) = Len(s.heap) + 1 /\ \A k \in 1 .. Len(s.heap) : u.heap[k] = s.heap[k]
    BY <1>1
  <1>3. Len(s.heap) <= Len(u.heap) /\ ((u.buffer = s.buffer /\ Used(s) <= Used(u)) \/ u.buffer > Len(s.heap))
    BY <1>1, <1>2
  <1> QED
    BY <1>2, <1>3 DEF Keeps

(* A grown buffer is large enough (output_buffer.h:246-258).               *)
LEMMA NewSizeEnough == ASSUME NEW s, s.size \in Nat,
  NEW k \in Nat PROVE NewSize(s, k) \in Nat /\ k <= NewSize(s, k)
  <1>1. InitialSize \in Nat
    BY StreamsAssumption
  <1>2. PICK z \in Nat : z = s.size
    OBVIOUS
  <1>3. z \div 2 \in Nat
    BY <1>2
  <1>4. PICK g : g = z + IF z # 0 THEN z \div 2 ELSE InitialSize
    OBVIOUS
  <1>5. g \in Nat
    BY <1>1, <1>3, <1>4
  <1>6. NewSize(s, k) = IF g > k THEN g ELSE k
    BY <1>2, <1>4 DEF NewSize
  <1> QED
    BY <1>5, <1>6

(* Going on in a new buffer behind the snapped range writes nothing.       *)
LEMMA NewBufferWrites ==
    ASSUME NEW s, Fine(s), NEW k \in Nat
    PROVE  /\ Writes(s, NewBuffer(s, k), <<>>)
           /\ NewBuffer(s, k).error = s.error /\ k <= NewBuffer(s, k).size /\ Used(NewBuffer(s, k)) = 0
  <1>u. PICK u : u = NewBuffer(s, k)
    OBVIOUS
  <1>n. PICK n \in Nat : n = NewSize(s, k) /\ k <= n
    BY NewSizeEnough, StreamFacts DEF Fine
  <1>s. s \in StreamType /\ s.heap \in Seq(Cell) /\ Len(s.heap) \in Nat /\ s.buffer \in Nat
    BY StreamFacts DEF Fine
  <1>b. SnapRange(s) \in Seq(BlobType) /\ AllSettled(s, SnapRange(s)) /\ Out(s) \in Seq(Int)
    BY OutIs
  <1>z. PICK z : z = [i \in 1 .. n |-> 0]
    OBVIOUS
  <1>1. z \in Seq(Int) /\ Len(z) = n
    <2>1. z \in [1 .. n -> Int]
      BY <1>z
    <2> QED
      BY <2>1, FunctionIsSeq
  <1>c. PICK c : c = Shared(z)
    OBVIOUS
  <1>2. c \in Cell /\ c.bytes = z /\ c.live /\ ~c.raw
    BY <1>c, <1>1 DEF Shared, Cell
  <1>h. PICK h : h = Append(s.heap, c)
    OBVIOUS
  <1>3. h \in Seq(Cell) /\ Len(h) = Len(s.heap) + 1 /\ h[Len(s.heap) + 1] = c
    BY <1>h, <1>s, <1>2
  <1>m. PICK m \in Nat : m = Len(s.heap) + 1
    BY <1>s
  <1>4. PICK bs \in Seq(BlobType) : bs = SnapRange(s)
    BY <1>b
  <1>5. u = [s EXCEPT !.blobs = bs, !.size = n, !.offset = 0, !.range = 0, !.heap = h, !.buffer = m]
    BY <1>u, <1>n, <1>h, <1>c, <1>z, <1>m, <1>4, <1>s DEF NewBuffer, StreamType
  <1>6. /\ u \in StreamType /\ u.heap = h /\ u.buffer = m /\ u.size = n /\ u.range = 0 /\ u.offset = 0
             /\ u.blobs = bs /\ u.error = s.error
    BY <1>5, <1>s, <1>3 DEF StreamType
  <1>7. Keeps(s, u)
    BY <1>s, <1>6, <1>h, <1>m, AppendKeeps
  <1>8. Used(u) = 0
    BY <1>6 DEF Used
  <1>9. AllSettled(u, bs) /\ Contents(u.heap, bs) = Contents(s.heap, bs)
    BY <1>s, <1>6, <1>7, <1>b, <1>4, ContentsKept
  <1>10. Fine(u)
    <2>1. \A i \in DOMAIN u.blobs : Settled(u, u.blobs[i])
      BY <1>9, <1>6 DEF AllSettled
    <2>2. u.buffer # 0 /\ u.buffer \in 1 .. Len(u.heap) /\ u.heap[u.buffer] = c /\ 0 + u.size <= u.size
      BY <1>6, <1>m, <1>3, <1>s
    <2>3. Lies(u.heap, Blob(u.buffer, 0, u.size)) /\ Len(u.heap[u.buffer].bytes) = u.size
      BY <2>2, <1>2, <1>1, <1>6, BlobIs DEF Lies
    <2>4. Used(u) <= u.size
      BY <1>8, <1>6
    <2> QED
      BY <1>6, <2>1, <2>2, <2>3, <2>4 DEF Fine
  <1>11. Out(u) = Out(s) \o <<>>
    <2>1. SnapRange(u) = bs
      BY <1>6 DEF SnapRange
    <2>2. Out(u) = Out(s)
      BY <2>1, <1>9, <1>4 DEF Out
    <2> QED
      BY <2>2, <1>b, ConcatEmptySeq
  <1> QED
    BY <1>u, <1>n, <1>6, <1>7, <1>8, <1>10, <1>11 DEF Writes

(* A write that throws leaves a stream in order.                           *)
LEMMA FailedWrites ==
    ASSUME NEW s, Fine(s), NEW d
    PROVE  Writes(s, Failed(s), d) /\ Failed(s).error = "bad_alloc"
  <1>u. PICK u : u = Failed(s)
    OBVIOUS
  <1>s. s \in StreamType
    BY DEF Fine
  <1>b. SnapRange(s) \in Seq(BlobType) /\ AllSettled(s, SnapRange(s))
    BY OutIs
  <1>1. PICK bs \in Seq(BlobType) : bs = SnapRange(s)
    BY <1>b
  <1>2. u = [s EXCEPT !.blobs = bs, !.error = "bad_alloc"]
    BY <1>u, <1>1 DEF Failed
  <1>3. /\ u \in StreamType /\ u.heap = s.heap /\ u.buffer = s.buffer /\ u.size = s.size /\ u.range = s.range
        /\ u.offset = s.offset /\ u.blobs = bs /\ u.error = "bad_alloc"
    BY <1>2, <1>s DEF StreamType
  <1>4. Used(u) = Used(s)
    BY <1>3 DEF Used
  <1>5. Keeps(s, u)
    BY <1>3, <1>4, <1>s, KeepsReflexive DEF Keeps
  <1>6. \A i \in DOMAIN u.blobs : Settled(u, u.blobs[i])
    BY <1>b, <1>1, <1>3, <1>4 DEF AllSettled, Settled
  <1>7. Fine(u)
    BY <1>3, <1>4, <1>6 DEF Fine
  <1>8. u.error # "none"
    BY <1>3
  <1> QED
    BY <1>u, <1>3, <1>5, <1>7, <1>8 DEF Writes

(* How much of data goes into the current buffer.                          *)
Part(s, data) ==
    LET room == s.size - s.range - s.offset IN IF room > Len(data) THEN Len(data) ELSE room

(* Write appends its bytes, whether they fit into the buffer or are        *)
(* divided between it and a new one (output_buffer.h:213).                 *)
LEMMA WriteWrites ==
    ASSUME NEW s, Fine(s), s.error = "none", NEW data \in Seq(Int)
    PROVE  Writes(s, Write(s, data), data)
  <1>n. PICK n : n = Part(s, data)
    OBVIOUS
  <1>s. s \in StreamType /\ s.size \in Nat /\ s.offset \in Nat /\ s.range \in Nat /\ Used(s) <= s.size
    BY StreamFacts DEF Fine
  <1>l. PICK l \in Nat : l = Len(data)
    OBVIOUS
  <1>1. n \in Nat /\ n <= l /\ Used(s) + n <= s.size
    BY <1>n, <1>l, <1>s DEF Part, Used
  <1>a. PICK a : a = SubSeq(data, 1, n)
    OBVIOUS
  <1>r. PICK rest : rest = SubSeq(data, n + 1, l)
    OBVIOUS
  <1>2. a \in Seq(Int) /\ Len(a) = n /\ rest \in Seq(Int) /\ Len(rest) = l - n /\ data = a \o rest
    <2>1. a \in Seq(Int) /\ Len(a) = n
      BY <1>a, <1>1, <1>l
    <2>2. rest \in Seq(Int) /\ Len(rest) = l - n
      BY <1>r, <1>1, <1>l
    <2>3. data = a \o rest
      <3>1. 1 \in 1 .. Len(data) + 1 /\ n \in 1 - 1 .. Len(data) /\ l \in n .. Len(data)
        BY <1>1, <1>l
      <3>2. SubSeq(data, 1, n) \o SubSeq(data, n + 1, l) = SubSeq(data, 1, l)
        BY <3>1, ConcatAdjacentSubSeq
      <3>3. SubSeq(data, 1, l) = data
        BY <1>l, SubSeqFull
      <3> QED
        BY <3>2, <3>3, <1>a, <1>r
    <2> QED
      BY <2>1, <2>2, <2>3
  <1>t. PICK s1 : s1 = CopyIn(s, a)
    OBVIOUS
  <1>3. Writes(s, s1, a) /\ s1.error = "none"
    BY <1>1, <1>2, <1>t, CopyInWrites
  <1>4. Fine(s1) /\ s1.size \in Nat
    BY <1>3, StreamFacts DEF Writes, Fine
  <1>5. Write(s, data) =
          IF rest = <<>> THEN s1
          ELSE IF s1.size > MaxBufferSize THEN Failed(s1)
          ELSE CopyIn(NewBuffer(s1, Len(rest)), rest)
    <2>1. s1 = CopyIn(s, SubSeq(data, 1, Part(s, data))) /\ rest = SubSeq(data, Part(s, data) + 1, Len(data))
      BY <1>t, <1>a, <1>r, <1>n, <1>l
    <2> QED
      BY <2>1, Zenon DEF Write, Part
  <1>6. CASE rest = <<>>
    <2>1. data = a
      BY <1>6, <1>2, ConcatEmptySeq
    <2> QED
      BY <1>6, <1>5, <1>3, <2>1
  <1>7. CASE rest # <<>> /\ s1.size > MaxBufferSize
    <2>1. Writes(s1, Failed(s1), rest)
      BY <1>4, FailedWrites
    <2>2. Writes(s, Failed(s1), a \o rest)
      BY <2>1, <1>2, <1>3, WritesThenWrites
    <2> QED
      BY <2>2, <1>7, <1>5, <1>2
  <1>8. CASE rest # <<>> /\ ~(s1.size > MaxBufferSize)
    <2>1. PICK k \in Nat : k = Len(rest)
      BY <1>2
    <2>u. PICK u : u = NewBuffer(s1, k)
      OBVIOUS
    <2>2. Writes(s1, u, <<>>) /\ u.error = "none" /\ k <= u.size /\ Used(u) = 0
      BY <1>3, <1>4, <2>u, NewBufferWrites
    <2>3. Writes(u, CopyIn(u, rest), rest)
      <3>1. Fine(u)
        BY <2>2 DEF Writes
      <3>2. Used(u) + Len(rest) <= u.size
        BY <2>1, <2>2, <1>2
      <3> QED
        BY <3>1, <3>2, <1>2, CopyInWrites
    <2>4. Writes(s1, CopyIn(u, rest), rest)
      <3>1. <<>> \o rest = rest /\ <<>> \in Seq(Int)
        BY <1>2, ConcatEmptySeq
      <3>2. Writes(s1, CopyIn(u, rest), <<>> \o rest)
        BY <3>1, <1>2, <1>4, <2>2, <2>3, WritesThenWrites
      <3> QED
        BY <3>1, <3>2
    <2>5. Writes(s, CopyIn(u, rest), a \o rest)
      BY <2>4, <1>2, <1>3, WritesThenWrites
    <2> QED
      BY <2>5, <2>u, <2>1, <1>8, <1>5, <1>2
  <1> QED
    BY <1>6, <1>7, <1>8

(* Write appends the content of a blob, whether it is copied or chained    *)
(* (output_buffer.h:286).                                                  *)
LEMMA WriteBlobWrites ==
    ASSUME NEW s, Fine(s), s.error = "none", NEW b \in BlobType, Settled(s, b)
    PROVE  Writes(s, WriteBlob(s, b), Content(s.heap, b))
  <1>s. s \in StreamType /\ s.heap \in Seq(Cell) /\ s.offset \in Nat /\ s.range \in Nat
          /\ Used(s) = s.offset + s.range
    BY StreamFacts DEF Fine, Used
  <1>c. Content(s.heap, b) \in Seq(Int)
    BY <1>s, ContentTyped DEF Settled
  <1>1. CASE b.len < MinChaining \/ Len(s.blobs) >= MaxChain
    <2>1. WriteBlob(s, b) = Write(s, Content(s.heap, b))
      BY <1>1 DEF WriteBlob
    <2> QED
      BY <2>1, <1>c, WriteWrites
  <1>2. CASE ~(b.len < MinChaining \/ Len(s.blobs) >= MaxChain)
    <2>u. PICK u : u = WriteBlob(s, b)
      OBVIOUS
    <2>1. SnapRange(s) \in Seq(BlobType) /\ AllSettled(s, SnapRange(s))
      BY OutIs
    <2>2. PICK bs : bs = Append(SnapRange(s), b)
      OBVIOUS
    <2>3. bs \in Seq(BlobType) /\ AllSettled(s, bs)
            /\ FlattenSeq(Contents(s.heap, bs)) = Out(s) \o Content(s.heap, b)
      BY <2>1, <2>2, <1>s, ContentsAppend DEF Out
    <2>4. PICK o \in Nat : o = s.offset + s.range
      BY <1>s
    <2>5. u = [s EXCEPT !.blobs = bs, !.offset = o, !.range = 0]
      BY <2>u, <2>2, <2>4, <1>2, <1>s DEF WriteBlob, StreamType
    <2>6. /\ u \in StreamType /\ u.heap = s.heap /\ u.buffer = s.buffer /\ u.size = s.size /\ u.range = 0
          /\ u.offset = o /\ u.blobs = bs /\ u.error = s.error
      BY <2>3, <2>5, <1>s DEF StreamType
    <2>7. Used(u) = Used(s)
      BY <2>4, <2>6, <1>s DEF Used
    <2>8. Keeps(s, u)
      BY <2>6, <2>7, <1>s, KeepsReflexive DEF Keeps
    <2>9. \A i \in DOMAIN u.blobs : Settled(u, u.blobs[i])
      BY <2>3, <2>6, <2>7 DEF AllSettled, Settled
    <2>10. Fine(u)
      BY <2>6, <2>7, <2>9 DEF Fine
    <2>11. Out(u) = Out(s) \o Content(s.heap, b)
      <3>1. SnapRange(u) = bs
        BY <2>6 DEF SnapRange
      <3> QED
        BY <3>1, <2>3, <2>6 DEF Out
    <2> QED
      BY <2>u, <2>8, <2>10, <2>11 DEF Writes
  <1> QED
    BY <1>1, <1>2

-----------------------------------------------------------------------------
(* Division by the weight of the continuation bit.                         *)
LEMMA Divided ==
    ASSUME NEW x \in Nat
    PROVE  /\ x \div More \in Nat /\ x % More \in Nat /\ x % More < More
           /\ x = More * (x \div More) + (x % More)
           /\ (x \div More = 0 => x < More) /\ (x = 0 => x \div More = 0)
  BY StreamsAssumption

(* The recursion of Rest, as a predicate on functions.                     *)
RestStep(f, v, k) == IF k = 0 THEN v ELSE f[k - 1] \div More
Rests(f, v, n) == \A k \in 0 .. n : f[k] = RestStep(f, v, k)
RestsUpto(v, n) == \E f \in [0 .. n -> Nat] : Rests(f, v, n)

(* It has a solution ...                                                   *)
LEMMA RestsExist ==
    ASSUME NEW v \in Nat, NEW n \in Nat PROVE RestsUpto(v, n)
  <1> DEFINE S == {m \in Nat : RestsUpto(v, m)}
  <1>1. 0 \in S
    <2>1. PICK f : f = [k \in 0 .. 0 |-> v]
      OBVIOUS
    <2>2. f \in [0 .. 0 -> Nat] /\ \A k \in 0 .. 0 : k = 0 /\ f[k] = v
      BY <2>1
    <2>3. Rests(f, v, 0)
      BY <2>2 DEF Rests, RestStep
    <2> QED
      BY <2>2, <2>3 DEF RestsUpto
  <1>2. ASSUME NEW m \in Nat, m \in S PROVE m + 1 \in S
    <2>1. PICK f \in [0 .. m -> Nat] : Rests(f, v, m)
      BY <1>2 DEF RestsUpto
    <2>2. PICK a : a = f[m] \div More
      OBVIOUS
    <2>3. a \in Nat
      <3>1. f[m] \in Nat
        BY <2>1
      <3> QED
        BY <3>1, <2>2, Divided
    <2>g. PICK g : g = [k \in 0 .. m + 1 |-> IF k = m + 1 THEN a ELSE f[k]]
      OBVIOUS
    <2>4. g \in [0 .. m + 1 -> Nat]
      BY <2>g, <2>3
    <2>5. g[m + 1] = a /\ \A k \in 0 .. m : g[k] = f[k]
      BY <2>g
    <2>6. ASSUME NEW k \in 0 .. m + 1 PROVE g[k] = RestStep(g, v, k)
      <3>1. CASE k = m + 1
        <4>1. k # 0 /\ k - 1 = m /\ m \in 0 .. m
          BY <3>1
        <4> QED
          BY <3>1, <4>1, <2>2, <2>5 DEF RestStep
      <3>2. CASE k # m + 1
        <4>1. k \in 0 .. m /\ (k # 0 => k - 1 \in 0 .. m)
          BY <3>2
        <4>2. f[k] = RestStep(f, v, k)
          BY <4>1, <2>1 DEF Rests
        <4>3. g[k] = f[k] /\ (k # 0 => g[k - 1] = f[k - 1])
          BY <4>1, <2>5
        <4> QED
          BY <4>2, <4>3 DEF RestStep
      <3> QED
        BY <3>1, <3>2
    <2>7. RestsUpto(v, m + 1)
      BY <2>4, <2>6, Zenon DEF RestsUpto, Rests
    <2>8. m + 1 \in Nat
      OBVIOUS
    <2> QED
      BY <2>7, <2>8
  <1>3. Nat \subseteq S
    <2> HIDE DEF S
    <2> QED
      BY <1>1, <1>2, NatInd
  <1> QED
    BY <1>3

(* ... and only one.                                                       *)
LEMMA RestsUnique ==
    ASSUME NEW v \in Nat, NEW m \in Nat, NEW n \in Nat, m <= n, NEW f, NEW g, Rests(f, v, m), Rests(g, v, n)
    PROVE  f[m] = g[m]
  <1> DEFINE S == {k \in Nat : k <= m => f[k] = g[k]}
  <1>1. 0 \in S
    <2>1. 0 \in 0 .. m /\ 0 \in 0 .. n
      OBVIOUS
    <2> QED
      BY <2>1 DEF Rests, RestStep
  <1>2. ASSUME NEW k \in Nat, k \in S PROVE k + 1 \in S
    <2>1. ASSUME k + 1 <= m PROVE f[k + 1] = g[k + 1]
      <3>1. PICK j : j = k + 1
        OBVIOUS
      <3>2. j \in 0 .. m /\ j \in 0 .. n /\ j # 0 /\ j - 1 = k /\ k <= m
        BY <3>1, <2>1
      <3>3. f[k] = g[k]
        BY <1>2, <3>2
      <3>4. f[j] = RestStep(f, v, j) /\ g[j] = RestStep(g, v, j)
        BY <3>2 DEF Rests
      <3>5. f[j] = f[k] \div More /\ g[j] = g[k] \div More
        BY <3>2, <3>4 DEF RestStep
      <3> QED
        BY <3>1, <3>3, <3>5
    <2>2. k + 1 \in Nat
      OBVIOUS
    <2> QED
      BY <2>1, <2>2, Zenon
  <1>3. Nat \subseteq S
    <2> HIDE DEF S
    <2> QED
      BY <1>1, <1>2, NatInd
  <1>4. m \in S
    BY <1>3
  <1> QED
    BY <1>4

(* Rest is its last value.                                                 *)
LEMMA RestIs ==
    ASSUME NEW v \in Nat, NEW n \in Nat
    PROVE  \E f \in [0 .. n -> Nat] : Rests(f, v, n) /\ Rest(v, n) = f[n]
  <1>1. PICK f \in [0 .. n -> Nat] : Rests(f, v, n)
    BY RestsExist DEF RestsUpto
  <1> DEFINE Is(h) == h = [k \in 0 .. n |-> IF k = 0 THEN v ELSE h[k - 1] \div More]
             g == CHOOSE h : Is(h)
  <1>3. Is(f)
    <2>1. \A k \in 0 .. n : f[k] = IF k = 0 THEN v ELSE f[k - 1] \div More
      BY <1>1 DEF Rests, RestStep
    <2>2. f = [k \in 0 .. n |-> f[k]]
      BY <1>1
    <2> QED
      BY <2>1, <2>2
  <1>4. ASSUME NEW h, Is(h) PROVE Rests(h, v, n)
    <2>1. PICK b : b = [k \in 0 .. n |-> IF k = 0 THEN v ELSE h[k - 1] \div More]
      OBVIOUS
    <2>2. \A k \in 0 .. n : b[k] = IF k = 0 THEN v ELSE h[k - 1] \div More
      BY <2>1
    <2>3. h = b
      BY <1>4, <2>1, Zenon
    <2> QED
      BY <2>2, <2>3, Zenon DEF Rests, RestStep
  <1>5. Is(g)
    BY <1>3, Zenon
  <1>6. Rest(v, n) = g[n]
    BY Zenon DEF Rest
  <1> HIDE DEF g, Is
  <1>7. Rests(g, v, n)
    BY <1>4, <1>5
  <1>8. f[n] = g[n]
    <2>1. n <= n
      OBVIOUS
    <2> QED
      BY <2>1, <1>1, <1>7, RestsUnique
  <1> QED
    BY <1>1, <1>6, <1>8

(* Nothing shifted out.                                                    *)
LEMMA RestZero == ASSUME NEW v \in Nat PROVE Rest(v, 0) = v
  <1>1. PICK f \in [0 .. 0 -> Nat] : Rests(f, v, 0) /\ Rest(v, 0) = f[0]
    BY RestIs
  <1>2. 0 \in 0 .. 0
    OBVIOUS
  <1> QED
    BY <1>1, <1>2 DEF Rests, RestStep

(* One more group is shifted out.                                          *)
LEMMA RestNext ==
    ASSUME NEW v \in Nat, NEW n \in Nat
    PROVE  Rest(v, n) \in Nat /\ Rest(v, n + 1) = Rest(v, n) \div More
  <1>m. PICK m \in Nat : m = n + 1
    OBVIOUS
  <1>1. PICK f \in [0 .. n -> Nat] : Rests(f, v, n) /\ Rest(v, n) = f[n]
    BY RestIs
  <1>2. PICK g \in [0 .. m -> Nat] : Rests(g, v, m) /\ Rest(v, m) = g[m]
    BY RestIs
  <1>3. n <= m /\ n \in 0 .. n /\ m \in 0 .. m /\ m # 0 /\ m - 1 = n
    BY <1>m
  <1>4. f[n] = g[n]
    <2>1. n <= m
      BY <1>3
    <2>2. \A h, k : Rests(h, v, n) /\ Rests(k, v, m) => h[n] = k[n]
      BY <2>1, RestsUnique
    <2> QED
      BY <1>1, <1>2, <2>2, Zenon
  <1>5. g[m] = RestStep(g, v, m)
    BY <1>2, <1>3 DEF Rests
  <1>6. g[m] = g[n] \div More
    BY <1>5, <1>3 DEF RestStep
  <1>7. f[n] \in Nat
    BY <1>1, <1>3
  <1> QED
    BY <1>1, <1>2, <1>4, <1>6, <1>7, <1>m

(* What is left is a number.                                               *)
LEMMA RestNat == ASSUME NEW v \in Nat, NEW n \in Nat PROVE Rest(v, n) \in Nat
  BY RestNext

(* Shifting out m groups and then n.                                       *)
LEMMA RestOfRest ==
    ASSUME NEW v \in Nat, NEW m \in Nat, NEW n \in Nat
    PROVE  Rest(Rest(v, m), n) = Rest(v, m + n)
  <1>v. PICK w \in Nat : w = Rest(v, m)
    BY RestNat
  <1> DEFINE S == {k \in Nat : Rest(w, k) = Rest(v, m + k)}
  <1>1. 0 \in S
    <2>1. Rest(w, 0) = w /\ m + 0 = m
      BY RestZero
    <2> QED
      BY <2>1, <1>v
  <1>2. ASSUME NEW k \in Nat, k \in S PROVE k + 1 \in S
    <2>1. Rest(w, k + 1) = Rest(w, k) \div More
      BY RestNext
    <2>2. PICK j \in Nat : j = m + k
      OBVIOUS
    <2>3. Rest(v, j + 1) = Rest(v, j) \div More
      BY RestNext
    <2>4. j + 1 = m + (k + 1)
      BY <2>2
    <2>5. Rest(w, k) = Rest(v, j)
      BY <1>2, <2>2
    <2>6. Rest(w, k + 1) = Rest(v, m + (k + 1)) /\ k + 1 \in Nat
      BY <2>1, <2>3, <2>4, <2>5
    <2> QED
      BY <2>6
  <1>3. Nat \subseteq S
    <2> HIDE DEF S
    <2> QED
      BY <1>1, <1>2, NatInd
  <1>4. n \in S
    BY <1>3
  <1> QED
    BY <1>4, <1>v

(* When nothing is left, nothing comes back.                               *)
LEMMA RestStaysZero ==
    ASSUME NEW v \in Nat, NEW m \in Nat, NEW n \in Nat, m <= n, Rest(v, m) = 0
    PROVE  Rest(v, n) = 0
  <1> DEFINE S == {k \in Nat : Rest(v, m + k) = 0}
  <1>1. 0 \in S
    <2>1. m + 0 = m
      OBVIOUS
    <2> QED
      BY <2>1
  <1>2. ASSUME NEW k \in Nat, k \in S PROVE k + 1 \in S
    <2>2. PICK j \in Nat : j = m + k
      OBVIOUS
    <2>3. Rest(v, j + 1) = Rest(v, j) \div More
      BY RestNext
    <2>4. j + 1 = m + (k + 1) /\ k + 1 \in Nat
      BY <2>2
    <2>5. Rest(v, j) = 0
      BY <1>2, <2>2
    <2>6. 0 \div More = 0
      BY Divided
    <2>7. Rest(v, m + (k + 1)) = 0
      BY <2>3, <2>4, <2>5, <2>6
    <2> QED
      BY <2>7, <2>4
  <1>3. Nat \subseteq S
    <2> HIDE DEF S
    <2> QED
      BY <1>1, <1>2, NatInd
  <1>4. n - m \in S /\ m + (n - m) = n
    BY <1>3
  <1> QED
    BY <1>4

(* Min of a non-empty set of numbers.                                      *)
LEMMA MinIs ==
    ASSUME NEW S \in SUBSET Nat, S # {}
    PROVE  Min(S) \in S /\ Min(S) \in Nat /\ \A y \in S : Min(S) <= y
  <1>1. PICK n \in S : \A m \in S : n <= m
    BY Least
  <1>2. Min(S) \in S /\ \A y \in S : Min(S) <= y
    BY <1>1, Zenon DEF Min
  <1> QED
    BY <1>2

(* The numbers of full groups.                                             *)
LEMMA GroupsTyped == ASSUME NEW t \in Varints PROVE Groups[t] \in Nat /\ Groups[t] >= 2 /\ Groups[t] <= 9
  BY DEF Varints, Groups

(* v is a value of type t, and n the number of bytes it takes.             *)
InWidth(t, v) == v \in Nat /\ Rest(v, Groups[t] + 1) = 0

IsLength(v, n) == Rest(v, n) = 0 /\ \A k \in 1 .. n - 1 : Rest(v, k) # 0

(* VarintLength is that number ...                                         *)
LEMMA LengthIs ==
    ASSUME NEW t \in Varints, NEW v, InWidth(t, v)
    PROVE  VarintLength(t, v) \in 1 .. Groups[t] + 1 /\ IsLength(v, VarintLength(t, v))
  <1>1. PICK g \in Nat : g = Groups[t]
    BY GroupsTyped
  <1>2. v \in Nat /\ Rest(v, g + 1) = 0
    BY <1>1 DEF InWidth
  <1>3. PICK S : S = {n \in 1 .. g + 1 : Rest(v, n) = 0 \/ n = g + 1}
    OBVIOUS
  <1>4. S \in SUBSET Nat /\ g + 1 \in S
    BY <1>3
  <1>5. PICK n : n = VarintLength(t, v)
    OBVIOUS
  <1>6. n = Min(S)
    BY <1>1, <1>3, <1>5 DEF VarintLength
  <1>7. n \in S /\ n \in Nat /\ \A y \in S : n <= y
    <2>1. S # {}
      BY <1>4
    <2> QED
      BY <2>1, <1>4, <1>6, MinIs
  <1>8. n \in 1 .. g + 1 /\ Rest(v, n) = 0
    BY <1>2, <1>3, <1>7
  <1>9. ASSUME NEW k \in 1 .. n - 1 PROVE Rest(v, k) # 0
    <2>1. k \in 1 .. g + 1 /\ ~(n <= k)
      BY <1>7, <1>8
    <2>2. k \notin S
      BY <2>1, <1>7
    <2> QED
      BY <2>1, <2>2, <1>3
  <1> QED
    BY <1>1, <1>5, <1>8, <1>9 DEF IsLength

(* ... and there is one only.                                              *)
LEMMA LengthUnique ==
    ASSUME NEW v, NEW m \in Nat, NEW n \in Nat, m >= 1, n >= 1, IsLength(v, m), IsLength(v, n)
    PROVE  m = n
  <1>1. ASSUME NEW a \in Nat, NEW b \in Nat, a >= 1, a < b, IsLength(v, a), IsLength(v, b) PROVE FALSE
    <2>1. a \in 1 .. b - 1
      BY <1>1
    <2> QED
      BY <2>1, <1>1 DEF IsLength
  <1>2. m < n \/ n < m \/ m = n
    OBVIOUS
  <1> QED
    BY <1>1, <1>2

(* The bytes before the last one.                                          *)
Byte(v, i) == (Rest(v, i - 1) % More) + More
Prefix(v, j) == [i \in 1 .. j |-> Byte(v, i)]

(* Their types.                                                            *)
LEMMA ByteTyped == ASSUME NEW v \in Nat, NEW i \in Nat, i >= 1 PROVE Byte(v, i) \in Int
  <1>1. PICK r \in Nat : r = Rest(v, i - 1)
    <2>1. i - 1 \in Nat
      OBVIOUS
    <2> QED
      BY <2>1, RestNat
  <1>2. r % More \in Nat /\ More \in Nat
    BY Divided, StreamsAssumption
  <1> QED
    BY <1>1, <1>2 DEF Byte

(* The first j bytes.                                                      *)
LEMMA PrefixTyped ==
    ASSUME NEW v \in Nat, NEW j \in Nat
    PROVE  Prefix(v, j) \in Seq(Int) /\ Len(Prefix(v, j)) = j /\ \A i \in 1 .. j : Prefix(v, j)[i] = Byte(v, i)
  <1>1. \A i \in 1 .. j : Byte(v, i) \in Int
    BY ByteTyped
  <1>2. Prefix(v, j) \in [1 .. j -> Int]
    BY <1>1 DEF Prefix
  <1> QED
    BY <1>2, FunctionIsSeq DEF Prefix

(* One byte more.                                                          *)
LEMMA PrefixNext ==
    ASSUME NEW v \in Nat, NEW j \in Nat
    PROVE  Prefix(v, j + 1) = Prefix(v, j) \o <<Byte(v, j + 1)>>
  <1>m. PICK m \in Nat : m = j + 1
    OBVIOUS
  <1>p. PICK p : p = Prefix(v, j)
    OBVIOUS
  <1>q. PICK q : q = Prefix(v, m)
    OBVIOUS
  <1>b. PICK b \in Int : b = Byte(v, m)
    BY <1>m, ByteTyped
  <1>1. p \in Seq(Int) /\ Len(p) = j /\ \A i \in 1 .. j : p[i] = Byte(v, i)
    BY <1>p, PrefixTyped
  <1>2. q \in Seq(Int) /\ Len(q) = m /\ \A i \in 1 .. m : q[i] = Byte(v, i)
    BY <1>q, PrefixTyped
  <1>3. PICK x : x = p \o <<b>>
    OBVIOUS
  <1>4. x \in Seq(Int) /\ Len(x) = m /\ (\A i \in 1 .. j : x[i] = p[i]) /\ x[m] = b
    <2>1. <<b>> \in Seq(Int) /\ Len(<<b>>) = 1 /\ <<b>>[1] = b
      OBVIOUS
    <2>2. PICK y \in Seq(Int) : y = <<b>>
      BY <2>1
    <2>3. /\ x \in Seq(Int) /\ Len(x) = Len(p) + Len(y)
          /\ \A i \in 1 .. Len(p) + Len(y) : x[i] = IF i <= Len(p) THEN p[i] ELSE y[i - Len(p)]
      BY <1>1, <1>3, <2>2, ConcatProperties, Zenon
    <2>4. Len(p) = j /\ Len(y) = 1 /\ y[1] = b
      BY <1>1, <2>1, <2>2
    <2> QED
      BY <2>3, <2>4, <1>m
  <1>5. ASSUME NEW i \in 1 .. m PROVE q[i] = x[i]
    <2>1. i \in 1 .. j \/ i = m
      BY <1>m
    <2> QED
      BY <2>1, <1>1, <1>2, <1>4, <1>b
  <1>6. q = x
    BY <1>2, <1>4, <1>5, SeqEqual
  <1> QED
    BY <1>m, <1>p, <1>q, <1>b, <1>3, <1>6

(* The encoding: as many bytes as the value takes, all but the last with   *)
(* the continuation bit.                                                   *)
LEMMA VarintIs ==
    ASSUME NEW t \in Varints, NEW v, InWidth(t, v), NEW n, n = VarintLength(t, v)
    PROVE  /\ n \in Nat /\ n >= 1 /\ n <= Groups[t] + 1 /\ IsLength(v, n)
           /\ Varint(t, v) \in Seq(Int) /\ Len(Varint(t, v)) = n
           /\ \A i \in 1 .. n - 1 : Varint(t, v)[i] = Byte(v, i)
           /\ Varint(t, v)[n] = Rest(v, n - 1) /\ Rest(v, n - 1) \in Nat
  <1>v. v \in Nat
    BY DEF InWidth
  <1>g. Groups[t] \in Nat
    BY GroupsTyped
  <1>1. n \in Nat /\ n >= 1 /\ n <= Groups[t] + 1 /\ IsLength(v, n)
    BY <1>g, LengthIs
  <1>2. PICK d : d = Varint(t, v)
    OBVIOUS
  <1>3. d = [i \in 1 .. n |-> IF i < n THEN Byte(v, i) ELSE Rest(v, i - 1)]
    BY <1>2 DEF Varint, Byte
  <1>4. \A i \in 1 .. n : d[i] = IF i < n THEN Byte(v, i) ELSE Rest(v, i - 1)
    BY <1>3
  <1>5. \A i \in 1 .. n - 1 : i \in 1 .. n /\ i < n
    BY <1>1
  <1>6. \A i \in 1 .. n - 1 : d[i] = Byte(v, i)
    BY <1>4, <1>5
  <1>7. d[n] = Rest(v, n - 1)
    <2>1. n \in 1 .. n /\ ~(n < n)
      BY <1>1
    <2> QED
      BY <2>1, <1>4
  <1>8. Rest(v, n - 1) \in Nat
    <2>1. n - 1 \in Nat
      BY <1>1
    <2> QED
      BY <2>1, <1>v, RestNat
  <1>9. d \in Seq(Int) /\ Len(d) = n
    <2>1. ASSUME NEW i \in 1 .. n PROVE d[i] \in Int
      <3>1. CASE i < n
        <4>1. i \in 1 .. n - 1 /\ i \in Nat /\ i >= 1
          BY <1>1, <3>1
        <4> QED
          BY <4>1, <1>6, <1>v, ByteTyped
      <3>2. CASE ~(i < n)
        <4>1. i = n
          BY <1>1, <3>2
        <4> QED
          BY <4>1, <1>7, <1>8
      <3> QED
        BY <3>1, <3>2
    <2>2. d = [i \in 1 .. n |-> d[i]]
      BY <1>3
    <2>3. d \in [1 .. n -> Int]
      BY <2>1, <2>2
    <2> QED
      BY <2>3, <1>1, FunctionIsSeq
  <1> QED
    BY <1>1, <1>2, <1>6, <1>7, <1>8, <1>9

(* What is left of a value is a value of its type.                         *)
LEMMA RestInWidth ==
    ASSUME NEW t \in Varints, NEW v, InWidth(t, v), NEW k \in Nat
    PROVE  InWidth(t, Rest(v, k))
  <1>1. PICK g \in Nat : g = Groups[t] + 1
    BY GroupsTyped
  <1>2. v \in Nat /\ Rest(v, g) = 0 /\ Rest(v, k) \in Nat
    BY <1>1, RestNat DEF InWidth
  <1>3. g <= k + g /\ k + g \in Nat
    OBVIOUS
  <1>4. Rest(v, k + g) = 0
    BY <1>2, <1>3, RestStaysZero
  <1>5. Rest(Rest(v, k), g) = 0
    BY <1>2, <1>4, RestOfRest
  <1> QED
    BY <1>1, <1>2, <1>5 DEF InWidth

(* The encoding of v is its first k bytes and the encoding of what is      *)
(* left, while something is left. WriteVariableUnsigned relies on it when  *)
(* it calls itself.                                                        *)
LEMMA VarintSplit ==
    ASSUME NEW t \in Varints, NEW v, InWidth(t, v),
             NEW k \in Nat, k <= Groups[t], \A j \in 1 .. k : Rest(v, j) # 0
    PROVE  Varint(t, v) = Prefix(v, k) \o Varint(t, Rest(v, k))
  <1>g. PICK g \in Nat : g = Groups[t]
    BY GroupsTyped
  <1>v. v \in Nat /\ Rest(v, g + 1) = 0
    BY <1>g DEF InWidth
  <1>w. PICK w \in Nat : w = Rest(v, k)
    BY <1>v, RestNat
  <1>1. InWidth(t, w)
    BY <1>w, RestInWidth
  <1>m. PICK m : m = VarintLength(t, w)
    OBVIOUS
  <1>n. PICK n : n = VarintLength(t, v)
    OBVIOUS
  <1>d. PICK d : d = Varint(t, w)
    OBVIOUS
  <1>e. PICK e : e = Varint(t, v)
    OBVIOUS
  <1>2. /\ m \in Nat /\ m >= 1 /\ IsLength(w, m) /\ d \in Seq(Int) /\ Len(d) = m
        /\ (\A i \in 1 .. m - 1 : d[i] = Byte(w, i)) /\ d[m] = Rest(w, m - 1)
    BY <1>1, <1>m, <1>d, VarintIs
  <1>3. /\ n \in Nat /\ n >= 1 /\ IsLength(v, n) /\ e \in Seq(Int) /\ Len(e) = n
        /\ (\A i \in 1 .. n - 1 : e[i] = Byte(v, i)) /\ e[n] = Rest(v, n - 1)
    BY <1>n, <1>e, VarintIs
  <1>4. n = k + m
    <2>1. Rest(v, k + m) = 0
      BY <1>2, <1>v, <1>w, RestOfRest DEF IsLength
    <2>2. ASSUME NEW j \in 1 .. (k + m) - 1 PROVE Rest(v, j) # 0
      <3>1. CASE j \in 1 .. k
        BY <3>1
      <3>2. CASE j \notin 1 .. k
        <4>1. PICK i \in Nat : i = j - k /\ i \in 1 .. m - 1
          BY <3>2, <1>2
        <4>2. Rest(w, i) # 0
          BY <4>1, <1>2 DEF IsLength
        <4>3. Rest(w, i) = Rest(v, k + i) /\ k + i = j
          BY <4>1, <1>v, <1>w, RestOfRest
        <4> QED
          BY <4>2, <4>3
      <3> QED
        BY <3>1, <3>2
    <2>3. PICK l \in Nat : l = k + m /\ l >= 1
      BY <1>2
    <2>4. IsLength(v, l)
      BY <2>1, <2>2, <2>3 DEF IsLength
    <2> QED
      BY <2>3, <2>4, <1>3, LengthUnique
  <1>p. PICK p : p = Prefix(v, k)
    OBVIOUS
  <1>5. p \in Seq(Int) /\ Len(p) = k /\ \A i \in 1 .. k : p[i] = Byte(v, i)
    BY <1>p, <1>v, PrefixTyped
  <1>x. PICK x : x = p \o d
    OBVIOUS
  <1>6. x \in Seq(Int) /\ Len(x) = k + m /\ (\A i \in 1 .. k : x[i] = p[i])
          /\ (\A i \in 1 .. m : x[k + i] = d[i])
    <2>1. /\ x \in Seq(Int) /\ Len(x) = k + m
          /\ \A i \in 1 .. k + m : x[i] = IF i <= k THEN p[i] ELSE d[i - k]
      <3>1. /\ p \o d \in Seq(Int) /\ Len(p \o d) = Len(p) + Len(d)
            /\ \A i \in 1 .. Len(p) + Len(d) : (p \o d)[i] = IF i <= Len(p) THEN p[i] ELSE d[i - Len(p)]
        BY <1>2, <1>5, ConcatProperties, Zenon
      <3> QED
        BY <3>1, <1>2, <1>5, <1>x, Zenon
    <2>2. \A i \in 1 .. k : i \in 1 .. k + m /\ i <= k
      BY <1>2
    <2>3. \A i \in 1 .. m : k + i \in 1 .. k + m /\ ~(k + i <= k) /\ (k + i) - k = i
      BY <1>2
    <2>4. \A i \in 1 .. k : x[i] = p[i]
      BY <2>1, <2>2
    <2>5. ASSUME NEW i \in 1 .. m PROVE x[k + i] = d[i]
      <3>1. x[k + i] = d[(k + i) - k]
        BY <2>1, <2>3
      <3> QED
        BY <3>1, <2>3
    <2> QED
      BY <2>1, <2>4, <2>5
  <1>7. ASSUME NEW i \in 1 .. k PROVE e[i] = x[i]
    <2>1. i \in 1 .. n - 1
      BY <1>2, <1>4
    <2> QED
      BY <2>1, <1>3, <1>5, <1>6
  <1>8. ASSUME NEW i \in 1 .. m PROVE e[k + i] = x[k + i]
    <2>0. i - 1 \in Nat /\ k + (i - 1) = (k + i) - 1
      OBVIOUS
    <2>1. Rest(w, i - 1) = Rest(v, (k + i) - 1)
      BY <2>0, <1>v, <1>w, RestOfRest
    <2>2. CASE i = m
      <3>1. e[k + i] = Rest(v, (k + i) - 1)
        BY <2>2, <1>3, <1>4
      <3>2. d[i] = Rest(w, i - 1)
        BY <2>2, <1>2
      <3> QED
        BY <3>1, <3>2, <2>1, <1>6
    <2>3. CASE i # m
      <3>1. i \in 1 .. m - 1 /\ k + i \in 1 .. n - 1
        BY <2>3, <1>2, <1>4
      <3>2. e[k + i] = Byte(v, k + i) /\ d[i] = Byte(w, i)
        BY <3>1, <1>2, <1>3
      <3>3. Byte(v, k + i) = Byte(w, i)
        BY <2>1 DEF Byte
      <3> QED
        BY <3>2, <3>3, <1>6
    <2> QED
      BY <2>2, <2>3
  <1>9. ASSUME NEW j \in 1 .. k + m PROVE e[j] = x[j]
    <2>1. CASE j \in 1 .. k
      BY <2>1, <1>7
    <2>2. CASE j \notin 1 .. k
      <3>1. PICK i \in 1 .. m : j = k + i
        <4>1. j - k \in 1 .. m /\ j = k + (j - k)
          BY <2>2, <1>2
        <4> QED
          BY <4>1
      <3> QED
        BY <3>1, <1>8
    <2> QED
      BY <2>1, <2>2
  <1>10. e = x
    BY <1>3, <1>4, <1>6, <1>9, SeqEqual
  <1> QED
    BY <1>10, <1>e, <1>x, <1>p, <1>d, <1>w

(* A value below the continuation bit is its own encoding.                 *)
LEMMA VarintOne ==
    ASSUME NEW t \in Varints, NEW v \in Nat, Rest(v, 1) = 0, InWidth(t, v)
    PROVE  Varint(t, v) = <<v>>
  <1>n. PICK n : n = VarintLength(t, v)
    OBVIOUS
  <1>1. n \in Nat /\ n >= 1 /\ IsLength(v, n)
    BY <1>n, VarintIs
  <1>2. n = 1
    <2>1. 1 .. 1 - 1 = {}
      OBVIOUS
    <2>2. IsLength(v, 1)
      BY <2>1 DEF IsLength
    <2> QED
      BY <1>1, <2>2, LengthUnique
  <1>3. PICK d : d = Varint(t, v)
    OBVIOUS
  <1>4. d \in Seq(Int) /\ Len(d) = 1 /\ d[1] = Rest(v, 0)
    <2>1. d \in Seq(Int) /\ Len(d) = n /\ d[n] = Rest(v, n - 1)
      BY <1>3, <1>n, VarintIs
    <2>2. n - 1 = 0
      BY <1>2
    <2> QED
      BY <2>1, <2>2, <1>2
  <1>5. d[1] = v
    BY <1>4, RestZero
  <1> QED
    BY <1>3, <1>4, <1>5

(* The streams after j bytes of v, for all j up to n.                      *)
AfterStep(f, s, v, j) == IF j = 0 THEN s ELSE Write(f[j - 1], <<(Rest(v, j - 1) % More) + More>>)
Afters(f, s, v, n) == \A j \in 0 .. n : f[j] = AfterStep(f, s, v, j)
IsFunction(f, n) == f = [j \in 0 .. n |-> f[j]]
AftersUpto(s, v, n) == \E f : IsFunction(f, n) /\ Afters(f, s, v, n)

(* The recursion of WriteVarint has a solution.                            *)
LEMMA AftersExist ==
    ASSUME NEW s, NEW v, NEW n \in Nat PROVE AftersUpto(s, v, n)
  <1> DEFINE S == {m \in Nat : AftersUpto(s, v, m)}
  <1>1. 0 \in S
    <2>1. PICK f : f = [k \in 0 .. 0 |-> s]
      OBVIOUS
    <2>2. f = [k \in 0 .. 0 |-> f[k]] /\ \A k \in 0 .. 0 : k = 0 /\ f[k] = s
      BY <2>1
    <2>3. Afters(f, s, v, 0)
      BY <2>2, Zenon DEF Afters, AfterStep
    <2> QED
      BY <2>2, <2>3 DEF AftersUpto, IsFunction
  <1>2. ASSUME NEW m \in Nat, m \in S PROVE m + 1 \in S
    <2>1. PICK f : IsFunction(f, m) /\ Afters(f, s, v, m)
      BY <1>2 DEF AftersUpto
    <2>2. PICK a : a = Write(f[m], <<(Rest(v, m) % More) + More>>)
      OBVIOUS
    <2>g. PICK g : g = [k \in 0 .. m + 1 |-> IF k = m + 1 THEN a ELSE f[k]]
      OBVIOUS
    <2>4. g = [k \in 0 .. m + 1 |-> g[k]]
      BY <2>g
    <2>5. g[m + 1] = a /\ \A k \in 0 .. m : g[k] = f[k]
      BY <2>g
    <2>6. ASSUME NEW k \in 0 .. m + 1 PROVE g[k] = AfterStep(g, s, v, k)
      <3>1. CASE k = m + 1
        <4>1. k # 0 /\ k - 1 = m /\ m \in 0 .. m
          BY <3>1
        <4>2. g[k] = a /\ g[k - 1] = f[m]
          BY <3>1, <4>1, <2>5
        <4> QED
          BY <4>1, <4>2, <2>2, Zenon DEF AfterStep
      <3>2. CASE k # m + 1
        <4>1. k \in 0 .. m /\ (k # 0 => k - 1 \in 0 .. m)
          BY <3>2
        <4>2. f[k] = AfterStep(f, s, v, k)
          BY <4>1, <2>1 DEF Afters
        <4>3. g[k] = f[k] /\ (k # 0 => g[k - 1] = f[k - 1])
          BY <4>1, <2>5
        <4> QED
          BY <4>2, <4>3, Zenon DEF AfterStep
      <3> QED
        BY <3>1, <3>2
    <2>7. AftersUpto(s, v, m + 1)
      BY <2>4, <2>6, Zenon DEF AftersUpto, Afters, IsFunction
    <2>8. m + 1 \in Nat
      OBVIOUS
    <2> QED
      BY <2>7, <2>8
  <1>3. Nat \subseteq S
    <2> HIDE DEF S
    <2> QED
      BY <1>1, <1>2, NatInd
  <1> QED
    BY <1>3

(* The call of WriteVariableUnsigned that does not call itself.            *)
LastCall(f, t, v, n) == Min({j \in 0 .. n : HasRoom(f[j], t) \/ f[j].error # "none" \/ Rest(v, j + 1) = 0})

(* WriteVarint is what that call does.                                     *)
LEMMA WriteVarintIs ==
    ASSUME NEW s, NEW t, NEW v, Groups[t] \in Nat
    PROVE  \E f : /\ Afters(f, s, v, Groups[t])
                  /\ WriteVarint(s, t, v) =
                       LET last == LastCall(f, t, v, Groups[t])
                       IN  CASE HasRoom(f[last], t) -> CopyIn(f[last], Varint(t, Rest(v, last)))
                             [] ~HasRoom(f[last], t) /\ f[last].error # "none" -> f[last]
                             [] ~HasRoom(f[last], t)
                               /\ f[last].error = "none" -> Write(f[last], <<Rest(v, last)>>)
  <1> DEFINE Is(h) == h = [j \in 0 .. Groups[t] |-> IF j = 0 THEN s ELSE Write(h[j - 1], <<(Rest(v, j - 1) % More) + More>>)]
             g == CHOOSE h : Is(h)
  <1>1. PICK f : IsFunction(f, Groups[t]) /\ Afters(f, s, v, Groups[t])
    BY AftersExist DEF AftersUpto
  <1>3. Is(f)
    <2>1. \A j \in 0 .. Groups[t] : f[j] = IF j = 0 THEN s ELSE Write(f[j - 1], <<(Rest(v, j - 1) % More) + More>>)
      BY <1>1, Zenon DEF Afters, AfterStep
    <2>2. f = [j \in 0 .. Groups[t] |-> f[j]]
      BY <1>1, Zenon DEF IsFunction
    <2>3. PICK h : h = [j \in 0 .. Groups[t] |-> IF j = 0 THEN s ELSE Write(f[j - 1], <<(Rest(v, j - 1) % More) + More>>)]
      OBVIOUS
    <2>4. [j \in 0 .. Groups[t] |-> f[j]] = h
      BY <2>1, <2>3
    <2> QED
      BY <2>2, <2>3, <2>4, Zenon
  <1>4. ASSUME NEW h, Is(h) PROVE Afters(h, s, v, Groups[t])
    <2>1. PICK b : b = [j \in 0 .. Groups[t] |-> IF j = 0 THEN s ELSE Write(h[j - 1], <<(Rest(v, j - 1) % More) + More>>)]
      OBVIOUS
    <2>2. \A j \in 0 .. Groups[t] : b[j] = IF j = 0 THEN s ELSE Write(h[j - 1], <<(Rest(v, j - 1) % More) + More>>)
      BY <2>1
    <2>3. h = b
      BY <1>4, <2>1, Zenon
    <2> QED
      BY <2>2, <2>3, Zenon DEF Afters, AfterStep
  <1>5. Is(g)
    BY <1>3, Zenon
  <1>6. WriteVarint(s, t, v) =
          LET last == LastCall(g, t, v, Groups[t])
          IN  CASE HasRoom(g[last], t) -> CopyIn(g[last], Varint(t, Rest(v, last)))
                [] ~HasRoom(g[last], t) /\ g[last].error # "none" -> g[last]
                [] ~HasRoom(g[last], t) /\ g[last].error = "none" -> Write(g[last], <<Rest(v, last)>>)
    BY Zenon DEF WriteVarint, LastCall
  <1> HIDE DEF g, Is
  <1>7. Afters(g, s, v, Groups[t])
    BY <1>4, <1>5
  <1> QED
    BY <1>6, <1>7, Zenon

(* Up to that call the first bytes of v are written, one by one.           *)
LEMMA AftersWrite ==
    ASSUME NEW s, Fine(s), s.error = "none", NEW v \in Nat, NEW f, NEW n \in Nat, Afters(f, s, v, n),
           NEW last \in Nat, last <= n, \A j \in 0 .. last - 1 : f[j].error = "none"
    PROVE  Writes(s, f[last], Prefix(v, last))
  <1> DEFINE S == {j \in Nat : j <= last => Writes(s, f[j], Prefix(v, j))}
  <1>1. 0 \in S
    <2>1. f[0] = s
      <3>1. 0 \in 0 .. n
        OBVIOUS
      <3>2. f[0] = AfterStep(f, s, v, 0)
        BY <3>1 DEF Afters
      <3> QED
        BY <3>2, Zenon DEF AfterStep
    <2>2. Prefix(v, 0) = <<>>
      <3>1. Prefix(v, 0) \in Seq(Int) /\ Len(Prefix(v, 0)) = 0
        BY PrefixTyped
      <3> QED
        BY <3>1, EmptySeq
    <2> QED
      BY <2>1, <2>2, WritesNothing
  <1>2. ASSUME NEW j \in Nat, j \in S PROVE j + 1 \in S
    <2>1. ASSUME j + 1 <= last PROVE Writes(s, f[j + 1], Prefix(v, j + 1))
      <3>m. PICK m : m = j + 1
        OBVIOUS
      <3>1. j <= last /\ m \in 0 .. n /\ m # 0 /\ m - 1 = j /\ j \in 0 .. last - 1
        BY <2>1, <3>m
      <3>2. Writes(s, f[j], Prefix(v, j)) /\ f[j].error = "none"
        BY <1>2, <3>1
      <3>3. f[m] = AfterStep(f, s, v, m)
        BY <3>1 DEF Afters
      <3>b. PICK b \in Int : b = Byte(v, m)
        BY <3>m, ByteTyped
      <3>4. f[m] = Write(f[j], <<b>>)
        BY <3>1, <3>3, <3>b, Zenon DEF AfterStep, Byte
      <3>a. <<b>> \in Seq(Int)
        BY <3>b
      <3>5. PICK d \in Seq(Int) : d = <<b>>
        BY <3>a
      <3>6. Fine(f[j])
        BY <3>2 DEF Writes
      <3>7. Writes(f[j], f[m], d)
        BY <3>2, <3>4, <3>5, <3>6, WriteWrites
      <3>8. PICK p \in Seq(Int) : p = Prefix(v, j)
        BY PrefixTyped
      <3>9. Writes(s, f[m], p \o d)
        BY <3>2, <3>7, <3>8, WritesThenWrites
      <3>10. p \o d = Prefix(v, j + 1)
        BY <3>5, <3>8, <3>b, <3>m, PrefixNext
      <3> QED
        BY <3>9, <3>10, <3>m
    <2>2. j + 1 \in Nat
      OBVIOUS
    <2> QED
      BY <2>1, <2>2, Zenon
  <1>3. Nat \subseteq S
    <2> HIDE DEF S
    <2> QED
      BY <1>1, <1>2, NatInd
  <1>4. last \in S /\ last <= last
    BY <1>3
  <1> QED
    BY <1>4

(* WriteVariableUnsigned appends the encoding of v, whichever of its calls *)
(* finds room for it (output_buffer.h:318).                                *)
LEMMA WriteVarintWrites ==
    ASSUME NEW s, Fine(s), s.error = "none", NEW t \in Varints, NEW v, InWidth(t, v)
    PROVE  Writes(s, WriteVarint(s, t, v), Varint(t, v))
  <1>n. PICK n \in Nat : n = Groups[t]
    BY GroupsTyped
  <1>v. v \in Nat /\ Rest(v, n + 1) = 0
    BY <1>n DEF InWidth
  <1>u. PICK u : u = WriteVarint(s, t, v)
    OBVIOUS
  <1>1. PICK f : /\ Afters(f, s, v, n)
                 /\ u = LET last == LastCall(f, t, v, n)
                        IN  CASE HasRoom(f[last], t) -> CopyIn(f[last], Varint(t, Rest(v, last)))
                              [] ~HasRoom(f[last], t) /\ f[last].error # "none" -> f[last]
                              [] ~HasRoom(f[last], t)
                                /\ f[last].error = "none" -> Write(f[last], <<Rest(v, last)>>)
    BY <1>n, <1>u, WriteVarintIs, Zenon
  <1>l. PICK last : last = LastCall(f, t, v, n)
    OBVIOUS
  <1>S. PICK S : S = {j \in 0 .. n : HasRoom(f[j], t) \/ f[j].error # "none" \/ Rest(v, j + 1) = 0}
    OBVIOUS
  <1>2. last \in S /\ last \in Nat /\ \A y \in S : last <= y
    <2>1. S \in SUBSET Nat /\ n \in S
      BY <1>S, <1>v
    <2>2. S # {}
      BY <2>1
    <2>3. last = Min(S)
      BY <1>l, <1>S, Zenon DEF LastCall
    <2> QED
      BY <2>1, <2>2, <2>3, MinIs
  <1>3. last \in 0 .. n /\ (HasRoom(f[last], t) \/ f[last].error # "none" \/ Rest(v, last + 1) = 0)
    BY <1>2, <1>S
  <1>4. ASSUME NEW j \in 0 .. last - 1 PROVE f[j].error = "none" /\ Rest(v, j + 1) # 0
    <2>1. j \in 0 .. n /\ ~(last <= j)
      BY <1>2, <1>3
    <2>2. j \notin S
      BY <2>1, <1>2
    <2> QED
      BY <2>1, <2>2, <1>S
  <1>g. PICK g : g = f[last]
    OBVIOUS
  <1>w. PICK w \in Nat : w = Rest(v, last)
    BY <1>2, <1>v, RestNat
  <1>p. PICK p \in Seq(Int) : p = Prefix(v, last)
    BY <1>2, <1>v, PrefixTyped
  <1>5. Writes(s, g, p)
    <2>1. last <= n /\ \A j \in 0 .. last - 1 : f[j].error = "none"
      BY <1>3, <1>4
    <2> QED
      BY <2>1, <1>1, <1>2, <1>g, <1>p, <1>v, AftersWrite
  <1>6. u = CASE HasRoom(g, t) -> CopyIn(g, Varint(t, w))
              [] ~HasRoom(g, t) /\ g.error # "none" -> g
              [] ~HasRoom(g, t) /\ g.error = "none" -> Write(g, <<w>>)
    BY <1>1, <1>l, <1>g, <1>w, Zenon
  <1>7. InWidth(t, w)
    BY <1>2, <1>w, RestInWidth
  <1>d. PICK d : d = Varint(t, w)
    OBVIOUS
  <1>8. d \in Seq(Int) /\ Len(d) \in Nat /\ Len(d) <= n + 1
    BY <1>7, <1>d, <1>n, VarintIs
  <1>9. Varint(t, v) = p \o d
    <2>1. \A j \in 1 .. last : Rest(v, j) # 0
      <3> TAKE j \in 1 .. last
      <3>1. j - 1 \in 0 .. last - 1 /\ (j - 1) + 1 = j
        BY <1>2
      <3> QED
        BY <3>1, <1>4
    <2>2. last <= Groups[t]
      BY <1>3, <1>n
    <2> QED
      BY <2>1, <2>2, <1>2, <1>p, <1>d, <1>w, VarintSplit
  <1>10. Fine(g)
    BY <1>5 DEF Writes
  <1>11. CASE HasRoom(g, t)
    <2>1. u = CopyIn(g, d)
      BY <1>6, <1>11, <1>d
    <2>2. Used(g) + Len(d) <= g.size
      <3>1. g.size \in Nat /\ g.offset \in Nat /\ g.range \in Nat
        BY <1>10, StreamFacts DEF Fine
      <3>2. n + g.range + g.offset < g.size
        BY <1>11, <1>n DEF HasRoom
      <3> QED
        BY <3>1, <3>2, <1>8 DEF Used
    <2>3. Writes(g, u, d) /\ u.error = g.error
      BY <2>1, <2>2, <1>8, <1>10, CopyInWrites
    <2>4. Writes(s, u, p \o d)
      BY <2>3, <1>5, <1>8, WritesThenWrites
    <2> QED
      BY <2>4, <1>9, <1>u
  <1>12. CASE ~HasRoom(g, t) /\ g.error # "none"
    <2>1. u = g
      BY <1>6, <1>12
    <2>2. Writes(s, u, p \o d)
      BY <2>1, <1>5, <1>12 DEF Writes
    <2> QED
      BY <2>2, <1>9, <1>u
  <1>13. CASE ~HasRoom(g, t) /\ g.error = "none"
    <2>1. u = Write(g, <<w>>)
      BY <1>6, <1>13
    <2>2. d = <<w>>
      <3>1. Rest(v, last + 1) = 0
        BY <1>3, <1>13, <1>g
      <3>2. Rest(w, 1) = 0
        BY <3>1, <1>2, <1>v, <1>w, RestOfRest
      <3> QED
        BY <3>2, <1>7, <1>d, VarintOne
    <2>3. Writes(g, u, d)
      BY <2>1, <2>2, <1>8, <1>10, <1>13, WriteWrites
    <2>4. Writes(s, u, p \o d)
      BY <2>3, <1>5, <1>8, <1>13, WritesThenWrites
    <2> QED
      BY <2>4, <1>9, <1>u
  <1> QED
    BY <1>11, <1>12, <1>13

-----------------------------------------------------------------------------
(* From heap h to g only raw memory has changed, and memory was added.     *)
SameShared(h, g) ==
    /\ Len(h) <= Len(g)
    /\ \A k \in 1 .. Len(h) : ~h[k].raw => g[k] = h[k]

(* u is s over another heap.                                               *)
SameStream(s, u) ==
    /\ u.buffer = s.buffer /\ u.size = s.size /\ u.range = s.range
    /\ u.offset = s.offset /\ u.blobs = s.blobs

(* Settled blobs do not notice.                                            *)
LEMMA SharedSettled ==
    ASSUME NEW s \in StreamType, NEW u \in StreamType, SameStream(s, u), SameShared(s.heap, u.heap),
           NEW b \in BlobType, Settled(s, b)
    PROVE  Settled(u, b) /\ Content(u.heap, b) = Content(s.heap, b)
  <1>1. b.buf \in 1 .. Len(s.heap) /\ s.heap[b.buf].live /\ ~s.heap[b.buf].raw /\ Len(s.heap) \in Nat
          /\ Len(u.heap) \in Nat
    BY StreamFacts DEF Settled, Lies
  <1>2. u.heap[b.buf] = s.heap[b.buf] /\ b.buf \in 1 .. Len(u.heap)
    BY <1>1 DEF SameShared
  <1>3. Used(u) = Used(s) /\ u.buffer = s.buffer
    BY DEF SameStream, Used
  <1>4. Settled(u, b)
    BY <1>1, <1>2, <1>3 DEF Settled, Lies
  <1>5. Content(u.heap, b) = Content(s.heap, b)
    BY <1>2 DEF Content
  <1> QED
    BY <1>4, <1>5

(* Nor does a list of them.                                                *)
LEMMA SharedContents ==
    ASSUME NEW s \in StreamType, NEW u \in StreamType, SameStream(s, u), SameShared(s.heap, u.heap),
           NEW bs \in Seq(BlobType), AllSettled(s, bs)
    PROVE  AllSettled(u, bs) /\ Contents(u.heap, bs) = Contents(s.heap, bs)
  <1>1. ASSUME NEW i \in DOMAIN bs PROVE Settled(u, bs[i]) /\ Content(u.heap, bs[i]) = Content(s.heap, bs[i])
    <2>1. bs[i] \in BlobType /\ Settled(s, bs[i])
      BY DEF AllSettled
    <2> QED
      BY <2>1, SharedSettled
  <1>2. AllSettled(u, bs)
    BY <1>1 DEF AllSettled
  <1>3. Contents(u.heap, bs) = Contents(s.heap, bs)
    BY <1>1 DEF Contents
  <1> QED
    BY <1>2, <1>3

(* Nor does the stream.                                                    *)
LEMMA SharedFine ==
    ASSUME NEW s, Fine(s), NEW u \in StreamType, SameStream(s, u), SameShared(s.heap, u.heap)
    PROVE  Fine(u) /\ Out(u) = Out(s)
  <1>s. s \in StreamType /\ s.blobs \in Seq(BlobType) /\ AllSettled(s, s.blobs) /\ Len(s.heap) \in Nat
          /\ Len(u.heap) \in Nat
    BY CurrentSettled, StreamFacts
  <1>1. Used(u) = Used(s) /\ u.buffer = s.buffer /\ u.size = s.size /\ u.blobs = s.blobs
    BY DEF SameStream, Used
  <1>2. \A i \in DOMAIN u.blobs : Settled(u, u.blobs[i])
    BY <1>s, <1>1, SharedContents DEF AllSettled
  <1>3. u.buffer # 0 => Lies(u.heap, Blob(u.buffer, 0, u.size)) /\ Len(u.heap[u.buffer].bytes) = u.size
    <2> SUFFICES ASSUME u.buffer # 0 PROVE Lies(u.heap, Blob(u.buffer, 0, u.size))
          /\ Len(u.heap[u.buffer].bytes) = u.size
      OBVIOUS
    <2>1. Lies(s.heap, Blob(s.buffer, 0, s.size)) /\ Len(s.heap[s.buffer].bytes) = s.size
      BY <1>1 DEF Fine
    <2>2. s.buffer \in 1 .. Len(s.heap) /\ ~s.heap[s.buffer].raw /\ s.heap[s.buffer].live
            /\ 0 + s.size <= Len(s.heap[s.buffer].bytes)
      BY <2>1, BlobIs DEF Lies
    <2>3. u.heap[s.buffer] = s.heap[s.buffer] /\ s.buffer \in 1 .. Len(u.heap)
      BY <2>2, <1>s DEF SameShared
    <2> QED
      BY <2>1, <2>2, <2>3, <1>1, BlobIs DEF Lies
  <1>4. Fine(u)
    BY <1>1, <1>2, <1>3 DEF Fine
  <1>5. SnapRange(u) = SnapRange(s)
    BY DEF SnapRange, SameStream
  <1>6. SnapRange(s) \in Seq(BlobType) /\ AllSettled(s, SnapRange(s))
    BY OutIs
  <1>7. Contents(u.heap, SnapRange(s)) = Contents(s.heap, SnapRange(s))
    BY <1>s, <1>6, SharedContents
  <1> QED
    BY <1>4, <1>5, <1>7 DEF Out

-----------------------------------------------------------------------------
(* The heap g is h with more cells.                                        *)
Extends(h, g) == Len(h) <= Len(g) /\ \A k \in 1 .. Len(h) : g[k] = h[k]

(* More cells change nothing.                                              *)
LEMMA ExtendsShared == ASSUME NEW h, NEW g, Extends(h, g) PROVE SameShared(h, g)
  BY DEF Extends, SameShared

(* One cell more.                                                          *)
LEMMA AppendExtends ==
    ASSUME NEW h \in Seq(Cell), NEW c \in Cell
    PROVE  Append(h, c) \in Seq(Cell) /\ Extends(h, Append(h, c)) /\ Append(h, c)[Len(h) + 1] = c
             /\ Len(Append(h, c)) = Len(h) + 1
  <1>1. Len(h) \in Nat
    OBVIOUS
  <1>2. Append(h, c) \in Seq(Cell) /\ Len(Append(h, c)) = Len(h) + 1 /\ Append(h, c)[Len(h) + 1] = c
          /\ \A k \in 1 .. Len(h) : Append(h, c)[k] = h[k]
    BY AppendProperties
  <1> QED
    BY <1>1, <1>2 DEF Extends

(* And more.                                                               *)
LEMMA ExtendsTransitive ==
    ASSUME NEW h \in Seq(Cell), NEW g \in Seq(Cell), NEW k \in Seq(Cell), Extends(h, g), Extends(g, k)
    PROVE  Extends(h, k)
  <1>1. Len(h) \in Nat /\ Len(g) \in Nat /\ Len(k) \in Nat
    OBVIOUS
  <1>2. Len(h) <= Len(k) /\ \A i \in 1 .. Len(h) : i \in 1 .. Len(g)
    BY <1>1 DEF Extends
  <1> QED
    BY <1>2 DEF Extends

(* A blob that a stream hands out, of memory or of nothing.                *)
Readable(h, b) == b \in BlobType /\ (b = NoBlob \/ Lies(h, b))

(* A blob keeps its content in a larger heap.                              *)
LEMMA ExtendsReadable ==
    ASSUME NEW h \in Seq(Cell), NEW g \in Seq(Cell), Extends(h, g), NEW b, Readable(h, b)
    PROVE  Readable(g, b) /\ Content(g, b) = Content(h, b)
  <1>1. CASE b = NoBlob
    <2>1. b.buf = 0
      BY <1>1 DEF NoBlob, Blob
    <2>2. Content(g, b) = Content(h, b)
      BY <2>1 DEF Content
    <2> QED
      BY <1>1, <2>2 DEF Readable
  <1>2. CASE Lies(h, b)
    <2>1. b.buf \in 1 .. Len(h) /\ Len(h) \in Nat /\ Len(g) \in Nat
      BY <1>2 DEF Lies
    <2>2. g[b.buf] = h[b.buf] /\ b.buf \in 1 .. Len(g)
      BY <2>1 DEF Extends
    <2>3. Lies(g, b) /\ Content(g, b) = Content(h, b)
      BY <2>2, <1>2 DEF Lies, Content
    <2> QED
      BY <2>3 DEF Readable
  <1> QED
    BY <1>1, <1>2 DEF Readable

(* The content of such a blob.                                             *)
LEMMA ReadableTyped ==
    ASSUME NEW h \in Seq(Cell), NEW b, Readable(h, b)
    PROVE  b \in BlobType /\ b.len \in Nat /\ Content(h, b) \in Seq(Int) /\ Len(Content(h, b)) = b.len
             /\ (b.len = 0 => Content(h, b) = <<>>)
  <1>1. b \in BlobType /\ b.len \in Nat
    BY DEF Readable, BlobType
  <1>2. CASE b = NoBlob
    <2>1. Content(h, b) = <<>> /\ b.len = 0
      BY <1>2, ContentEmpty, BlobIs DEF NoBlob
    <2> QED
      BY <1>1, <2>1
  <1>3. CASE Lies(h, b)
    <2>1. Content(h, b) \in Seq(Int) /\ Len(Content(h, b)) = b.len
      BY <1>1, <1>3, ContentTyped
    <2> QED
      BY <1>1, <2>1, EmptySeq
  <1> QED
    BY <1>2, <1>3 DEF Readable

(* A copy in new memory.                                                   *)
Holds(c, d) == c \in Cell /\ c.bytes = d /\ c.live

(* b is the copy of d in cell c, the last one of g.                        *)
Copied(h, d, c, g, b) ==
    /\ g \in Seq(Cell) /\ Extends(h, g) /\ b \in BlobType /\ Content(g, b) = d /\ (c.raw = FALSE => Lies(g, b))
    /\ b.buf = Len(h) + 1 /\ b.buf \in 1 .. Len(g) /\ g[b.buf] = c /\ b.off = 0 /\ b.len = Len(d)

(* A copy has the content of what was copied.                              *)
LEMMA CopyReadable ==
    ASSUME NEW h \in Seq(Cell), NEW d \in Seq(Int), NEW c, Holds(c, d)
    PROVE  Copied(h, d, c, Append(h, c), Blob(Len(h) + 1, 0, Len(d)))
  <1>g. PICK g : g = Append(h, c)
    OBVIOUS
  <1>b. PICK b : b = Blob(Len(h) + 1, 0, Len(d))
    OBVIOUS
  <1>1. c \in Cell /\ c.bytes = d /\ c.live
    BY DEF Holds
  <1>2. g \in Seq(Cell) /\ Extends(h, g) /\ g[Len(h) + 1] = c /\ Len(g) = Len(h) + 1
    BY <1>1, <1>g, AppendExtends
  <1>3. b.buf = Len(h) + 1 /\ b.off = 0 /\ b.len = Len(d) /\ Len(h) \in Nat /\ Len(d) \in Nat
    BY <1>b, BlobIs
  <1>4. b \in BlobType /\ b.buf # 0 /\ b.buf \in 1 .. Len(g) /\ g[b.buf] = c
    <2>1. Len(h) + 1 \in Nat
      BY <1>3
    <2> QED
      BY <2>1, <1>2, <1>3, <1>b, BlobTyped
  <1>5. c.raw = FALSE => Lies(g, b)
    BY <1>1, <1>3, <1>4 DEF Lies
  <1>6. Content(g, b) = d
    <2>1. Content(g, b) = [i \in 1 .. Len(d) |-> d[0 + i]]
      BY <1>1, <1>3, <1>4 DEF Content
    <2>2. [i \in 1 .. Len(d) |-> d[0 + i]] = [i \in 1 .. Len(d) |-> d[i]]
      OBVIOUS
    <2>3. d = [i \in 1 .. Len(d) |-> d[i]]
      OBVIOUS
    <2> QED
      BY <2>1, <2>2, <2>3
  <1> QED
    BY <1>2, <1>3, <1>4, <1>5, <1>6, <1>g, <1>b DEF Copied

(* Memory of blob_prolong, merge and the application's blobs.              *)
LEMMA SharedCell == ASSUME NEW d \in Seq(Int) PROVE Holds(Shared(d), d) /\ Shared(d).raw = FALSE
  BY DEF Holds, Shared, Cell

(* Memory of the application.                                              *)
LEMMA RawCell == ASSUME NEW d \in Seq(Int) PROVE Holds(Raw(d), d) /\ Raw(d).raw = TRUE
  BY DEF Holds, Raw, Cell

(* merge(begin, end): one blob with the content of all, whether it is an   *)
(* empty one, the first one or a copy (blob.h).                            *)
LEMMA MergeBlobsIs ==
    ASSUME NEW s \in StreamType, NEW bs \in Seq(BlobType), AllSettled(s, bs), NEW m, m = MergeBlobs(s.heap, bs)
    PROVE  /\ m.heap \in Seq(Cell) /\ Extends(s.heap, m.heap) /\ Readable(m.heap, m.blob)
           /\ Content(m.heap, m.blob) = FlattenSeq(Contents(s.heap, bs))
  <1>h. PICK h \in Seq(Cell) : h = s.heap
    BY StreamFacts
  <1>b. PICK d : d = FlattenSeq(Contents(s.heap, bs))
    OBVIOUS
  <1>c. PICK c : c = Contents(s.heap, bs)
    OBVIOUS
  <1>1. d \in Seq(Int) /\ c \in Seq(Seq(Int)) /\ Len(c) = Len(bs)
    BY <1>b, <1>c, ContentsTyped
  <1>2. m = IF d = <<>> THEN [heap |-> h, blob |-> NoBlob]
            ELSE IF Len(d) = bs[1].len THEN [heap |-> h, blob |-> bs[1]]
            ELSE [heap |-> Append(h, Shared(d)), blob |-> Blob(Len(h) + 1, 0, Len(d))]
    BY <1>b, <1>h, Zenon DEF MergeBlobs, Contents
  <1>3. Extends(h, h)
    BY DEF Extends
  <1>4. CASE d = <<>>
    <2>1. m.heap = h /\ m.blob = NoBlob
      BY <1>2, <1>4
    <2>2. NoBlob \in BlobType
      BY BlobTyped DEF NoBlob
    <2>3. Content(h, NoBlob) = <<>>
      BY ContentEmpty DEF NoBlob
    <2> QED
      BY <2>1, <2>2, <2>3, <1>3, <1>4, <1>b, <1>h DEF Readable
  <1>5. CASE d # <<>> /\ Len(d) = bs[1].len
    <2>1. m.heap = h /\ m.blob = bs[1]
      BY <1>2, <1>5
    <2>2. c # <<>>
      BY <1>5, <1>b, <1>c, FlattenEmpty
    <2>3. bs # <<>> /\ 1 \in DOMAIN bs /\ bs[1] \in BlobType
      BY <2>2, <1>1
    <2>4. Settled(s, bs[1]) /\ c[1] = Content(h, bs[1])
      BY <2>3, <1>c, <1>h DEF AllSettled, Contents
    <2>5. Lies(h, bs[1])
      BY <2>4, <1>h DEF Settled
    <2>6. PICK x : x = Content(h, bs[1])
      OBVIOUS
    <2>7. x \in Seq(Int) /\ Len(x) = bs[1].len
      BY <2>3, <2>5, <2>6, ContentTyped
    <2>8. PICK r \in Seq(Int) : d = x \o r
      <3>1. StartsWith(Int, c[1], d)
        BY <1>1, <2>2, <1>b, <1>c, FlattenFirst
      <3> QED
        BY <3>1, <2>4, <2>6 DEF StartsWith
    <2>9. Len(d) = Len(x) + Len(r) /\ Len(x) \in Nat /\ Len(r) \in Nat
      <3>1. Len(x \o r) = Len(x) + Len(r)
        BY <2>7, <2>8, ConcatProperties, Zenon
      <3>2. Len(x) \in Nat /\ Len(r) \in Nat
        BY <2>7, <2>8
      <3> QED
        BY <3>1, <3>2, <2>8
    <2>10. Len(r) = 0
      <3>1. Len(d) = Len(x)
        BY <2>7, <1>5, Zenon
      <3> QED
        BY <3>1, <2>9
    <2>11. r = <<>>
      BY <2>10, EmptySeq
    <2>12. d = x
      BY <2>8, <2>11, <2>7, ConcatEmptySeq
    <2> QED
      BY <2>1, <2>3, <2>5, <2>6, <2>12, <1>3, <1>b, <1>h DEF Readable
  <1>6. CASE d # <<>> /\ Len(d) # bs[1].len
    <2>1. m.heap = Append(h, Shared(d)) /\ m.blob = Blob(Len(h) + 1, 0, Len(d))
      BY <1>2, <1>6
    <2>2. PICK e : e = Shared(d)
      OBVIOUS
    <2>3. m.heap = Append(h, e) /\ Holds(e, d) /\ e.raw = FALSE
      BY <2>1, <2>2, <1>1, SharedCell
    <2>4. /\ m.heap \in Seq(Cell) /\ Extends(h, m.heap) /\ m.blob \in BlobType
          /\ Content(m.heap, m.blob) = d /\ Lies(m.heap, m.blob)
      <3>1. PICK g, b : g = m.heap /\ b = m.blob
        OBVIOUS
      <3>2. g = Append(h, e) /\ b = Blob(Len(h) + 1, 0, Len(d)) /\ d \in Seq(Int) /\ Holds(e, d)
              /\ e.raw = FALSE
        BY <2>1, <2>3, <3>1, <1>1, Zenon
      <3>3. g \in Seq(Cell) /\ Extends(h, g) /\ b \in BlobType /\ Content(g, b) = d
              /\ (e.raw = FALSE => Lies(g, b))
        <4>1. Copied(h, d, e, Append(h, e), Blob(Len(h) + 1, 0, Len(d)))
          BY <3>2, <1>h, CopyReadable
        <4>2. Copied(h, d, e, g, b)
          BY <4>1, <3>2, Zenon
        <4> QED
          BY <4>2 DEF Copied
      <3> QED
        BY <3>1, <3>2, <3>3, Zenon
    <2> QED
      BY <2>4, <1>b, <1>h DEF Readable
  <1> QED
    BY <1>4, <1>5, <1>6

(* merge(x, y): the content of both.                                       *)
LEMMA MergeTwoIs ==
    ASSUME NEW h \in Seq(Cell), NEW x, NEW y, Readable(h, x), Readable(h, y), NEW m, m = MergeTwo(h, x, y)
    PROVE  /\ m.heap \in Seq(Cell) /\ Extends(h, m.heap) /\ Readable(m.heap, m.blob)
           /\ Content(m.heap, m.blob) = Content(h, x) \o Content(h, y)
  <1>a. PICK a : a = Content(h, x)
    OBVIOUS
  <1>b. PICK b : b = Content(h, y)
    OBVIOUS
  <1>1. /\ a \in Seq(Int) /\ Len(a) = x.len /\ (x.len = 0 => a = <<>>)
        /\ b \in Seq(Int) /\ Len(b) = y.len /\ (y.len = 0 => b = <<>>)
    BY <1>a, <1>b, ReadableTyped
  <1>2. Extends(h, h)
    BY DEF Extends
  <1>3. CASE x.len = 0
    <2>1. m.heap = h /\ m.blob = y
      BY <1>3 DEF MergeTwo
    <2>2. a \o b = b
      BY <1>1, <1>3, ConcatEmptySeq
    <2> QED
      BY <2>1, <2>2, <1>2, <1>a, <1>b
  <1>4. CASE x.len # 0 /\ y.len = 0
    <2>1. m.heap = h /\ m.blob = x
      BY <1>4 DEF MergeTwo
    <2>2. a \o b = a
      BY <1>1, <1>4, ConcatEmptySeq
    <2> QED
      BY <2>1, <2>2, <1>2, <1>a, <1>b
  <1>5. CASE x.len # 0 /\ y.len # 0
    <2>d. PICK d \in Seq(Int) : d = a \o b
      BY <1>1, ConcatProperties
    <2>e. PICK e : e = Shared(d) /\ Holds(e, d) /\ e.raw = FALSE
      BY SharedCell
    <2>1. m = [heap |-> Append(h, e), blob |-> Blob(Len(h) + 1, 0, Len(d))]
      BY <1>5, <1>a, <1>b, <2>d, <2>e, Zenon DEF MergeTwo
    <2>2. m.heap = Append(h, e) /\ m.blob = Blob(Len(h) + 1, 0, Len(d))
      BY <2>1
    <2>3. /\ m.heap \in Seq(Cell) /\ Extends(h, m.heap) /\ m.blob \in BlobType
          /\ Content(m.heap, m.blob) = d /\ Lies(m.heap, m.blob)
      <3>1. PICK g, c : g = m.heap /\ c = m.blob
        OBVIOUS
      <3>2. g = Append(h, e) /\ c = Blob(Len(h) + 1, 0, Len(d)) /\ Holds(e, d) /\ e.raw = FALSE
        BY <2>2, <2>e, <3>1, Zenon
      <3>3. g \in Seq(Cell) /\ Extends(h, g) /\ c \in BlobType /\ Content(g, c) = d
              /\ (e.raw = FALSE => Lies(g, c))
        <4>1. Copied(h, d, e, Append(h, e), Blob(Len(h) + 1, 0, Len(d)))
          BY <3>2, <2>d, CopyReadable
        <4>2. Copied(h, d, e, g, c)
          BY <4>1, <3>2, Zenon
        <4> QED
          BY <4>2 DEF Copied
      <3> QED
        BY <3>1, <3>2, <3>3, Zenon
    <2> QED
      BY <2>3, <2>d, <1>a, <1>b DEF Readable
  <1> QED
    BY <1>3, <1>4, <1>5

(* GetBuffer, for a stream as a record.                                    *)
Merged(s) == LET m == MergeBlobs(s.heap, s.blobs) IN MergeTwo(m.heap, m.blob, Current(s))

(* GetBuffer has the output of the stream as one blob.                     *)
LEMMA MergedIs ==
    ASSUME NEW s, Fine(s), NEW g, g = Merged(s)
    PROVE  /\ g.heap \in Seq(Cell) /\ Extends(s.heap, g.heap) /\ Readable(g.heap, g.blob)
           /\ Content(g.heap, g.blob) = Out(s)
  <1>1. /\ s \in StreamType /\ s.blobs \in Seq(BlobType) /\ AllSettled(s, s.blobs) /\ Current(s) \in BlobType
        /\ s.heap \in Seq(Cell)
    BY CurrentSettled, StreamFacts
  <1>m. PICK m : m = MergeBlobs(s.heap, s.blobs)
    OBVIOUS
  <1>2. /\ m.heap \in Seq(Cell) /\ Extends(s.heap, m.heap) /\ Readable(m.heap, m.blob)
        /\ Content(m.heap, m.blob) = FlattenSeq(Contents(s.heap, s.blobs))
    BY <1>1, <1>m, MergeBlobsIs
  <1>3. Readable(s.heap, Current(s))
    <2>1. CASE s.buffer = 0
      BY <1>1, <2>1, CurrentSettled DEF Readable, NoBlob, Current
    <2>2. CASE s.buffer # 0
      BY <1>1, <2>2, CurrentSettled DEF Readable, Settled
    <2> QED
      BY <2>1, <2>2
  <1>4. Readable(m.heap, Current(s)) /\ Content(m.heap, Current(s)) = Content(s.heap, Current(s))
    BY <1>1, <1>2, <1>3, ExtendsReadable
  <1>5. g = MergeTwo(m.heap, m.blob, Current(s))
    BY <1>m, Zenon DEF Merged
  <1>6. /\ g.heap \in Seq(Cell) /\ Extends(m.heap, g.heap) /\ Readable(g.heap, g.blob)
        /\ Content(g.heap, g.blob) = Content(m.heap, m.blob) \o Content(m.heap, Current(s))
    BY <1>2, <1>4, <1>5, MergeTwoIs
  <1>7. Extends(s.heap, g.heap)
    BY <1>1, <1>2, <1>6, ExtendsTransitive
  <1>8. Out(s) = FlattenSeq(Contents(s.heap, s.blobs)) \o Content(s.heap, Current(s))
    BY OutIs
  <1> QED
    BY <1>2, <1>4, <1>6, <1>7, <1>8

-----------------------------------------------------------------------------
(* The first k items as they are on the wire.                              *)
WireLog(its, k) == FlattenSeq([i \in 1 .. k |-> Wire(its[i])])

(* What may be written, and its encoding.                                  *)
LEMMA ItemTyped ==
    ASSUME NEW x \in Items
    PROVE  /\ x[1] \in Varints => InWidth(x[1], x[2])
           /\ x[1] \notin Varints => x[1] \in {"bytes", "blob"} /\ x[2] \in Seq(Int) /\ Wire(x) = x[2]
           /\ x[1] \in Varints => Wire(x) = Varint(x[1], x[2])
           /\ Wire(x) \in Seq(Int)
  <1>1. CASE x[1] \in Varints
    <2>1. InWidth(x[1], x[2])
      BY <1>1, ItemsAssumption DEF InWidth
    <2>2. Varint(x[1], x[2]) \in Seq(Int)
      BY <2>1, <1>1, VarintIs
    <2> QED
      BY <1>1, <2>1, <2>2 DEF Wire
  <1>2. CASE x[1] \notin Varints
    <2>1. x[1] \in {"bytes", "blob"} /\ x[2] \in Seq(0 .. 2 * More - 1)
      BY <1>2, ItemsAssumption
    <2>2. 0 .. 2 * More - 1 \subseteq Int
      OBVIOUS
    <2>3. x[2] \in Seq(Int)
      BY <2>1, <2>2, SeqMonotonic
    <2> QED
      BY <1>2, <2>1, <2>3 DEF Wire
  <1> QED
    BY <1>1, <1>2

(* A byte string.                                                          *)
LEMMA WireLogTyped ==
    ASSUME NEW its \in Seq(Items), NEW k \in Nat, k <= Len(its)
    PROVE  /\ WireLog(its, k) \in Seq(Int) /\ [i \in 1 .. k |-> Wire(its[i])] \in Seq(Seq(Int))
           /\ Len([i \in 1 .. k |-> Wire(its[i])]) = k
  <1>w. PICK w : w = [i \in 1 .. k |-> Wire(its[i])]
    OBVIOUS
  <1>1. ASSUME NEW i \in 1 .. k PROVE Wire(its[i]) \in Seq(Int)
    <2>1. its[i] \in Items
      <3>1. i \in 1 .. Len(its)
        OBVIOUS
      <3> QED
        BY <3>1, ElementOfSeq
    <2> QED
      BY <2>1, ItemTyped
  <1>2. w \in [1 .. k -> Seq(Int)]
    BY <1>1, <1>w
  <1>3. w \in Seq(Seq(Int)) /\ Len(w) = k
    BY <1>2, FunctionIsSeq
  <1>4. FlattenSeq(w) \in Seq(Int)
    BY <1>3, FlattenType
  <1> QED
    BY <1>3, <1>4, <1>w DEF WireLog

(* No items, no bytes.                                                     *)
LEMMA WireLogEmpty == \A its : WireLog(its, 0) = <<>>
  <1> TAKE its
  <1>1. 1 .. 0 = {}
    OBVIOUS
  <1>2. [i \in 1 .. 0 |-> Wire(its[i])] = <<>>
    BY <1>1
  <1> QED
    BY <1>2, FlattenEmpty DEF WireLog

(* The next item is behind the others ...                                  *)
LEMMA WireLogNext ==
    ASSUME NEW its \in Seq(Items), NEW k \in Nat, k + 1 <= Len(its)
    PROVE  WireLog(its, k + 1) = WireLog(its, k) \o Wire(its[k + 1])
  <1>m. PICK m \in Nat : m = k + 1
    OBVIOUS
  <1>a. PICK a : a = [i \in 1 .. k |-> Wire(its[i])]
    OBVIOUS
  <1>b. PICK b : b = [i \in 1 .. m |-> Wire(its[i])]
    OBVIOUS
  <1>1. a \in Seq(Seq(Int)) /\ Len(a) = k /\ b \in Seq(Seq(Int)) /\ Len(b) = m
    <2>1. k <= Len(its) /\ m <= Len(its)
      BY <1>m
    <2> QED
      BY <2>1, <1>a, <1>b, WireLogTyped
  <1>2. m \in 1 .. Len(its) /\ its[m] \in Items
    BY <1>m, ElementOfSeq
  <1>3. PICK e \in Seq(Int) : e = Wire(its[m])
    BY <1>2, ItemTyped
  <1>4. PICK x : x = Append(a, e)
    OBVIOUS
  <1>5. x \in Seq(Seq(Int)) /\ Len(x) = m /\ (\A i \in 1 .. k : x[i] = a[i]) /\ x[m] = e
    BY <1>1, <1>4, <1>m, AppendProperties
  <1>6. ASSUME NEW i \in 1 .. m PROVE b[i] = x[i]
    <2>1. i \in 1 .. k \/ i = m
      BY <1>m
    <2>2. b[i] = Wire(its[i])
      BY <1>b
    <2>3. i \in 1 .. k => a[i] = Wire(its[i])
      BY <1>a
    <2> QED
      BY <2>1, <2>2, <2>3, <1>3, <1>5
  <1>7. b = x
    BY <1>1, <1>5, <1>6, SeqEqual
  <1>8. FlattenSeq(x) = FlattenSeq(a) \o e
    BY <1>1, <1>4, FlattenAppend
  <1> QED
    BY <1>7, <1>8, <1>a, <1>b, <1>3, <1>m DEF WireLog

(* ... also when it is appended to the list of items.                      *)
LEMMA WireLogAppend ==
    ASSUME NEW its \in Seq(Items), NEW x \in Items
    PROVE  WireLog(Append(its, x), Len(Append(its, x))) = WireLog(its, Len(its)) \o Wire(x)
  <1>n. PICK n \in Nat : n = Len(its)
    OBVIOUS
  <1>a. PICK a : a = Append(its, x)
    OBVIOUS
  <1>1. a \in Seq(Items) /\ Len(a) = n + 1 /\ (\A i \in 1 .. n : a[i] = its[i]) /\ a[n + 1] = x
    BY <1>a, <1>n, AppendProperties
  <1>2. WireLog(a, n + 1) = WireLog(a, n) \o Wire(x)
    <2>1. n + 1 <= Len(a)
      BY <1>1
    <2> QED
      BY <2>1, <1>1, WireLogNext
  <1>3. WireLog(a, n) = WireLog(its, n)
    <2>1. [i \in 1 .. n |-> Wire(a[i])] = [i \in 1 .. n |-> Wire(its[i])]
      BY <1>1
    <2> QED
      BY <2>1 DEF WireLog
  <1> QED
    BY <1>1, <1>2, <1>3, <1>a, <1>n

(* The first k items come first.                                           *)
LEMMA WireLogSplit ==
    ASSUME NEW its \in Seq(Items), NEW k \in Nat, NEW n \in Nat, k <= n, n <= Len(its)
    PROVE  StartsWith(Int, WireLog(its, k), WireLog(its, n))
  <1>p. PICK p \in Seq(Int) : p = WireLog(its, k)
    <2>1. k <= Len(its)
      OBVIOUS
    <2> QED
      BY <2>1, WireLogTyped
  <1> DEFINE S == {j \in Nat : k + j <= Len(its) => StartsWith(Int, p, WireLog(its, k + j))}
  <1>1. 0 \in S
    <2>1. p \o <<>> = p /\ <<>> \in Seq(Int)
      BY ConcatEmptySeq
    <2>2. StartsWith(Int, p, p)
      BY <2>1, Zenon DEF StartsWith
    <2>3. k + 0 = k
      OBVIOUS
    <2> QED
      BY <2>2, <2>3, <1>p
  <1>2. ASSUME NEW j \in Nat, j \in S PROVE j + 1 \in S
    <2>1. ASSUME k + (j + 1) <= Len(its) PROVE StartsWith(Int, p, WireLog(its, k + (j + 1)))
      <3>1. PICK m \in Nat : m = k + j /\ m + 1 <= Len(its) /\ m + 1 = k + (j + 1) /\ m <= Len(its)
        BY <2>1
      <3>2. StartsWith(Int, p, WireLog(its, m))
        BY <3>1, <1>2
      <3>3. PICK e \in Seq(Int) : e = Wire(its[m + 1])
        <4>1. m + 1 \in 1 .. Len(its)
          BY <3>1
        <4>2. its[m + 1] \in Items
          BY <4>1, ElementOfSeq
        <4> QED
          BY <4>2, ItemTyped
      <3>4. WireLog(its, m + 1) = WireLog(its, m) \o e
        BY <3>1, <3>3, WireLogNext
      <3>5. StartsWith(Int, p, WireLog(its, m) \o e)
        BY <3>2, StartsWithMore
      <3> QED
        BY <3>1, <3>4, <3>5
    <2>2. j + 1 \in Nat
      OBVIOUS
    <2> QED
      BY <2>1, <2>2, Zenon
  <1>3. Nat \subseteq S
    <2> HIDE DEF S
    <2> QED
      BY <1>1, <1>2, NatInd
  <1>4. PICK j \in Nat : k + j = n
    <2>1. n - k \in Nat /\ k + (n - k) = n
      OBVIOUS
    <2> QED
      BY <2>1
  <1>5. j \in S
    BY <1>3
  <1> QED
    BY <1>4, <1>5, <1>p

-----------------------------------------------------------------------------
(* The first n bytes of s hold the groups of v.                            *)
GroupsOf(s, n, v) == \A i \in 1 .. n : s[i] % More = Rest(v, i - 1) % More

(* The value of n bytes of groups, with what is left above them, is v:     *)
(* shifting in what was shifted out.                                       *)
LEMMA ValueIs ==
    ASSUME NEW v \in Nat, NEW n \in Nat, NEW s, GroupsOf(s, n, v)
    PROVE  Value(s, n, Rest(v, n)) = v
  <1>t. PICK top : top = Rest(v, n)
    OBVIOUS
  <1> DEFINE Is(h) == h = [i \in 0 .. n |-> IF i = n THEN top ELSE (s[i + 1] % More) + More * h[i + 1]]
             g == CHOOSE h : Is(h)
  <1>f. PICK f : f = [i \in 0 .. n |-> Rest(v, i)]
    OBVIOUS
  <1>0. ASSUME NEW i \in 0 .. n, i # n PROVE (s[i + 1] % More) + More * Rest(v, i + 1) = Rest(v, i)
    <2>1. i \in Nat /\ i + 1 \in 1 .. n /\ (i + 1) - 1 = i
      BY <1>0
    <2>2. PICK r \in Nat : r = Rest(v, i)
      BY <2>1, RestNat
    <2>3. Rest(v, i + 1) = r \div More
      BY <2>1, <2>2, RestNext
    <2>4. s[i + 1] % More = r % More
      BY <2>1, <2>2 DEF GroupsOf
    <2>5. r = More * (r \div More) + (r % More) /\ r \div More \in Nat /\ r % More \in Nat /\ More \in Nat
      BY Divided, StreamsAssumption
    <2>6. PICK a \in Nat : a = r % More
      BY <2>5
    <2>7. PICK c \in Int : c = More * (r \div More)
      BY <2>5
    <2>8. a + c = r
      BY <2>5, <2>6, <2>7
    <2> QED
      BY <2>2, <2>3, <2>4, <2>6, <2>7, <2>8
  <1>1. Is(f)
    <2>1. \A i \in 0 .. n : f[i] = Rest(v, i)
      BY <1>f
    <2>2. \A i \in 0 .. n : i # n => f[i + 1] = Rest(v, i + 1)
      <3>1. \A i \in 0 .. n : i # n => i + 1 \in 0 .. n
        OBVIOUS
      <3> QED
        BY <3>1, <2>1
    <2>3. \A i \in 0 .. n : f[i] = IF i = n THEN top ELSE (s[i + 1] % More) + More * f[i + 1]
      BY <2>1, <2>2, <1>0, <1>t
    <2>4. f = [i \in 0 .. n |-> f[i]]
      BY <1>f
    <2> QED
      BY <2>3, <2>4
  <1>2. Is(g)
    BY <1>1, Zenon
  <1>3. Value(s, n, top) = g[0]
    BY Zenon DEF Value
  <1>4. PICK e : e = g
    OBVIOUS
  <1>5. e = [i \in 0 .. n |-> IF i = n THEN top ELSE (s[i + 1] % More) + More * e[i + 1]]
    BY <1>2, <1>4, Zenon
  <1> HIDE DEF g, Is
  <1>6. \A i \in 0 .. n : e[i] = IF i = n THEN top ELSE (s[i + 1] % More) + More * e[i + 1]
    <2>1. PICK b : b = [i \in 0 .. n |-> IF i = n THEN top ELSE (s[i + 1] % More) + More * e[i + 1]]
      OBVIOUS
    <2>2. \A i \in 0 .. n : b[i] = IF i = n THEN top ELSE (s[i + 1] % More) + More * e[i + 1]
      BY <2>1
    <2>3. e = b
      BY <1>5, <2>1, Zenon
    <2> QED
      BY <2>2, <2>3, Zenon
  <1> DEFINE S == {j \in Nat : j <= n => e[n - j] = Rest(v, n - j)}
  <1>7. 0 \in S
    <2>1. n \in 0 .. n /\ n - 0 = n
      OBVIOUS
    <2>2. e[n] = top
      BY <2>1, <1>6
    <2> QED
      BY <2>1, <2>2, <1>t
  <1>8. ASSUME NEW j \in Nat, j \in S PROVE j + 1 \in S
    <2>1. ASSUME j + 1 <= n PROVE e[n - (j + 1)] = Rest(v, n - (j + 1))
      <3>1. PICK i : i = n - (j + 1) /\ i \in 0 .. n /\ i # n /\ i + 1 = n - j /\ j <= n
        BY <2>1
      <3>2. e[i + 1] = Rest(v, i + 1)
        BY <3>1, <1>8
      <3>3. e[i] = (s[i + 1] % More) + More * e[i + 1]
        BY <3>1, <1>6
      <3>4. e[i] = Rest(v, i)
        BY <3>1, <3>2, <3>3, <1>0
      <3> QED
        BY <3>1, <3>4
    <2>2. j + 1 \in Nat
      OBVIOUS
    <2> QED
      BY <2>1, <2>2, Zenon
  <1>9. Nat \subseteq S
    <2> HIDE DEF S
    <2> QED
      BY <1>7, <1>8, NatInd
  <1>10. n \in S /\ n <= n /\ n - n = 0
    BY <1>9
  <1>11. e[0] = Rest(v, 0)
    BY <1>10
  <1> QED
    BY <1>11, <1>3, <1>4, <1>t, RestZero

(* A byte with the continuation bit.                                       *)
LEMMA ByteIs ==
    ASSUME NEW v \in Nat, NEW i \in Nat, i >= 1
    PROVE  Byte(v, i) % More = Rest(v, i - 1) % More /\ Byte(v, i) >= More
  <1>1. PICK r \in Nat : r = Rest(v, i - 1)
    <2>1. i - 1 \in Nat
      OBVIOUS
    <2> QED
      BY <2>1, RestNat
  <1>2. PICK a \in Nat : a = r % More /\ a < More
    BY Divided
  <1>3. More \in Nat /\ More >= 2
    BY StreamsAssumption
  <1>4. (a + More) % More = a /\ a + More >= More
    BY <1>2, <1>3
  <1> QED
    BY <1>1, <1>2, <1>4 DEF Byte

(* What a reader finds at the beginning of s.                              *)
Begins(s, v, n) ==
    /\ \A i \in 1 .. n - 1 : s[i] = Byte(v, i)
    /\ s[n] = Rest(v, n - 1) /\ Rest(v, n - 1) < More

(* s is v in n bytes, the encoding of v in type t, and then r.             *)
StartsAs(s, t, v, r, n) ==
    /\ s \in Seq(Int) /\ Len(s) = n + Len(r) /\ n \in Nat /\ n >= 1 /\ n <= Groups[t] + 1
    /\ Begins(s, v, n) /\ IsLength(v, n)

(* The encoding followed by anything is read as the encoding.              *)
LEMMA VarintBegins ==
    ASSUME NEW t \in Varints, NEW v, InWidth(t, v), NEW r \in Seq(Int)
    PROVE  StartsAs(Varint(t, v) \o r, t, v, r, VarintLength(t, v))
  <1>n. PICK n : n = VarintLength(t, v)
    OBVIOUS
  <1>s. PICK s : s = Varint(t, v) \o r
    OBVIOUS
  <1>x. PICK x : x = Varint(t, v)
    OBVIOUS
  <1>1. /\ n \in Nat /\ n >= 1 /\ n <= Groups[t] + 1 /\ IsLength(v, n)
        /\ x \in Seq(Int) /\ Len(x) = n
        /\ \A i \in 1 .. n - 1 : x[i] = Byte(v, i)
        /\ x[n] = Rest(v, n - 1) /\ Rest(v, n - 1) \in Nat
    BY <1>x, <1>n, VarintIs
  <1>2. Len(x \o r) = Len(x) + Len(r) /\ x \o r \in Seq(Int) /\ \A i \in 1 .. Len(x) : (x \o r)[i] = x[i]
    <2>1. x \o r \in Seq(Int) /\ Len(x \o r) = Len(x) + Len(r)
      BY <1>1, ConcatProperties, Zenon
    <2>2. \A i \in 1 .. Len(x) + Len(r) : (x \o r)[i] = IF i <= Len(x) THEN x[i] ELSE r[i - Len(x)]
      BY <1>1, ConcatProperties, Zenon
    <2>3. Len(x) \in Nat /\ Len(r) \in Nat
      BY <1>1
    <2>4. \A i \in 1 .. Len(x) : i \in 1 .. Len(x) + Len(r) /\ i <= Len(x)
      BY <2>3
    <2> QED
      BY <2>1, <2>2, <2>4
  <1>3. s \in Seq(Int) /\ Len(s) = n + Len(r) /\ \A i \in 1 .. n : s[i] = x[i]
    BY <1>1, <1>2, <1>x, <1>s, Zenon
  <1>4. Rest(v, n - 1) < More
    <2>1. PICK m \in Nat : m = n - 1 /\ n = m + 1
      BY <1>1
    <2>2. v \in Nat /\ Rest(v, n) = 0
      BY <1>1 DEF InWidth, IsLength
    <2>3. Rest(v, m) \in Nat /\ Rest(v, m) \div More = 0
      <3>1. Rest(v, m) \in Nat /\ Rest(v, m + 1) = Rest(v, m) \div More
        BY <2>2, RestNext, Zenon
      <3> QED
        BY <3>1, <2>1, <2>2, Zenon
    <2> QED
      BY <2>1, <2>3, Divided
  <1>5. n \in 1 .. n /\ \A i \in 1 .. n - 1 : i \in 1 .. n
    BY <1>1
  <1>6. Begins(s, v, n)
    BY <1>1, <1>3, <1>4, <1>5 DEF Begins
  <1>7. StartsAs(s, t, v, r, n)
    BY <1>1, <1>3, <1>6 DEF StartsAs
  <1> QED
    BY <1>7, <1>n, <1>s, Zenon

(* The last byte taken whole (input_buffer.h:51, :62).                     *)
LEMMA BeginsValue ==
    ASSUME NEW v \in Nat, NEW n \in Nat, n >= 1, NEW s, Begins(s, v, n)
    PROVE  Value(s, n - 1, s[n]) = v
  <1>1. PICK m \in Nat : m = n - 1
    OBVIOUS
  <1>2. GroupsOf(s, m, v)
    <2> SUFFICES ASSUME NEW i \in 1 .. m PROVE s[i] % More = Rest(v, i - 1) % More
      BY DEF GroupsOf
    <2>1. s[i] = Byte(v, i) /\ i \in Nat /\ i >= 1
      BY <1>1 DEF Begins
    <2> QED
      BY <2>1, ByteIs
  <1>3. Value(s, m, Rest(v, m)) = v
    BY <1>2, ValueIs
  <1> QED
    BY <1>1, <1>3 DEF Begins

(* GenericReadVariableUnsigned takes n bytes and returns v                 *)
(* (encoding.h:104).                                                       *)
LEMMA GenericReadIs ==
    ASSUME NEW v \in Nat, NEW n \in Nat, n >= 1, NEW s \in Seq(Int), n <= Len(s), Begins(s, v, n),
             Rest(v, n) = 0
    PROVE  GenericRead(s).v = v /\ GenericRead(s).n = n
  <1>e. PICK E : E = {i \in DOMAIN s : s[i] < More}
    OBVIOUS
  <1>m. More \in Nat /\ Len(s) \in Nat /\ DOMAIN s = 1 .. Len(s) /\ 1 .. n \subseteq 1 .. Len(s)
    BY StreamsAssumption
  <1>1. n \in E /\ E \in SUBSET Nat
    BY <1>e, <1>m DEF Begins
  <1>2. ASSUME NEW i \in E PROVE n <= i
    <2>1. i \in 1 .. Len(s) /\ s[i] < More /\ s[i] \in Int
      BY <1>2, <1>e, <1>m
    <2>2. ASSUME i < n PROVE FALSE
      <3>1. s[i] = Byte(v, i) /\ i \in Nat /\ i >= 1
        BY <2>1, <2>2 DEF Begins
      <3>2. s[i] >= More
        BY <3>1, ByteIs
      <3> QED
        BY <3>2, <2>1, <1>m
    <2> QED
      BY <2>1, <2>2
  <1>3. Min(E) = n
    <2>1. Min(E) \in E /\ Min(E) \in Nat /\ \A y \in E : Min(E) <= y
      BY <1>1, MinIs
    <2>2. n <= Min(E) /\ Min(E) <= n
      BY <2>1, <1>1, <1>2
    <2> QED
      BY <2>1, <2>2
  <1>4. GenericRead(s) = [v |-> Value(s, n, 0), n |-> n]
    BY <1>1, <1>3, <1>e DEF GenericRead
  <1>5. GroupsOf(s, n, v)
    <2> SUFFICES ASSUME NEW i \in 1 .. n PROVE s[i] % More = Rest(v, i - 1) % More
      BY DEF GroupsOf
    <2>1. CASE i = n
      BY <2>1 DEF Begins
    <2>2. CASE i # n
      <3>1. s[i] = Byte(v, i) /\ i \in Nat /\ i >= 1
        BY <2>2 DEF Begins
      <3> QED
        BY <3>1, ByteIs
    <2> QED
      BY <2>1, <2>2
  <1>6. Value(s, n, Rest(v, n)) = v
    BY <1>5, ValueIs
  <1> QED
    BY <1>4, <1>6

(* The last byte that the unchecked reading looks at; bytes that all have  *)
(* the continuation bit.                                                   *)
IsLast(t, n) == n = IF t = "u64" THEN 9 ELSE Groups[t] + 1
GoOn(s, n) == \A i \in 1 .. n - 1 : ~(s[i] < More)

(* What the unchecked reading returns when it stops at byte n: the first   *)
(* one without the continuation bit, or the last one it looks at.          *)
LEMMA UncheckedStops ==
    ASSUME NEW t, NEW s, NEW last \in Nat, IsLast(t, last), NEW n \in 1 .. last,
           s[n] < More \/ n = last, GoOn(s, n)
    PROVE  UncheckedRead(t, s) = [v |-> Value(s, n - 1, s[n]), n |-> n - 1 + IF n = last THEN LastBytes(t, s[n]) ELSE 1]
  <1>e. PICK E : E = {i \in 1 .. last : s[i] < More \/ i = last}
    OBVIOUS
  <1>1. n \in E /\ E \in SUBSET Nat
    BY <1>e
  <1>2. ASSUME NEW i \in E PROVE n <= i
    <2>1. i \in 1 .. last /\ (s[i] < More \/ i = last)
      BY <1>e
    <2>2. i < n => i \in 1 .. n - 1 /\ i # last
      BY <2>1
    <2> QED
      BY <2>1, <2>2 DEF GoOn
  <1>3. Min(E) = n
    <2>1. Min(E) \in E /\ Min(E) \in Nat /\ \A y \in E : Min(E) <= y
      BY <1>1, MinIs
    <2>2. n <= Min(E) /\ Min(E) <= n
      BY <2>1, <1>1, <1>2
    <2> QED
      BY <2>1, <2>2
  <1> QED
    BY <1>3, <1>e, Zenon DEF UncheckedRead, IsLast

(* Of the tenth group of a uint64_t there is one bit.                      *)
OneBit(t, v) == t = "u64" => Rest(v, 9) <= 1

(* VariableUnsignedUnchecked::Read takes n bytes and returns v. For the    *)
(* ten bytes of a uint64_t it stops at the ninth, whose continuation bit   *)
(* is the tenth group (input_buffer.h:76).                                 *)
LEMMA UncheckedReadIs ==
    ASSUME NEW t \in Varints, NEW v \in Nat, OneBit(t, v),
           NEW s, NEW more, NEW n, StartsAs(s, t, v, more, n)
    PROVE  UncheckedRead(t, s).v = v /\ UncheckedRead(t, s).n = n
  <1>n. n \in Nat /\ n >= 1 /\ n <= Groups[t] + 1 /\ s \in Seq(Int) /\ Begins(s, v, n) /\ IsLength(v, n)
    BY DEF StartsAs
  <1>g. PICK g \in Nat : g = Groups[t]
    BY GroupsTyped
  <1>l. PICK last \in Nat : last = (IF t = "u64" THEN 9 ELSE Groups[t] + 1) /\ last >= 1 /\ IsLast(t, last)
    BY <1>g DEF IsLast
  <1>m. More \in Nat /\ More >= 2
    BY StreamsAssumption
  <1>1. \A i \in 1 .. n - 1 : s[i] = Byte(v, i) /\ s[i] \in Int /\ s[i] >= More /\ ~(s[i] < More)
    <2> TAKE i \in 1 .. n - 1
    <2>1. s[i] = Byte(v, i) /\ i \in Nat /\ i >= 1
      BY <1>n DEF Begins
    <2>2. Byte(v, i) >= More /\ Byte(v, i) \in Int
      BY <2>1, ByteIs, ByteTyped
    <2> QED
      BY <2>1, <2>2, <1>m
  <1>2. CASE n <= last
    <2>1. n \in 1 .. last /\ s[n] < More /\ GoOn(s, n)
      BY <1>n, <1>1, <1>2 DEF Begins, GoOn
    <2>2. UncheckedRead(t, s) = [v |-> Value(s, n - 1, s[n]), n |-> n - 1 + IF n = last THEN LastBytes(t, s[n]) ELSE 1]
      BY <1>l, <2>1, UncheckedStops
    <2>3. LastBytes(t, s[n]) = 1
      <3>1. s[n] \in Nat
        <4>1. n - 1 \in Nat
          BY <1>n
        <4> QED
          BY <4>1, <1>n, RestNat DEF Begins
      <3> QED
        BY <2>1, <3>1, <1>m DEF LastBytes
    <2>4. Value(s, n - 1, s[n]) = v
      BY <1>n, BeginsValue
    <2>5. n - 1 + (IF n = last THEN LastBytes(t, s[n]) ELSE 1) = n
      BY <2>3, <1>n
    <2> QED
      BY <2>2, <2>4, <2>5
  <1>3. CASE ~(n <= last)
    <2>1. t = "u64" /\ n = 10 /\ last = 9
      <3>1. t = "u64" => g = 9
        BY <1>g DEF Groups
      <3> QED
        BY <3>1, <1>3, <1>g, <1>l, <1>n
    <2>2. s[9] = Byte(v, 9) /\ s[9] >= More /\ s[9] \in Int
      <3>1. 9 \in 1 .. n - 1
        BY <2>1
      <3> QED
        BY <3>1, <1>1
    <2>3. 9 \in 1 .. last /\ 9 = last /\ \A i \in 1 .. 9 - 1 : ~(s[i] < More)
      BY <2>1, <1>1
    <2>4. UncheckedRead(t, s) = [v |-> Value(s, 9 - 1, s[9]), n |-> 9 - 1 + IF 9 = last THEN LastBytes(t, s[9]) ELSE 1]
      <3>1. PICK m : m = 9
        OBVIOUS
      <3>2. m \in 1 .. last /\ m = last /\ GoOn(s, m)
        BY <3>1, <2>3 DEF GoOn
      <3>3. UncheckedRead(t, s) = [v |-> Value(s, m - 1, s[m]), n |-> m - 1 + IF m = last THEN LastBytes(t, s[m]) ELSE 1]
        BY <1>l, <3>2, UncheckedStops
      <3> QED
        BY <3>1, <3>3, Zenon
    <2>5. LastBytes(t, s[9]) = 2
      BY <2>1, <2>2, <1>m DEF LastBytes
    <2>6. s[9] = Rest(v, 8)
      <3>1. PICK r \in Nat : r = Rest(v, 8)
        BY RestNat
      <3>2. Rest(v, 8 + 1) = r \div More
        BY <3>1, RestNext
      <3>3. Rest(v, 9) <= 1 /\ Rest(v, 9) # 0 /\ Rest(v, 9) \in Nat
        <4>1. 9 \in 1 .. n - 1
          BY <2>1
        <4>2. Rest(v, 9) # 0
          BY <4>1, <1>n DEF IsLength
        <4> QED
          BY <2>1, <4>2, RestNat DEF OneBit
      <3>4. r \div More = 1
        BY <3>2, <3>3
      <3>5. r = More * (r \div More) + (r % More) /\ r % More \in Nat
        BY Divided
      <3>6. r = More + (r % More)
        BY <3>4, <3>5, <1>m
      <3>7. Byte(v, 9) = (r % More) + More
        BY <3>1 DEF Byte
      <3> QED
        BY <3>1, <3>5, <3>6, <3>7, <2>2, <1>m
    <2>7. GroupsOf(s, 8, v)
      <3> SUFFICES ASSUME NEW i \in 1 .. 8 PROVE s[i] % More = Rest(v, i - 1) % More
        BY DEF GroupsOf
      <3>1. i \in 1 .. n - 1 /\ i \in Nat /\ i >= 1
        BY <2>1
      <3>2. s[i] = Byte(v, i)
        BY <3>1, <1>1
      <3> QED
        BY <3>1, <3>2, ByteIs
    <2>8. Value(s, 8, Rest(v, 8)) = v
      BY <2>7, ValueIs
    <2>9. 9 - 1 = 8 /\ 9 - 1 + (IF 9 = last THEN LastBytes(t, s[9]) ELSE 1) = n
      BY <2>1, <2>5
    <2> QED
      BY <2>4, <2>6, <2>8, <2>9
  <1> QED
    BY <1>2, <1>3

(* OutputCounter counts the bytes that are written.                        *)
LEMMA CountIs ==
    ASSUME NEW t \in Varints, NEW v, InWidth(t, v)
    PROVE  CountVariable(t, v) = Len(Varint(t, v))
  <1>g. PICK g \in Nat : g = Groups[t]
    BY GroupsTyped
  <1>n. PICK n : n = VarintLength(t, v)
    OBVIOUS
  <1>1. n \in Nat /\ n >= 1 /\ n <= g + 1 /\ IsLength(v, n) /\ Len(Varint(t, v)) = n
    BY <1>g, <1>n, VarintIs
  <1>2. {k \in 1 .. g : Rest(v, k) # 0} = 1 .. n - 1
    <2>1. ASSUME NEW k \in 1 .. n - 1 PROVE k \in 1 .. g /\ Rest(v, k) # 0
      BY <1>1 DEF IsLength
    <2>2. ASSUME NEW k \in 1 .. g, Rest(v, k) # 0 PROVE k \in 1 .. n - 1
      <3>1. n <= k => Rest(v, k) = 0
        BY <1>1, RestStaysZero DEF IsLength, InWidth
      <3> QED
        BY <3>1, <2>2, <1>1
    <2> QED
      BY <2>1, <2>2
  <1>3. Cardinality(1 .. n - 1) = n - 1
    <2>1. n - 1 \in Int /\ 1 \in Int
      BY <1>1
    <2>2. Cardinality(1 .. n - 1) = IF 1 > n - 1 THEN 0 ELSE n - 1 - 1 + 1
      BY <2>1, FS_Interval
    <2> QED
      BY <2>2, <1>1
  <1>4. CountVariable(t, v) = 1 + Cardinality(1 .. n - 1)
    BY <1>2, <1>g DEF CountVariable
  <1> QED
    BY <1>1, <1>3, <1>4

(* A reader finds what was written, whichever way it takes.                *)
Decoded(t, v, s) ==
    /\ GenericRead(s).v = v /\ GenericRead(s).n = Len(Varint(t, v))
    /\ UncheckedRead(t, s).v = v /\ UncheckedRead(t, s).n = Len(Varint(t, v))

(* Checked or not, reading returns what was encoded, and takes it all.     *)
LEMMA ReadsVarint ==
    ASSUME NEW t \in Varints, NEW v, InWidth(t, v), OneBit(t, v), NEW r \in Seq(Int)
    PROVE  Decoded(t, v, Varint(t, v) \o r)
  <1>s. PICK s : s = Varint(t, v) \o r
    OBVIOUS
  <1>n. PICK n : n = VarintLength(t, v)
    OBVIOUS
  <1>1. StartsAs(s, t, v, r, n)
    BY <1>n, <1>s, VarintBegins
  <1>2. Len(Varint(t, v)) = n
    BY <1>n, VarintIs
  <1>3. /\ v \in Nat /\ Rest(v, n) = 0 /\ n <= Len(s)
        /\ n \in Nat /\ n >= 1 /\ n <= Groups[t] + 1 /\ s \in Seq(Int) /\ Begins(s, v, n) /\ IsLength(v, n)
    <2>1. Len(r) \in Nat
      OBVIOUS
    <2> QED
      BY <2>1, <1>1 DEF InWidth, IsLength, StartsAs
  <1>4. GenericRead(s).v = v /\ GenericRead(s).n = n
    BY <1>3, GenericReadIs
  <1>5. UncheckedRead(t, s).v = v /\ UncheckedRead(t, s).n = n
    BY <1>1, <1>3, UncheckedReadIs
  <1>6. Decoded(t, v, s)
    BY <1>2, <1>4, <1>5 DEF Decoded
  <1> QED
    BY <1>6, <1>s

-----------------------------------------------------------------------------
(* The elements of a concatenation.                                        *)
LEMMA ConcatParts ==
    ASSUME NEW a \in Seq(Int), NEW b \in Seq(Int), NEW c, c = a \o b
    PROVE  /\ c \in Seq(Int) /\ Len(c) = Len(a) + Len(b) /\ Len(a) \in Nat /\ Len(b) \in Nat
           /\ \A i \in 1 .. Len(a) : c[i] = a[i]
           /\ \A i \in 1 .. Len(b) : c[Len(a) + i] = b[i]
  <1>1. Len(a) \in Nat /\ Len(b) \in Nat
    OBVIOUS
  <1>2. c \in Seq(Int) /\ Len(c) = Len(a) + Len(b)
    BY ConcatProperties, Zenon
  <1>3. \A i \in 1 .. Len(a) + Len(b) : (a \o b)[i] = IF i <= Len(a) THEN a[i] ELSE b[i - Len(a)]
    BY ConcatProperties, Zenon
  <1>m. PICK m \in Nat, n \in Nat : m = Len(a) /\ n = Len(b)
    BY <1>1
  <1>4. \A i \in 1 .. m + n : c[i] = IF i <= m THEN a[i] ELSE b[i - m]
    BY <1>3, <1>m, Zenon
  <1>5. ASSUME NEW i \in 1 .. m PROVE c[i] = a[i]
    <2>1. i \in 1 .. m + n /\ i <= m
      BY <1>m
    <2> QED
      BY <2>1, <1>4
  <1>6. ASSUME NEW i \in 1 .. n PROVE c[m + i] = b[i]
    <2>1. m + i \in 1 .. m + n /\ ~(m + i <= m) /\ (m + i) - m = i
      BY <1>m
    <2>2. c[m + i] = b[(m + i) - m]
      BY <2>1, <1>4
    <2> QED
      BY <2>1, <2>2
  <1> QED
    BY <1>1, <1>2, <1>5, <1>6, <1>m, Zenon

(* Those of a part of a sequence.                                          *)
LEMMA SubSeqIs ==
    ASSUME NEW c, NEW p \in Int, NEW q \in Int, \A i \in p .. q : c[i] \in Int
    PROVE  \A j \in 1 .. q - p + 1 : SubSeq(c, p, q)[j] = c[p + j - 1]
  BY SubSeqProperties

(* What is behind a in a \o b.                                             *)
LEMMA BehindConcat ==
    ASSUME NEW a \in Seq(Int), NEW b \in Seq(Int), NEW c, c = a \o b
    PROVE  SubSeq(c, Len(a) + 1, Len(c)) = b
  <1>1. /\ c \in Seq(Int) /\ Len(c) = Len(a) + Len(b) /\ Len(a) \in Nat /\ Len(b) \in Nat
        /\ \A i \in 1 .. Len(b) : c[Len(a) + i] = b[i]
    BY ConcatParts
  <1>m. PICK m \in Nat, n \in Nat : m = Len(a) /\ n = Len(b) /\ Len(c) = m + n
    BY <1>1
  <1>s. PICK s : s = SubSeq(c, m + 1, m + n)
    OBVIOUS
  <1>2. s \in Seq(Int) /\ Len(s) = n /\ \A i \in 1 .. n : s[i] = c[m + i]
    <2>1. \A i \in m + 1 .. m + n : i \in 1 .. Len(c) /\ c[i] \in Int
      BY <1>1, <1>m, ElementOfSeq
    <2>2. s \in Seq(Int) /\ Len(s) = IF m + 1 <= m + n THEN (m + n) - (m + 1) + 1 ELSE 0
      BY <1>1, <1>m, <1>s, <2>1
    <2>3. ASSUME NEW i \in 1 .. n PROVE s[i] = c[m + i]
      <3>1. m + 1 \in Int /\ m + n \in Int
        BY <1>m
      <3>2. \A j \in 1 .. (m + n) - (m + 1) + 1 : s[j] = c[m + 1 + j - 1]
        <4>1. PICK p \in Int, q \in Int : p = m + 1 /\ q = m + n
          BY <3>1
        <4>2. \A j \in 1 .. q - p + 1 : SubSeq(c, p, q)[j] = c[p + j - 1]
          <5>1. \A z \in p .. q : c[z] \in Int
            BY <2>1, <4>1, Zenon
          <5> QED
            BY <5>1, SubSeqIs, Zenon
        <4> QED
          BY <4>1, <4>2, <1>s, Zenon
      <3>3. i \in 1 .. (m + n) - (m + 1) + 1 /\ m + 1 + i - 1 = m + i
        BY <1>m
      <3> QED
        BY <3>2, <3>3
    <2>4. Len(s) = n
      BY <2>2, <1>m
    <2> QED
      BY <2>2, <2>3, <2>4
  <1>3. \A i \in 1 .. n : s[i] = b[i]
    BY <1>1, <1>2, <1>m
  <1>4. s = b
    <2>1. Len(s) = Len(b) /\ \A i \in 1 .. Len(s) : s[i] = b[i]
      BY <1>2, <1>3, <1>m
    <2> QED
      BY <2>1, <1>2, SeqEqual
  <1> QED
    BY <1>4, <1>s, <1>m

(* w lies in d behind a and before r.                                      *)
Between(a, w, r, d) ==
    /\ Len(a \o w) = Len(a) + Len(w) /\ Len(a) \in Nat /\ Len(w) \in Nat /\ Len(r) \in Nat
    /\ Len(d) = Len(a \o w) + Len(r)
    /\ \A i \in 1 .. Len(w) : d[Len(a) + i] = w[i]
    /\ SubSeq(d, Len(a) + 1, Len(d)) = w \o r

(* The second of three lies behind the first.                              *)
LEMMA ConcatBetween ==
    ASSUME NEW a \in Seq(Int), NEW w \in Seq(Int), NEW r \in Seq(Int)
    PROVE  Between(a, w, r, (a \o w) \o r)
  <1>0. (a \o w) \o r = a \o (w \o r)
    BY BytesAssociative, Zenon
  <1>b. PICK b \in Seq(Int) : b = a \o w
    BY ConcatProperties
  <1>c. PICK c \in Seq(Int) : c = w \o r
    BY ConcatProperties
  <1>d. PICK d : d = b \o r
    OBVIOUS
  <1>1. d = a \o c
    BY <1>0, <1>b, <1>c, <1>d, Zenon
  <1>2. Len(b) = Len(a) + Len(w) /\ Len(a) \in Nat /\ Len(w) \in Nat
    BY <1>b, ConcatParts
  <1>3. Len(d) = Len(b) + Len(r) /\ Len(r) \in Nat
    BY <1>b, <1>d, ConcatParts
  <1>4. \A j \in 1 .. Len(c) : d[Len(a) + j] = c[j]
    BY <1>c, <1>1, ConcatParts
  <1>5. Len(c) = Len(w) + Len(r) /\ \A j \in 1 .. Len(w) : c[j] = w[j]
    BY <1>c, ConcatParts
  <1>6. \A i \in 1 .. Len(w) : d[Len(a) + i] = w[i]
    <2> TAKE i \in 1 .. Len(w)
    <2>1. i \in 1 .. Len(c)
      BY <1>2, <1>3, <1>5
    <2> QED
      BY <2>1, <1>4, <1>5
  <1>7. SubSeq(d, Len(a) + 1, Len(d)) = c
    BY <1>c, <1>1, BehindConcat
  <1>8. Between(a, w, r, d)
    BY <1>2, <1>3, <1>6, <1>7, <1>b, <1>c DEF Between
  <1> QED
    BY <1>8, <1>b, <1>d
=============================================================================
