------------------------------ MODULE Encoding -----------------------------
(***************************************************************************)
(* What the binary protocols have in common: the types, the encoding of    *)
(* integers and strings (src/cpp/inc/bond/protocol/encoding.h) and the     *)
(* reads of InputBuffer (src/cpp/inc/bond/stream/input_buffer.h).          *)
(*                                                                         *)
(* A type is a tuple: <<basic>>, <<"blob">>, <<"list", E>>, <<"set", E>>,  *)
(* <<"nullable", E>>, <<"map", K, E>> or <<"struct", name>>.  A buffer is  *)
(* a sequence of bytes and a reader is a position in it.  A read returns   *)
(* [v, p, ok]: the value, the position behind it, and whether it returned  *)
(* rather than threw StreamException.  Integers stay below 2^28, floating  *)
(* point values are opaque bit patterns and bool is 0 or 1.                *)
(***************************************************************************)
EXTENDS Integers, Sequences, FiniteSets, SequencesExt, FiniteSetsExt

(* BondDataType                                                            *)
BT == [stop |-> 0, stop_base |-> 1, bool |-> 2, uint8 |-> 3, uint16 |-> 4, uint32 |-> 5,
       uint64 |-> 6, float |-> 7, double |-> 8, string |-> 9, struct |-> 10, list |-> 11,
       set |-> 12, map |-> 13, int8 |-> 14, int16 |-> 15, int32 |-> 16, int64 |-> 17,
       wstring |-> 18]

BTName(byte) == LET n == {t \in DOMAIN BT : BT[t] = byte}
                IN  IF n = {} THEN "unavailable" ELSE CHOOSE t \in n : TRUE

Unsigned == {"uint8", "uint16", "uint32", "uint64"}
Signed == {"int8", "int16", "int32", "int64"}
Strings == {"string", "wstring"}
Complex == {"list", "set", "map", "struct"}
Basics == {"bool", "float", "double"} \cup Unsigned \cup Signed \cup Strings

Width == [bool |-> 1, uint8 |-> 1, uint16 |-> 2, uint32 |-> 4, uint64 |-> 8, float |-> 4,
          double |-> 8, int8 |-> 1, int16 |-> 2, int32 |-> 4, int64 |-> 8]
CharWidth == [string |-> 1, wstring |-> 2]          \* string_char_int_type

TypeId(T) == CASE T[1] \in {"list", "nullable", "blob"} -> "list" [] OTHER -> T[1]
Element(T) == CASE T[1] = "map" -> T[3] [] T[1] = "blob" -> <<"int8">> [] OTHER -> T[2]
IsContainer(T) == TypeId(T) \in {"list", "set", "map"}

-----------------------------------------------------------------------------
(* Writing.                                                                *)

(* OutputBuffer::Write of an integer: fixed width, little endian.          *)
Fixed(v, n) == [i \in 1 .. n |-> IF i <= 4 THEN (v \div 256 ^ (i - 1)) % 256
                                 ELSE IF v < 0 THEN 255 ELSE 0]

RECURSIVE WriteVariableUnsigned(_)
WriteVariableUnsigned(v) ==
    IF v \div 128 # 0 THEN <<(v % 128) + 128>> \o WriteVariableUnsigned(v \div 128) ELSE <<v>>

EncodeZigZag(v) == IF v < 0 THEN -2 * v - 1 ELSE 2 * v
DecodeZigZag(u) == IF u % 2 = 1 THEN -((u + 1) \div 2) ELSE u \div 2

WriteStringData(t, s) == FlattenSeq([i \in 1 .. Len(s) |-> Fixed(s[i], CharWidth[t])])

-----------------------------------------------------------------------------
(* Reading.                                                                *)
Ok(v, p) == [v |-> v, p |-> p, ok |-> TRUE]
Eof(p) == [v |-> 0, p |-> p, ok |-> FALSE]
Then(r, F(_)) == IF r.ok THEN F(r) ELSE r

ReadBytesUnbounded(b, p, n) ==          \* Mutant: no check against the end of the buffer
    Ok([i \in 1 .. n |-> IF p + i - 1 \in DOMAIN b THEN b[p + i - 1] ELSE 0], p + n)

ReadBytes(b, p, n) == IF n > Len(b) - p + 1 THEN Eof(p) ELSE Ok(SubSeq(b, p, p + n - 1), p + n)

(* InputBuffer::Skip does nothing when there are not enough bytes.         *)
SkipBytes(b, p, n) == Ok(0, IF n > Len(b) - p + 1 THEN p ELSE p + n)

ReadFixed(b, p, n, signed) ==
    Then(ReadBytes(b, p, n), LAMBDA r :
        LET low == FoldRight(LAMBDA d, acc : d + 256 * acc, SubSeq(r.v, 1, IF n > 3 THEN 3 ELSE n), 0)
            bits == IF n > 3 THEN 256 ^ 3 ELSE 256 ^ n
        IN  Ok(IF signed /\ r.v[n] >= 128 THEN low - bits ELSE low, r.p))

ReadVariableUnsigned(b, p) ==
    LET last == {k \in p .. Len(b) : b[k] < 128}
    IN  IF last = {} THEN Eof(Len(b) + 1)
        ELSE Ok(FoldRight(LAMBDA d, acc : (d % 128) + 128 * acc, SubSeq(b, p, Min(last)), 0), Min(last) + 1)

ReadStringData(b, p, t, n) ==
    Then(ReadBytes(b, p, n * CharWidth[t]), LAMBDA r :
        Ok([i \in 1 .. n |-> IF t = "string" THEN r.v[i] ELSE r.v[2 * i - 1] + 256 * r.v[2 * i]], r.p))

(* n times a read that only moves the position.                            *)
Repeat(n, r, F(_)) == FoldLeft(LAMBDA acc, i : IF acc.ok THEN F(acc.p) ELSE acc, r, [i \in 1 .. n |-> i])

=============================================================================
