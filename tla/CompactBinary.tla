---------------------------- MODULE CompactBinary --------------------------
(***************************************************************************)
(* CompactBinary (src/cpp/inc/bond/protocol/compact_binary.h), version v:  *)
(* what CompactBinaryWriter writes for a call and how CompactBinaryReader  *)
(* reads and skips it.  The lengths that v2 puts in front of structs are   *)
(* in BinaryWriter, because they take two passes.                          *)
(***************************************************************************)
EXTENDS Encoding

Magic == 16963      \* COMPACT_PROTOCOL
WriteVersion(v) == Fixed(Magic, 2) \o Fixed(v, 2)
ReadVersion(magic, version) == magic = Magic /\ version <= 2

VariableUnsigned == {"uint16", "uint32", "uint64"}
VariableSigned == {"int16", "int32", "int64"}

WriteFieldBeginSix(t, id) ==        \* Mutant: ids up to 6 go into the first byte
    CASE id <= 6 -> <<BT[t] + 32 * id>>
      [] id > 6 /\ id <= 255 -> <<BT[t] + 32 * 6, id>>
      [] id > 255 -> <<BT[t] + 32 * 7>> \o Fixed(id, 2)

WriteFieldBegin(t, id) ==
    CASE id <= 5 -> <<BT[t] + 32 * id>>
      [] id > 5 /\ id <= 255 -> <<BT[t] + 32 * 6, id>>
      [] id > 255 -> <<BT[t] + 32 * 7>> \o Fixed(id, 2)

WriteContainerBegin(v, t, n) ==
    IF v = 2 /\ n < 7 THEN <<BT[t] + 32 * (n + 1)>> ELSE <<BT[t]>> \o WriteVariableUnsigned(n)

WriteMapBegin(k, t, n) == <<BT[k], BT[t]>> \o WriteVariableUnsigned(n)

WriteStructEnd(base) == <<IF base THEN BT.stop_base ELSE BT.stop>>

Write(t, x) ==
    CASE t \in Strings -> WriteVariableUnsigned(Len(x)) \o WriteStringData(t, x)
      [] t \in VariableUnsigned -> WriteVariableUnsigned(x)
      [] t \in VariableSigned -> WriteVariableUnsigned(EncodeZigZag(x))
      [] OTHER -> Fixed(x, Width[t])

-----------------------------------------------------------------------------
ReadStructBegin(v, b, p) == IF v = 2 THEN ReadVariableUnsigned(b, p) ELSE Ok(0, p)

(* The type and the id of the next field.                                  *)
ReadFieldBegin(b, p) ==
    Then(ReadBytes(b, p, 1), LAMBDA r :
        LET type == BTName(r.v[1] % 32)  id == r.v[1] \div 32 IN
        CASE id = 7 -> Then(ReadFixed(b, r.p, 2, FALSE), LAMBDA s : Ok(<<type, s.v>>, s.p))
          [] id = 6 -> Then(ReadFixed(b, r.p, 1, FALSE), LAMBDA s : Ok(<<type, s.v>>, s.p))
          [] id < 6 -> Ok(<<type, id>>, r.p))

(* The type of the elements and their number.                              *)
ReadContainerBegin(v, b, p) ==
    Then(ReadBytes(b, p, 1), LAMBDA r :
        LET type == BTName(r.v[1] % 32) IN
        IF v = 2 /\ r.v[1] \div 32 # 0 THEN Ok(<<type, r.v[1] \div 32 - 1>>, r.p)
        ELSE Then(ReadVariableUnsigned(b, r.p), LAMBDA n : Ok(<<type, n.v>>, n.p)))

ReadMapBegin(b, p) ==
    Then(ReadBytes(b, p, 2), LAMBDA r :
        Then(ReadVariableUnsigned(b, r.p), LAMBDA n : Ok(<<BTName(r.v[1]), BTName(r.v[2]), n.v>>, n.p)))

Read(b, p, t) ==
    CASE t \in Strings -> Then(ReadVariableUnsigned(b, p), LAMBDA n : ReadStringData(b, n.p, t, n.v))
      [] t \in VariableUnsigned -> ReadVariableUnsigned(b, p)
      [] t \in VariableSigned -> Then(ReadVariableUnsigned(b, p), LAMBDA r : Ok(DecodeZigZag(r.v), r.p))
      [] OTHER -> ReadFixed(b, p, Width[t], t \in Signed)

-----------------------------------------------------------------------------
(* SkipType<T> for basic types and strings.                                *)
SkipBasic(b, p, t) ==
    CASE t \in Strings -> Then(ReadVariableUnsigned(b, p), LAMBDA n : SkipBytes(b, n.p, n.v * CharWidth[t]))
      [] t \in VariableUnsigned \cup VariableSigned -> ReadVariableUnsigned(b, p)
      [] OTHER -> SkipBytes(b, p, Width[t])

RECURSIVE SkipType(_, _, _, _), SkipElements(_, _, _, _, _), SkipContainer(_, _, _, _), SkipStructV1(_, _)

SkipContainer(v, b, p, t) ==
    IF t = "map"
    THEN Then(ReadMapBegin(b, p), LAMBDA h :
             Repeat(h.v[3], h, LAMBDA q :
                 Then(SkipType(v, b, q, h.v[1]), LAMBDA k : SkipType(v, b, k.p, h.v[2]))))
    ELSE Then(ReadContainerBegin(v, b, p), LAMBDA h : SkipElements(v, b, h.p, h.v[1], h.v[2]))

SkipStructV1(b, p) ==
    Then(ReadFieldBegin(b, p), LAMBDA f :
        CASE f.v[1] = "stop" -> f
          [] f.v[1] = "stop_base" -> SkipStructV1(b, f.p)
          [] OTHER -> Then(SkipType(1, b, f.p, f.v[1]), LAMBDA r : SkipStructV1(b, r.p)))

SkipStructV2(b, p) == Then(ReadVariableUnsigned(b, p), LAMBDA n : SkipBytes(b, n.p, n.v))

(* SkipType<T>(size): one Skip for all elements of a fixed width, one by   *)
(* one otherwise.                                                          *)
SkipElements(v, b, p, t, n) ==
    IF t \in {"bool", "uint8", "int8", "float", "double"} THEN SkipBytes(b, p, n * Width[t])
    ELSE Repeat(n, Ok(0, p), LAMBDA q : SkipType(v, b, q, t))

(* SkipType(type): the switch, which ignores a type it does not know.      *)
SkipType(v, b, p, t) ==
    CASE t \in Basics -> SkipBasic(b, p, t)
      [] t \in {"list", "set", "map"} -> SkipContainer(v, b, p, t)
      [] t = "struct" -> IF v = 2 THEN SkipStructV2(b, p) ELSE SkipStructV1(b, p)
      [] OTHER -> Ok(0, p)

=============================================================================
