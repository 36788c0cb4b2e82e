----------------------------- MODULE FastBinary ----------------------------
(***************************************************************************)
(* FastBinary (src/cpp/inc/bond/protocol/fast_binary.h): tagged like       *)
(* CompactBinary, with fixed width integers and 16 bit field ids.          *)
(***************************************************************************)
EXTENDS Encoding

Magic == 17997      \* FAST_PROTOCOL
WriteVersion == Fixed(Magic, 2) \o Fixed(1, 2)
ReadVersion(magic, version) == magic = Magic /\ version <= 1

WriteFieldBegin(t, id) == <<BT[t]>> \o Fixed(id, 2)
WriteContainerBegin(t, n) == <<BT[t]>> \o WriteVariableUnsigned(n)
WriteMapBegin(k, t, n) == <<BT[k], BT[t]>> \o WriteVariableUnsigned(n)
WriteStructEnd(base) == <<IF base THEN BT.stop_base ELSE BT.stop>>

Write(t, x) ==
    IF t \in Strings THEN WriteVariableUnsigned(Len(x)) \o WriteStringData(t, x) ELSE Fixed(x, Width[t])

-----------------------------------------------------------------------------
ReadFieldBegin(b, p) ==
    Then(ReadBytes(b, p, 1), LAMBDA r :
        IF r.v[1] \in {BT.stop, BT.stop_base} THEN Ok(<<BTName(r.v[1]), 0>>, r.p)
        ELSE Then(ReadFixed(b, r.p, 2, FALSE), LAMBDA s : Ok(<<BTName(r.v[1]), s.v>>, s.p)))

ReadContainerBegin(b, p) ==
    Then(ReadBytes(b, p, 1), LAMBDA r :
        Then(ReadVariableUnsigned(b, r.p), LAMBDA n : Ok(<<BTName(r.v[1]), n.v>>, n.p)))

ReadMapBegin(b, p) ==
    Then(ReadBytes(b, p, 2), LAMBDA r :
        Then(ReadVariableUnsigned(b, r.p), LAMBDA n : Ok(<<BTName(r.v[1]), BTName(r.v[2]), n.v>>, n.p)))

Read(b, p, t) ==
    IF t \in Strings THEN Then(ReadVariableUnsigned(b, p), LAMBDA n : ReadStringData(b, n.p, t, n.v))
    ELSE ReadFixed(b, p, Width[t], t \in Signed)

-----------------------------------------------------------------------------
(* SkipType<T>(size) for basic types and SkipType<T>() for strings.        *)
SkipFixed(b, p, t, n) == SkipBytes(b, p, n * Width[t])
SkipString(b, p, t) == Then(ReadVariableUnsigned(b, p), LAMBDA n : SkipBytes(b, n.p, n.v * CharWidth[t]))

RECURSIVE SkipType(_, _, _), SkipElements(_, _, _, _), SkipContainer(_, _, _), SkipStruct(_, _)

SkipStruct(b, p) ==
    Then(ReadFieldBegin(b, p), LAMBDA f :
        CASE f.v[1] = "stop" -> f
          [] f.v[1] = "stop_base" -> SkipStruct(b, f.p)
          [] OTHER -> Then(SkipType(b, f.p, f.v[1]), LAMBDA r : SkipStruct(b, r.p)))

SkipContainer(b, p, t) ==
    IF t = "map"
    THEN Then(ReadMapBegin(b, p), LAMBDA h :
             Repeat(h.v[3], h, LAMBDA q : Then(SkipType(b, q, h.v[1]), LAMBDA k : SkipType(b, k.p, h.v[2]))))
    ELSE Then(ReadContainerBegin(b, p), LAMBDA h : SkipElements(b, h.p, h.v[1], h.v[2]))

SkipElements(b, p, t, n) ==
    IF t \in DOMAIN Width THEN SkipFixed(b, p, t, n)
    ELSE Repeat(n, Ok(0, p), LAMBDA q : SkipType(b, q, t))

SkipType(b, p, t) ==
    CASE t \in DOMAIN Width -> SkipFixed(b, p, t, 1)
      [] t \in Strings -> SkipString(b, p, t)
      [] t \in {"list", "set", "map"} -> SkipContainer(b, p, t)
      [] t = "struct" -> SkipStruct(b, p)
      [] OTHER -> Ok(0, p)

=============================================================================
