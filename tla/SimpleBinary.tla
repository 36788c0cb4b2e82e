---------------------------- MODULE SimpleBinary ---------------------------
(***************************************************************************)
(* SimpleBinary (src/cpp/inc/bond/protocol/simple_binary.h and             *)
(* simple_binary_impl.h), version v: no tags at all, every field present.  *)
(***************************************************************************)
EXTENDS Encoding

Magic == 20563      \* SIMPLE_PROTOCOL
WriteVersion(v) == Fixed(Magic, 2) \o Fixed(v, 2)
ReadVersion(magic, version) == magic = Magic /\ version <= 2

WriteSize(v, n) == IF v = 1 THEN Fixed(n, 4) ELSE WriteVariableUnsigned(n)

Write(v, t, x) ==
    IF t \in Strings THEN WriteSize(v, Len(x)) \o WriteStringData(t, x) ELSE Fixed(x, Width[t])

(* A field cannot be omitted: the default value is written.                *)
WriteFieldOmitted(v, type, default) ==
    IF type \in {"list", "set", "map"} THEN WriteSize(v, 0) ELSE Write(v, type, default)

-----------------------------------------------------------------------------
ReadSize(v, b, p) == IF v = 1 THEN ReadFixed(b, p, 4, FALSE) ELSE ReadVariableUnsigned(b, p)

Read(v, b, p, t) ==
    IF t \in Strings THEN Then(ReadSize(v, b, p), LAMBDA n : ReadStringData(b, n.p, t, n.v))
    ELSE ReadFixed(b, p, Width[t], t \in Signed)

SkipString(v, b, p, t) == Then(ReadSize(v, b, p), LAMBDA n : SkipBytes(b, n.p, n.v * CharWidth[t]))

(* Skip(BondDataType): only basic types can be skipped without a schema.   *)
Skip(v, b, p, t) ==
    CASE t \in DOMAIN Width -> SkipBytes(b, p, Width[t])
      [] t \in Strings -> SkipString(v, b, p, t)
      [] OTHER -> Ok(0, p)

=============================================================================
