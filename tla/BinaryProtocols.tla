-------------------------- MODULE BinaryProtocols --------------------------
(***************************************************************************)
(* The binary protocols behind one interface: the template parameters      *)
(* Reader and Writer of the library.  pr is the protocol and its version.  *)
(***************************************************************************)
EXTENDS Encoding

Compact == INSTANCE CompactBinary
Fast == INSTANCE FastBinary
Simple == INSTANCE SimpleBinary

Tagged == {"compact1", "compact2", "fast"}
Untagged == {"simple1", "simple2"}
Protocols == Tagged \cup Untagged
Version(pr) == IF pr \in {"compact1", "simple1"} THEN 1 ELSE 2

ByProtocol(pr, compact, fast, simple) ==
    CASE pr \in {"compact1", "compact2"} -> compact [] pr = "fast" -> fast [] pr \in Untagged -> simple

WriteBasic(pr, t, x) == ByProtocol(pr, Compact!Write(t, x), Fast!Write(t, x), Simple!Write(Version(pr), t, x))

WriteFieldBegin(pr, t, id) == ByProtocol(pr, Compact!WriteFieldBegin(t, id), Fast!WriteFieldBegin(t, id), <<>>)

WriteContainerBegin(pr, t, n) ==
    ByProtocol(pr, Compact!WriteContainerBegin(Version(pr), t, n), Fast!WriteContainerBegin(t, n),
                   Simple!WriteSize(Version(pr), n))

WriteMapBegin(pr, k, t, n) ==
    ByProtocol(pr, Compact!WriteMapBegin(k, t, n), Fast!WriteMapBegin(k, t, n), Simple!WriteSize(Version(pr), n))

WriteStructEnd(pr, base) == ByProtocol(pr, Compact!WriteStructEnd(base), Fast!WriteStructEnd(base), <<>>)

ProtocolReadBasic(pr, b, p, t) == ByProtocol(pr, Compact!Read(b, p, t), Fast!Read(b, p, t), Simple!Read(Version(pr), b, p, t))

ProtocolReadStructBegin(pr, b, p) == ByProtocol(pr, Compact!ReadStructBegin(Version(pr), b, p), Ok(0, p), Ok(0, p))

ProtocolReadFieldBegin(pr, b, p) == IF pr = "fast" THEN Fast!ReadFieldBegin(b, p) ELSE Compact!ReadFieldBegin(b, p)

(* The reader of an untagged protocol leaves the type as the caller has it.*)
ProtocolReadContainerBegin(pr, b, p, t) ==
    ByProtocol(pr, Compact!ReadContainerBegin(Version(pr), b, p), Fast!ReadContainerBegin(b, p),
                   Then(Simple!ReadSize(Version(pr), b, p), LAMBDA n : Ok(<<t, n.v>>, n.p)))

ProtocolReadMapBegin(pr, b, p, k, t) ==
    ByProtocol(pr, Compact!ReadMapBegin(b, p), Fast!ReadMapBegin(b, p),
                   Then(Simple!ReadSize(Version(pr), b, p), LAMBDA n : Ok(<<k, t, n.v>>, n.p)))

(* Reader::Skip(BondDataType)                                              *)
ProtocolSkipType(pr, b, p, t) ==
    ByProtocol(pr, Compact!SkipType(Version(pr), b, p, t), Fast!SkipType(b, p, t), Simple!Skip(Version(pr), b, p, t))

=============================================================================
