------------------------- MODULE TaggedParserProofs ------------------------
(***************************************************************************)
(* For every schema, every payload and every object: the tagged parser     *)
(* fills an object with exactly the fields that can be read, a Serializer  *)
(* passes every field on, a Merger keeps what the schema does not know and *)
(* drops fields of the object only where MergeLossIsKnown says so.         *)
(***************************************************************************)
EXTENDS TaggedParser, WellFoundedInduction, TLAPS

(* A written tag, with where its value came from.                          *)
OutTags == [id : 0 .. Invalid, type : Types, from : {"payload", "object", "merged"}]

ParserTypeOK ==
    /\ mode \in Modes /\ transform \in Transforms /\ depth \in 1 .. Len(Schema)
    /\ transform = "Merger" => mode = "compile"
    /\ transform # "To" => depth = Len(Schema) /\ Len(payload) >= Len(Schema)
    /\ payload \in Payloads
    /\ object \subseteq AllFields
    /\ plevel \in 1 .. Len(payload) /\ pos \in 1 .. Len(payload[plevel]) + 1
    /\ level \in 1 .. depth /\ field \in 1 .. Len(Schema[level]) + 1
    /\ phase \in {"fields", "unknown", "done", "exception"}
    /\ required \in Nat
    /\ assigned \subseteq Nat \X Nat
    /\ outTags \in Seq(Seq(OutTags))
    /\ transform = "To" => outTags = << <<>> >>
    /\ transform # "To" => Len(outTags) = plevel

(* Where the two sequences are when the parser is in each of its phases.   *)
PlaceInv ==
    /\ phase = "fields" => plevel = level
    /\ phase \in {"unknown", "done"} => level = depth /\ plevel >= depth /\ field = Len(Schema[level]) + 1
    /\ phase = "done" => plevel = Len(payload) /\ pos = Len(payload[plevel]) + 1

(* The walk: fields that were left behind come before the tags to be read, *)
(* and tags that were read come before the fields still ahead.             *)
Cross(S, P, f, p) ==
    /\ \A i \in 1 .. Len(S), j \in 1 .. Len(P) : i < f /\ j >= p => S[i].id < P[j].id
    /\ \A i \in 1 .. Len(S), j \in 1 .. Len(P) : i >= f /\ j < p => P[j].id < S[i].id

CrossInv == phase = "fields" => Cross(Schema[level], payload[level], field, pos)

-----------------------------------------------------------------------------
(* Field x of a struct is readable from the first n tags of a payload.     *)
Held(S, P, x, n) ==
    \E i \in 1 .. Len(S), j \in 1 .. Len(P) :
        j <= n /\ S[i].id = x /\ P[j].id = x /\ Matches(P[j].type, S[i].type)

(* How many tags of a struct have been read.                               *)
Read(l) == IF phase = "fields" /\ l = level THEN pos - 1 ELSE Len(payload[l])

AssignInv ==
    transform = "To" /\ phase # "exception" =>
        \A l, x \in Nat : <<l, x>> \in assigned <=> l \in 1 .. level /\ Held(Schema[l], payload[l], x, Read(l))

(* The validator awaits the first required field that is not assigned.     *)
Awaits(S, l, r, A) ==
    /\ r = Invalid \/ \E i \in 1 .. Len(S) : S[i].required /\ S[i].id = r
    /\ \A i \in 1 .. Len(S) : S[i].required => (S[i].id < r <=> <<l, S[i].id>> \in A)

RequiredInv ==
    transform = "To" /\ phase # "exception" =>
        /\ Awaits(Schema[level], level, required, assigned)
        /\ \A l \in 1 .. level - 1 : \A i \in 1 .. Len(Schema[l]) :
               Schema[l][i].required => <<l, Schema[l][i].id>> \in assigned
        /\ phase = "done" => required = Invalid

(* A parse fails for a payload with too few structs, or because a required *)
(* field is not readable.                                                  *)
FailureInv ==
    phase = "exception" =>
        /\ transform = "To"
        /\ \/ Len(payload) < depth
           \/ \E l \in 1 .. depth : \E i \in 1 .. Len(Schema[l]) :
                  Schema[l][i].required /\ ~Held(Schema[l], payload[l], Schema[l][i].id, Len(payload[l]))

-----------------------------------------------------------------------------
(* What is written is ordered, and comes before all that is ahead.         *)
Before(Q, R, n) == \A k \in 1 .. Len(Q), j \in 1 .. Len(R) : j >= n => Q[k].id < R[j].id

OrderInv ==
    transform # "To" =>
        /\ \A l \in 1 .. plevel : Sorted(outTags[l])
        /\ Before(outTags[plevel], payload[plevel], pos)
        /\ phase = "fields" => Before(outTags[plevel], Schema[level], field)

(* A Serializer has written the tags that it has read.                     *)
Copies(Q, P, n) ==
    /\ Len(Q) = n
    /\ \A k \in 1 .. n : Q[k].id = P[k].id /\ Q[k].type = P[k].type

SerializerInv ==
    transform = "Serializer" =>
        /\ \A l \in 1 .. plevel - 1 : Copies(outTags[l], payload[l], Len(payload[l]))
        /\ Copies(outTags[plevel], payload[plevel], pos - 1)

(* A Merger has kept the unknown tags that it has read ...                 *)
Kept(Q, P, known, n) ==
    \A j \in 1 .. Len(P) : j <= n /\ P[j].id \notin known =>
        \E k \in 1 .. Len(Q) : Q[k] = [id |-> P[j].id, type |-> P[j].type, from |-> "payload"]

Known(l) == IF l > Len(Schema) THEN {} ELSE Ids(Schema[l])

KeptInv ==
    transform = "Merger" =>
        /\ \A l \in 1 .. plevel - 1 : Kept(outTags[l], payload[l], Known(l), Len(payload[l]))
        /\ Kept(outTags[plevel], payload[plevel], Known(plevel), pos - 1)

(* ... and has dropped a field that it left behind only for a reason.      *)
Written(Q, x) == \E k \in 1 .. Len(Q) : Q[k].id = x /\ Q[k].from # "payload"

Excused(S, P, x, type) ==
    \E j \in 1 .. Len(P) :
        \/ P[j].id = x /\ P[j].type # type
        \/ P[j].id < x /\ \A s \in Ids(S) : s < x => s < P[j].id

Settled(S, P, Q, O, l, n) ==
    \A i \in 1 .. Len(S) : i < n /\ <<l, S[i].id>> \in O =>
        Written(Q, S[i].id) \/ Excused(S, P, S[i].id, S[i].type)

LossInv ==
    transform = "Merger" =>
        /\ \A l \in 1 .. level - 1 : Settled(Schema[l], payload[l], outTags[l], object, l, Len(Schema[l]) + 1)
        /\ Settled(Schema[level], payload[level], outTags[level], object, level, field)

IInv ==
    /\ ParserTypeOK
    /\ PlaceInv
    /\ CrossInv
    /\ AssignInv
    /\ RequiredInv
    /\ FailureInv
    /\ OrderInv
    /\ SerializerInv
    /\ KeptInv
    /\ LossInv
-----------------------------------------------------------------------------
(* The operators of the model.                                             *)
LEMMA InvalidIsNat == Invalid \in Nat
  BY SMT DEF Invalid

LEMMA FieldShape == \A f \in SchemaFields : f.id \in Nat /\ f.id < Invalid /\ f.type \in Types
  BY InvalidIsNat, SMT DEF SchemaFields

LEMMA TagShape == \A t \in FieldTags : t.id \in Nat /\ t.id <= Invalid /\ t.type \in Types
  BY InvalidIsNat, SMT DEF FieldTags

LEMMA FieldsShape ==
    ASSUME NEW S \in Seq(SchemaFields)
    PROVE  /\ Len(S) \in Nat
           /\ \A i \in 1 .. Len(S) : S[i] \in SchemaFields /\ S[i].id \in Nat /\ S[i].id < Invalid
  <1>1. Len(S) \in Nat /\ \A i \in 1 .. Len(S) : S[i] \in SchemaFields
    OBVIOUS
  <1> QED
    BY <1>1, FieldShape

LEMMA TagsShape ==
    ASSUME NEW P \in Seq(FieldTags)
    PROVE  /\ Len(P) \in Nat
           /\ \A j \in 1 .. Len(P) : P[j] \in FieldTags /\ P[j].id \in Nat /\ P[j].id <= Invalid
  <1>1. Len(P) \in Nat /\ \A j \in 1 .. Len(P) : P[j] \in FieldTags
    OBVIOUS
  <1> QED
    BY <1>1, TagShape

LEMMA MinExists ==
    ASSUME NEW T \in SUBSET Nat, T # {}
    PROVE  \E x \in T : \A y \in T : x <= y
  <1>1. PICK x \in T : \A y \in T : ~ (<<y, x>> \in OpToRel(<, Nat))
    BY NatLessThanWellFounded, WFMin
  <1>2. \A y \in T : ~(y < x)
    BY <1>1 DEF OpToRel
  <1> QED
    BY <1>2

(* next_required_field: the least id of a required field from minId on.    *)
LEMMA NextRequiredFacts ==
    ASSUME NEW S \in Seq(SchemaFields), NEW n \in Nat
    PROVE  /\ NextRequired(S, n) \in Nat
           /\ \/ NextRequired(S, n) = Invalid
              \/ NextRequired(S, n) >= n /\ \E i \in 1 .. Len(S) : S[i].required /\ S[i].id = NextRequired(S, n)
           /\ \A i \in 1 .. Len(S) : S[i].required /\ S[i].id >= n => NextRequired(S, n) <= S[i].id
  <1> DEFINE ids == {S[i].id : i \in {j \in 1 .. Len(S) : S[j].required /\ S[j].id >= n}}
  <1>1. \A i \in 1 .. Len(S) : S[i].id \in Nat /\ S[i].id < Invalid
    BY FieldsShape
  <1>2. ids \in SUBSET Nat
    BY <1>1
  <1>3. /\ \A x \in ids : x >= n /\ \E i \in 1 .. Len(S) : S[i].required /\ S[i].id = x
        /\ \A i \in 1 .. Len(S) : S[i].required /\ S[i].id >= n => S[i].id \in ids
    BY <1>1
  <1>4. NextRequired(S, n) = IF ids = {} THEN Invalid ELSE CHOOSE x \in ids : \A y \in ids : x <= y
    BY DEF NextRequired
  <1> HIDE DEF ids
  <1>5. CASE ids = {}
    BY <1>3, <1>4, <1>5, InvalidIsNat
  <1>6. CASE ids # {}
    <2>1. NextRequired(S, n) \in ids /\ \A y \in ids : NextRequired(S, n) <= y
      BY <1>2, <1>4, <1>6, MinExists
    <2> QED
      BY <1>2, <1>3, <2>1
  <1> QED
    BY <1>5, <1>6

LEMMA SortedUnique ==
    ASSUME NEW S, Sorted(S), NEW i \in 1 .. Len(S), NEW j \in 1 .. Len(S), S[i].id = S[j].id,
           Len(S) \in Nat, \A k \in 1 .. Len(S) : S[k].id \in Nat
    PROVE  i = j
  <1>1. ~(i < j) /\ ~(j < i)
    BY DEF Sorted
  <1> QED
    BY <1>1

-----------------------------------------------------------------------------
(* The three ways to walk on: past a field, past a tag, past both.         *)
LEMMA CrossField ==
    ASSUME NEW S \in Seq(SchemaFields), NEW P \in Seq(FieldTags), Sorted(P),
           NEW f \in 1 .. Len(S), NEW p \in 1 .. Len(P) + 1, Cross(S, P, f, p),
           p <= Len(P) => S[f].id < P[p].id
    PROVE  Cross(S, P, f + 1, p)
  <1>1. /\ \A i \in 1 .. Len(S) : S[i].id \in Nat
        /\ \A j \in 1 .. Len(P) : P[j].id \in Nat
    BY FieldsShape, TagsShape
  <1>2. \A j \in 1 .. Len(P) : j >= p => S[f].id < P[j].id
    BY <1>1 DEF Sorted
  <1> QED
    BY <1>2 DEF Cross

LEMMA CrossTag ==
    ASSUME NEW S \in Seq(SchemaFields), NEW P \in Seq(FieldTags), Sorted(S),
           NEW f \in 1 .. Len(S) + 1, NEW p \in 1 .. Len(P), Cross(S, P, f, p),
           f <= Len(S) => P[p].id < S[f].id
    PROVE  Cross(S, P, f, p + 1)
  <1>1. /\ \A i \in 1 .. Len(S) : S[i].id \in Nat
        /\ \A j \in 1 .. Len(P) : P[j].id \in Nat
    BY FieldsShape, TagsShape
  <1>2. \A i \in 1 .. Len(S) : i >= f => P[p].id < S[i].id
    BY <1>1 DEF Sorted
  <1>3. \A j \in 1 .. Len(P) : (j >= p + 1 => j >= p) /\ (j < p + 1 => j < p \/ j = p)
    OBVIOUS
  <1> QED
    BY <1>2, <1>3, SMTT(60) DEF Cross

LEMMA CrossBoth ==
    ASSUME NEW S \in Seq(SchemaFields), NEW P \in Seq(FieldTags), Sorted(S), Sorted(P),
           NEW f \in 1 .. Len(S), NEW p \in 1 .. Len(P), Cross(S, P, f, p), S[f].id = P[p].id
    PROVE  Cross(S, P, f + 1, p + 1)
  <1>1. /\ \A i \in 1 .. Len(S) : S[i].id \in Nat
        /\ \A j \in 1 .. Len(P) : P[j].id \in Nat
    BY FieldsShape, TagsShape
  <1>2. \A j \in 1 .. Len(P) : j >= p + 1 => S[f].id < P[j].id
    BY <1>1 DEF Sorted
  <1>3. \A i \in 1 .. Len(S) : i >= f + 1 => P[p].id < S[i].id
    BY <1>1 DEF Sorted
  <1>4. /\ \A j \in 1 .. Len(P) : (j >= p + 1 => j >= p) /\ (j < p + 1 => j < p \/ j = p)
        /\ \A i \in 1 .. Len(S) : (i >= f + 1 => i >= f) /\ (i < f + 1 => i < f \/ i = f)
    OBVIOUS
  <1> QED
    BY <1>2, <1>3, <1>4, SMTT(60) DEF Cross

(* What one more tag makes readable.                                       *)
LEMMA HeldNext ==
    ASSUME NEW S, NEW P \in Seq(FieldTags), NEW p \in 1 .. Len(P), NEW x
    PROVE  Held(S, P, x, p) <=>
               \/ Held(S, P, x, p - 1)
               \/ \E i \in 1 .. Len(S) : S[i].id = x /\ P[p].id = x /\ Matches(P[p].type, S[i].type)
  <1>1. \A j \in 1 .. Len(P) : j <= p <=> j <= p - 1 \/ j = p
    OBVIOUS
  <1> QED
    BY <1>1 DEF Held

LEMMA HeldSame ==
    ASSUME NEW S, NEW P, NEW x, Len(P) \in Nat
    PROVE  ~Held(S, P, x, 0)
  BY DEF Held

-----------------------------------------------------------------------------
(* Writing a tag.                                                          *)
LEMMA AppendTag ==
    ASSUME NEW Q \in Seq(OutTags), NEW r \in OutTags
    PROVE  /\ Append(Q, r) \in Seq(OutTags)
           /\ Len(Append(Q, r)) = Len(Q) + 1
           /\ \A k \in 1 .. Len(Q) : Append(Q, r)[k] = Q[k]
           /\ Append(Q, r)[Len(Q) + 1] = r
  OBVIOUS

LEMMA AppendOrdered ==
    ASSUME NEW Q \in Seq(OutTags), NEW r \in OutTags, Sorted(Q), \A k \in 1 .. Len(Q) : Q[k].id < r.id
    PROVE  Sorted(Append(Q, r))
  <1> DEFINE A == Append(Q, r)
  <1>1. Len(A) = Len(Q) + 1 /\ A[Len(Q) + 1] = r /\ \A k \in 1 .. Len(Q) : A[k] = Q[k]
    BY AppendTag
  <1>2. Len(Q) \in Nat
    OBVIOUS
  <1> HIDE DEF A
  <1>3. ASSUME NEW i \in 1 .. Len(A), NEW j \in 1 .. Len(A), i < j
        PROVE  A[i].id < A[j].id
    <2>1. i \in 1 .. Len(Q) /\ (j \in 1 .. Len(Q) \/ j = Len(Q) + 1)
      BY <1>1, <1>2, <1>3
    <2> QED
      BY <1>1, <1>3, <2>1 DEF Sorted
  <1>4. Sorted(A)
    BY <1>3 DEF Sorted
  <1> QED
    BY <1>4 DEF A

LEMMA AppendBefore ==
    ASSUME NEW Q \in Seq(OutTags), NEW r \in OutTags, NEW R, NEW n, Before(Q, R, n),
           \A j \in 1 .. Len(R) : j >= n => r.id < R[j].id
    PROVE  Before(Append(Q, r), R, n)
  <1> DEFINE A == Append(Q, r)
  <1>1. Len(A) = Len(Q) + 1 /\ A[Len(Q) + 1] = r /\ \A k \in 1 .. Len(Q) : A[k] = Q[k]
    BY AppendTag
  <1>2. Len(Q) \in Nat
    OBVIOUS
  <1> HIDE DEF A
  <1>3. \A k \in 1 .. Len(A) : k \in 1 .. Len(Q) \/ k = Len(Q) + 1
    BY <1>1, <1>2
  <1>4. Before(A, R, n)
    BY <1>1, <1>3 DEF Before
  <1> QED
    BY <1>4 DEF A

LEMMA BeforeLater ==
    ASSUME NEW Q, NEW R, NEW n \in Nat, NEW m \in Nat, m >= n, Before(Q, R, n), Len(R) \in Nat
    PROVE  Before(Q, R, m)
  BY DEF Before

LEMMA AppendCopies ==
    ASSUME NEW Q \in Seq(OutTags), NEW r \in OutTags, NEW P \in Seq(FieldTags), NEW p \in 1 .. Len(P),
           Copies(Q, P, p - 1), r.id = P[p].id, r.type = P[p].type
    PROVE  Copies(Append(Q, r), P, p)
  <1> DEFINE A == Append(Q, r)
  <1>1. Len(A) = Len(Q) + 1 /\ A[Len(Q) + 1] = r /\ \A k \in 1 .. Len(Q) : A[k] = Q[k]
    BY AppendTag
  <1> HIDE DEF A
  <1>2. \A k \in 1 .. p : k \in 1 .. p - 1 \/ k = p
    OBVIOUS
  <1>3. Copies(A, P, p)
    BY <1>1, <1>2 DEF Copies
  <1> QED
    BY <1>3 DEF A

LEMMA AppendKept ==
    ASSUME NEW Q \in Seq(OutTags), NEW r \in OutTags, NEW P, NEW known, NEW n, Kept(Q, P, known, n)
    PROVE  Kept(Append(Q, r), P, known, n)
  <1> DEFINE A == Append(Q, r)
  <1>1. Len(A) = Len(Q) + 1 /\ \A k \in 1 .. Len(Q) : A[k] = Q[k]
    BY AppendTag
  <1>2. \A k \in 1 .. Len(Q) : k \in 1 .. Len(A)
    BY <1>1
  <1> HIDE DEF A
  <1>3. Kept(A, P, known, n)
    BY <1>1, <1>2 DEF Kept
  <1> QED
    BY <1>3 DEF A

LEMMA KeptNext ==
    ASSUME NEW Q, NEW P \in Seq(FieldTags), NEW known, NEW p \in 1 .. Len(P), Kept(Q, P, known, p - 1),
           \/ P[p].id \in known
           \/ \E k \in 1 .. Len(Q) : Q[k] = [id |-> P[p].id, type |-> P[p].type, from |-> "payload"]
    PROVE  Kept(Q, P, known, p)
  <1>1. \A j \in 1 .. Len(P) : j <= p <=> j <= p - 1 \/ j = p
    OBVIOUS
  <1> QED
    BY <1>1 DEF Kept

LEMMA AppendWritten ==
    ASSUME NEW Q \in Seq(OutTags), NEW r \in OutTags, NEW x
    PROVE  /\ Written(Q, x) => Written(Append(Q, r), x)
           /\ r.id = x /\ r.from # "payload" => Written(Append(Q, r), x)
  <1> DEFINE A == Append(Q, r)
  <1>1. Len(A) = Len(Q) + 1 /\ A[Len(Q) + 1] = r /\ \A k \in 1 .. Len(Q) : A[k] = Q[k]
    BY AppendTag
  <1>2. Len(Q) + 1 \in 1 .. Len(A) /\ \A k \in 1 .. Len(Q) : k \in 1 .. Len(A)
    BY <1>1
  <1> HIDE DEF A
  <1>3. /\ Written(Q, x) => Written(A, x)
        /\ r.id = x /\ r.from # "payload" => Written(A, x)
    BY <1>1, <1>2 DEF Written
  <1> QED
    BY <1>3 DEF A
-----------------------------------------------------------------------------
(* What the invariant says of the parser's two positions.                  *)
LEMMA Shapes ==
    ASSUME IInv
    PROVE  /\ \A l \in 1 .. Len(Schema) : Schema[l] \in Seq(SchemaFields) /\ Sorted(Schema[l])
           /\ Len(Schema) \in Nat
           /\ Len(payload) \in Nat
           /\ \A l \in 1 .. Len(payload) : payload[l] \in Seq(FieldTags) /\ Sorted(payload[l])
           /\ level \in 1 .. Len(Schema) /\ depth \in 1 .. Len(Schema)
           /\ Schema[level] \in Seq(SchemaFields) /\ Sorted(Schema[level])
           /\ payload[plevel] \in Seq(FieldTags) /\ Sorted(payload[plevel])
           /\ level \in Nat /\ plevel \in Nat /\ pos \in Nat /\ field \in Nat /\ depth \in Nat
  <1>1. /\ Schema \in Seq(Seq(SchemaFields)) /\ payload \in Seq(Seq(FieldTags))
        /\ \A l \in 1 .. Len(Schema) : Sorted(Schema[l])
        /\ \A l \in 1 .. Len(payload) : Sorted(payload[l])
    BY SchemaAssumption, PayloadAssumption DEF IInv, ParserTypeOK
  <1>2. Len(Schema) \in Nat /\ \A l \in 1 .. Len(Schema) : Schema[l] \in Seq(SchemaFields) /\ Len(Schema[l]) \in Nat
    BY <1>1
  <1>3. Len(payload) \in Nat /\ \A l \in 1 .. Len(payload) : payload[l] \in Seq(FieldTags) /\ Len(payload[l]) \in Nat
    BY <1>1
  <1>4. depth \in 1 .. Len(Schema) /\ level \in 1 .. depth /\ plevel \in 1 .. Len(payload)
    BY DEF IInv, ParserTypeOK
  <1>5. level \in 1 .. Len(Schema)
    BY <1>2, <1>4
  <1>6. pos \in Nat /\ field \in Nat
    BY <1>2, <1>3, <1>4, <1>5 DEF IInv, ParserTypeOK
  <1>7. level \in Nat /\ plevel \in Nat /\ depth \in Nat
    BY <1>2, <1>3, <1>4
  <1>8. /\ Schema[level] \in Seq(SchemaFields) /\ Sorted(Schema[level])
        /\ payload[plevel] \in Seq(FieldTags) /\ Sorted(payload[plevel])
    BY <1>1, <1>2, <1>3, <1>4, <1>5
  <1> QED
    BY <1>1, <1>2, <1>3, <1>4, <1>5, <1>6, <1>7, <1>8, Zenon

(* ReadFieldBegin returns the tag at a position, or the end of the struct. *)
LEMMA TagFacts ==
    ASSUME IInv, NEW p \in Nat, p >= 1
    PROVE  /\ Stop(Tag(plevel, p)) <=> p > Len(payload[plevel])
           /\ p <= Len(payload[plevel]) => Tag(plevel, p) = payload[plevel][p] /\ p \in 1 .. Len(payload[plevel])
           /\ p > Len(payload[plevel]) => (Tag(plevel, p).type = "STOP" <=> plevel = Len(payload))
           /\ p > Len(payload[plevel]) => (Tag(plevel, p).type = "STOP_BASE" <=> plevel < Len(payload))
           /\ p <= Len(payload[plevel]) => Tag(plevel, p).type \in Types
  <1>1. /\ payload[plevel] \in Seq(FieldTags) /\ plevel \in 1 .. Len(payload) /\ Len(payload) \in Nat
        /\ Len(payload[plevel]) \in Nat
    BY Shapes DEF IInv, ParserTypeOK
  <1>2. CASE p <= Len(payload[plevel])
    <2>1. p \in 1 .. Len(payload[plevel]) /\ Tag(plevel, p) = payload[plevel][p]
      BY <1>1, <1>2 DEF Tag
    <2>2. Tag(plevel, p).type \in Types
      BY <1>1, <2>1, TagsShape, TagShape
    <2>3. ~Stop(Tag(plevel, p))
      BY <2>2 DEF Stop, Types, Basic
    <2> QED
      BY <1>1, <1>2, <2>1, <2>2, <2>3
  <1>3. CASE p > Len(payload[plevel])
    <2>1. Tag(plevel, p) = [id |-> 0, type |-> IF plevel < Len(payload) THEN "STOP_BASE" ELSE "STOP"]
      BY <1>1, <1>3 DEF Tag
    <2>2. Tag(plevel, p).type = IF plevel < Len(payload) THEN "STOP_BASE" ELSE "STOP"
      BY <2>1
    <2> QED
      BY <1>1, <1>3, <2>2 DEF Stop
  <1> QED
    BY <1>1, <1>2, <1>3

(* Every iteration of ReadFields, of either parser, is one of three: a     *)
(* field is left behind without a tag, a tag is read for the field that    *)
(* has its id, or a tag is read that the schema does not know.             *)
Skipped ==
    /\ field \in 1 .. Len(Schema[level])
    /\ pos \in 1 .. Len(payload[level]) => Schema[level][field].id < payload[level][pos].id
    /\ OmittedField(Schema[level][field])
    /\ field' = field + 1 /\ pos' = pos

Matched ==
    /\ field \in 1 .. Len(Schema[level]) /\ pos \in 1 .. Len(payload[level])
    /\ Schema[level][field].id = payload[level][pos].id
    /\ \/ Schema[level][field].type = payload[level][pos].type /\ FastField(Schema[level][field])
       \/ /\ mode = "compile" => Schema[level][field].type # payload[level][pos].type
          /\ ValueField(payload[level][pos])
       \/ /\ ~Matches(payload[level][pos].type, Schema[level][field].type)
          /\ UnknownTag(payload[level][pos])
    /\ field' = field + 1 /\ pos' = pos + 1

Passed ==
    /\ pos \in 1 .. Len(payload[level])
    /\ field \in 1 .. Len(Schema[level]) => payload[level][pos].id < Schema[level][field].id
    /\ UnknownTag(payload[level][pos])
    /\ pos' = pos + 1
    /\ \/ field' = field
       \/ /\ field \in 1 .. Len(Schema[level]) /\ field' = field + 1
          /\ pos + 1 \in 1 .. Len(payload[level]) => Schema[level][field].id < payload[level][pos + 1].id

FieldsStep ==
    \/ ExactMatch \/ UnknownFieldOrTypeMismatch \/ SchemaFieldOmitted \/ BehindLastField
    \/ RuntimeOmitted \/ RuntimeField

(* A tag behind one that has a field's id is behind the field.             *)
LEMMA NextTagBehind ==
    ASSUME IInv, phase = "fields", field \in 1 .. Len(Schema[level]), pos \in 1 .. Len(payload[level]),
           Schema[level][field].id = payload[level][pos].id, NextSchemaField
    PROVE  field' = field + 1
  <1>1. plevel = level /\ pos + 1 \in Nat /\ pos + 1 >= 1
    BY Shapes DEF IInv, PlaceInv
  <1>2. CASE pos + 1 <= Len(payload[level])
    <2>1. Tag(plevel, pos + 1) = payload[level][pos + 1] /\ pos + 1 \in 1 .. Len(payload[level])
      BY <1>1, <1>2, TagFacts
    <2>2. payload[level][pos].id < payload[level][pos + 1].id
      BY <1>1, <2>1, Shapes DEF Sorted
    <2> QED
      BY <2>1, <2>2 DEF NextSchemaField, FieldAt, Fields
  <1>3. CASE ~(pos + 1 <= Len(payload[level]))
    <2>1. Stop(Tag(plevel, pos + 1))
      BY <1>1, <1>3, TagFacts, Shapes, TagsShape
    <2> QED
      BY <2>1 DEF NextSchemaField
  <1> QED
    BY <1>2, <1>3

LEMMA Classify ==
    ASSUME IInv, FieldsStep
    PROVE  /\ phase = "fields" /\ plevel = level
           /\ Skipped \/ Matched \/ Passed
           /\ UNCHANGED <<parse, level, plevel>>
  <1>1. phase = "fields" /\ plevel = level
    BY DEF FieldsStep, ExactMatch, UnknownFieldOrTypeMismatch, SchemaFieldOmitted, BehindLastField,
       RuntimeOmitted, RuntimeField, InCompileTime, InRuntime, IInv, PlaceInv
  <1>2. UNCHANGED <<parse, level, plevel>>
    BY DEF FieldsStep, ExactMatch, UnknownFieldOrTypeMismatch, SchemaFieldOmitted, BehindLastField,
       RuntimeOmitted, RuntimeField, Advance
  <1> DEFINE S == Schema[level]
             P == payload[level]
  <1>3. /\ S \in Seq(SchemaFields) /\ Sorted(S) /\ P \in Seq(FieldTags) /\ Sorted(P)
        /\ field \in 1 .. Len(S) + 1 /\ pos \in 1 .. Len(P) + 1 /\ Len(S) \in Nat /\ Len(P) \in Nat
    BY <1>1, Shapes, FieldsShape, TagsShape DEF IInv, ParserTypeOK
  <1>4. /\ Stop(tag) <=> pos > Len(P)
        /\ pos <= Len(P) => tag = P[pos] /\ pos \in 1 .. Len(P)
        /\ tag.type \in Types => pos <= Len(P)
    <2>1. pos \in Nat /\ pos >= 1
      BY <1>3
    <2>2. tag.type \in Types => ~Stop(tag)
      BY DEF Stop, Types, Basic
    <2> QED
      BY <1>1, <1>3, <2>1, <2>2, TagFacts DEF tag
  <1>5. \A i \in 1 .. Len(S) : S[i].id \in Nat /\ S[i].type \in Types
    BY <1>3, FieldsShape, FieldShape
  <1>6. \A j \in 1 .. Len(P) : P[j].id \in Nat /\ P[j].type \in Types
    BY <1>3, TagsShape, TagShape
  <1>7. field <= Len(S) => field \in 1 .. Len(S)
    BY <1>3
  <1>8. Fields = S /\ FieldAt = S[field]
    BY DEF Fields, FieldAt
  <1> HIDE DEF S, P
  <1>9. CASE ExactMatch
    <2>1. /\ field \in 1 .. Len(S) /\ S[field].id = tag.id /\ S[field].type = tag.type
          /\ FastField(S[field]) /\ NextSchemaField /\ pos' = pos + 1
      BY <1>7, <1>8, <1>9 DEF ExactMatch, Advance
    <2>2. pos \in 1 .. Len(P) /\ tag = P[pos]
      BY <1>4, <1>5, <2>1
    <2>3. field' = field + 1
      BY <1>1, <2>1, <2>2, NextTagBehind DEF S, P
    <2> QED
      BY <1>1, <1>2, <2>1, <2>2, <2>3 DEF Matched, S, P
  <1>10. CASE UnknownFieldOrTypeMismatch
    <2>1. /\ field \in 1 .. Len(S) /\ ~(S[field].id = tag.id /\ S[field].type = tag.type)
          /\ S[field].id >= tag.id /\ ~Stop(tag)
          /\ IF S[field].type \in Basic /\ tag.id = S[field].id /\ tag.type \in Basic
             THEN ValueField(tag) ELSE UnknownTag(tag)
          /\ NextSchemaField /\ pos' = pos + 1
      BY <1>7, <1>8, <1>10 DEF UnknownFieldOrTypeMismatch, Advance
    <2>2. pos \in 1 .. Len(P) /\ tag = P[pos]
      BY <1>3, <1>4, <2>1
    <2>3. CASE S[field].id = P[pos].id
      <3>1. field' = field + 1
        BY <1>1, <2>1, <2>2, <2>3, NextTagBehind DEF S, P
      <3>2. S[field].type # P[pos].type
        BY <2>1, <2>2, <2>3
      <3>3. ~(S[field].type \in Basic /\ P[pos].type \in Basic) => ~Matches(P[pos].type, S[field].type)
        BY <3>2 DEF Matches, Basic
      <3>4. \/ ValueField(P[pos])
            \/ ~Matches(P[pos].type, S[field].type) /\ UnknownTag(P[pos])
        BY <2>1, <2>2, <2>3, <3>3
      <3> QED
        BY <1>1, <1>2, <2>1, <2>2, <2>3, <3>1, <3>2, <3>4 DEF Matched, S, P
    <2>4. CASE S[field].id # P[pos].id
      <3>1. P[pos].id < S[field].id /\ UnknownTag(P[pos])
        BY <1>5, <1>6, <2>1, <2>2, <2>4
      <3>2. field' = field \/ (field' = field + 1 /\ (pos + 1 \in 1 .. Len(P) => S[field].id < P[pos + 1].id))
        <4>1. pos + 1 \in 1 .. Len(P) => Tag(plevel, pos + 1) = P[pos + 1] /\ ~Stop(Tag(plevel, pos + 1))
          BY <1>1, <1>3, TagFacts DEF P
        <4> QED
          BY <1>8, <2>1, <4>1 DEF NextSchemaField
      <3> QED
        BY <1>1, <1>2, <2>1, <2>2, <3>1, <3>2 DEF Passed, S, P
    <2> QED
      BY <2>3, <2>4
  <1>11. CASE SchemaFieldOmitted \/ RuntimeOmitted
    <2>1. /\ field \in 1 .. Len(S) /\ (S[field].id < tag.id \/ Stop(tag))
          /\ OmittedField(S[field]) /\ field' = field + 1 /\ pos' = pos
      BY <1>7, <1>8, <1>11 DEF SchemaFieldOmitted, RuntimeOmitted
    <2>2. pos \in 1 .. Len(P) => S[field].id < P[pos].id
      BY <1>3, <1>4, <2>1
    <2> QED
      BY <1>1, <1>2, <2>1, <2>2 DEF Skipped, S, P
  <1>12. CASE BehindLastField
    <2>1. ~(field \in 1 .. Len(S)) /\ ~Stop(tag) /\ UnknownTag(tag) /\ pos' = pos + 1 /\ field' = field
      BY <1>3, <1>8, <1>12 DEF BehindLastField, Advance
    <2>2. pos \in 1 .. Len(P) /\ tag = P[pos]
      BY <1>3, <1>4, <2>1
    <2> QED
      BY <1>1, <1>2, <2>1, <2>2 DEF Passed, S, P
  <1>13. CASE RuntimeField
    <2>1. /\ mode = "runtime" /\ ~Stop(tag) /\ pos' = pos + 1
          /\ field <= Len(S) => S[field].id >= tag.id
          /\ IF field <= Len(S) /\ S[field].id = tag.id
             THEN /\ field' = field + 1
                  /\ IF tag.type \in Basic \/ S[field].type = tag.type THEN ValueField(tag) ELSE UnknownTag(tag)
             ELSE field' = field /\ UnknownTag(tag)
      BY <1>8, <1>13 DEF RuntimeField, InRuntime, Advance
    <2>2. pos \in 1 .. Len(P) /\ tag = P[pos]
      BY <1>3, <1>4, <2>1
    <2>3. CASE field <= Len(S) /\ S[field].id = P[pos].id
      <3>1. ~(P[pos].type \in Basic \/ S[field].type = P[pos].type) => ~Matches(P[pos].type, S[field].type)
        BY DEF Matches, Basic
      <3>2. \/ ValueField(P[pos])
            \/ ~Matches(P[pos].type, S[field].type) /\ UnknownTag(P[pos])
        BY <2>1, <2>2, <2>3, <3>1
      <3> QED
        BY <1>1, <1>2, <1>7, <2>1, <2>2, <2>3, <3>2 DEF Matched, S, P
    <2>4. CASE ~(field <= Len(S) /\ S[field].id = P[pos].id)
      <3>1. UnknownTag(P[pos]) /\ field' = field
        BY <2>1, <2>2, <2>4
      <3>2. field \in 1 .. Len(S) => P[pos].id < S[field].id
        BY <1>5, <1>6, <2>1, <2>2, <2>4
      <3> QED
        BY <1>1, <1>2, <2>1, <2>2, <3>1, <3>2 DEF Passed, S, P
    <2> QED
      BY <2>3, <2>4
  <1> QED
    BY <1>1, <1>2, <1>9, <1>10, <1>11, <1>12, <1>13 DEF FieldsStep
-----------------------------------------------------------------------------
(* An iteration keeps the two sequences in step.                           *)
LEMMA Walk ==
    ASSUME IInv, phase = "fields", plevel = level, Skipped \/ Matched \/ Passed
    PROVE  /\ Cross(Schema[level], payload[level], field', pos')
           /\ field' \in 1 .. Len(Schema[level]) + 1 /\ pos' \in 1 .. Len(payload[level]) + 1
  <1> DEFINE S == Schema[level]
             P == payload[level]
  <1>1. /\ S \in Seq(SchemaFields) /\ Sorted(S) /\ P \in Seq(FieldTags) /\ Sorted(P)
        /\ Len(S) \in Nat /\ Len(P) \in Nat /\ field \in 1 .. Len(S) + 1 /\ pos \in 1 .. Len(P) + 1
    BY Shapes, FieldsShape, TagsShape DEF IInv, ParserTypeOK
  <1>2. Cross(S, P, field, pos)
    BY DEF IInv, CrossInv
  <1>3. CASE Skipped
    <2>1. /\ field \in 1 .. Len(S) /\ field' = field + 1 /\ pos' = pos
          /\ pos <= Len(P) => S[field].id < P[pos].id
      BY <1>1, <1>3 DEF Skipped
    <2>2. Cross(S, P, field + 1, pos)
      BY <1>1, <1>2, <2>1, CrossField
    <2> QED
      BY <1>1, <2>1, <2>2
  <1>4. CASE Matched
    <2>1. /\ field \in 1 .. Len(S) /\ pos \in 1 .. Len(P) /\ S[field].id = P[pos].id
          /\ field' = field + 1 /\ pos' = pos + 1
      BY <1>4 DEF Matched
    <2>2. Cross(S, P, field + 1, pos + 1)
      BY <1>1, <1>2, <2>1, CrossBoth
    <2> QED
      BY <1>1, <2>1, <2>2
  <1>5. CASE Passed
    <2>1. /\ pos \in 1 .. Len(P) /\ pos' = pos + 1
          /\ field <= Len(S) => P[pos].id < S[field].id
      BY <1>1, <1>5 DEF Passed
    <2>2. Cross(S, P, field, pos + 1)
      BY <1>1, <1>2, <2>1, CrossTag
    <2>3. CASE field' = field
      BY <1>1, <2>1, <2>2, <2>3
    <2>4. CASE /\ field \in 1 .. Len(S) /\ field' = field + 1
               /\ pos + 1 \in 1 .. Len(P) => S[field].id < P[pos + 1].id
      <3>1. pos + 1 \in 1 .. Len(P) + 1 /\ (pos + 1 <= Len(P) => S[field].id < P[pos + 1].id)
        BY <1>1, <2>1, <2>4
      <3>2. Cross(S, P, field + 1, pos + 1)
        BY <1>1, <2>2, <2>4, <3>1, CrossField
      <3> QED
        BY <1>1, <2>1, <2>4, <3>2
    <2> QED
      BY <1>5, <2>3, <2>4 DEF Passed
  <1> QED
    BY <1>3, <1>4, <1>5

-----------------------------------------------------------------------------
(* What the writing transforms do in an iteration: nothing, as the object  *)
(* lacks the field; the object's field is written; the tag is passed on.   *)
TagAppended(O, r) == [O EXCEPT ![Len(O)] = Append(@, r)]

LEMMA TagAppendedFacts ==
    ASSUME NEW O \in Seq(Seq(OutTags)), Len(O) >= 1, NEW r \in OutTags
    PROVE  /\ TagAppended(O, r) \in Seq(Seq(OutTags))
           /\ Len(TagAppended(O, r)) = Len(O)
           /\ TagAppended(O, r)[Len(O)] = Append(O[Len(O)], r)
           /\ \A l \in 1 .. Len(O) - 1 : TagAppended(O, r)[l] = O[l]
  <1>1. Len(O) \in 1 .. Len(O) /\ O[Len(O)] \in Seq(OutTags)
    OBVIOUS
  <1>2. Append(O[Len(O)], r) \in Seq(OutTags)
    BY <1>1
  <1> DEFINE N == [O EXCEPT ![Len(O)] = Append(O[Len(O)], r)]
  <1>3. N \in Seq(Seq(OutTags)) /\ Len(N) = Len(O) /\ N[Len(O)] = Append(O[Len(O)], r)
        /\ \A l \in 1 .. Len(O) - 1 : N[l] = O[l]
    BY <1>1, <1>2
  <1>4. N = TagAppended(O, r)
    BY DEF TagAppended
  <1> QED
    BY <1>3, <1>4

LEMMA LevelAddedFacts ==
    ASSUME NEW O \in Seq(Seq(OutTags))
    PROVE  /\ Append(O, <<>>) \in Seq(Seq(OutTags))
           /\ Len(Append(O, <<>>)) = Len(O) + 1
           /\ Append(O, <<>>)[Len(O) + 1] = <<>>
           /\ \A l \in 1 .. Len(O) : Append(O, <<>>)[l] = O[l]
  <1>1. <<>> \in Seq(OutTags)
    OBVIOUS
  <1> QED
    BY <1>1

PassesIt ==
    \/ pos' = pos
    \/ pos' = pos + 1 /\ pos \in 1 .. Len(payload[level]) /\ payload[level][pos].id = Schema[level][field].id

OmitsField ==
    /\ outTags' = outTags /\ field \in 1 .. Len(Schema[level]) /\ field' = field + 1 /\ PassesIt
    /\ transform = "Serializer" => pos' = pos
    /\ transform = "Merger" => <<level, Schema[level][field].id>> \notin object

WritesField(r) ==
    /\ outTags' = TagAppended(outTags, r) /\ field \in 1 .. Len(Schema[level]) /\ field' = field + 1 /\ PassesIt
    /\ transform = "Merger" /\ r.id = Schema[level][field].id /\ r.from # "payload"

WritesTag(r) ==
    /\ outTags' = TagAppended(outTags, r) /\ pos \in 1 .. Len(payload[level]) /\ pos' = pos + 1
    /\ r.id = payload[level][pos].id /\ r.type = payload[level][pos].type
    /\ transform = "Merger" => r = [id |-> payload[level][pos].id, type |-> payload[level][pos].type, from |-> "payload"]
    /\ \/ field' = field
       \/ /\ field \in 1 .. Len(Schema[level]) /\ field' = field + 1
          /\ \/ payload[level][pos].id < Schema[level][field].id
             \/ /\ payload[level][pos].id = Schema[level][field].id
                /\ transform = "Merger" => payload[level][pos].type # Schema[level][field].type

LEMMA OutTagShape ==
    ASSUME NEW t, t \in SchemaFields \/ t \in FieldTags, NEW from \in {"payload", "object", "merged"}
    PROVE  /\ [id |-> t.id, type |-> t.type, from |-> from] \in OutTags
           /\ [id |-> t.id, type |-> t.type, from |-> from].id = t.id
           /\ [id |-> t.id, type |-> t.type, from |-> from].type = t.type
           /\ [id |-> t.id, type |-> t.type, from |-> from].from = from
  <1>1. t.id \in 0 .. Invalid /\ t.type \in Types
    BY FieldShape, TagShape, InvalidIsNat
  <1> QED
    BY <1>1 DEF OutTags

LEMMA WriteTagFacts ==
    ASSUME NEW t, t \in SchemaFields \/ t \in FieldTags, NEW from \in {"payload", "object", "merged"},
           WriteTag(t, from)
    PROVE  /\ outTags' = TagAppended(outTags, [id |-> t.id, type |-> t.type, from |-> from])
           /\ UNCHANGED <<phase, required, assigned>>
  BY DEF WriteTag, WithTag, TagAppended

LEMMA WriterEffects ==
    ASSUME IInv, transform # "To", phase = "fields", plevel = level, Skipped \/ Matched \/ Passed
    PROVE  /\ UNCHANGED <<phase, required, assigned>>
           /\ OmitsField \/ \E r \in OutTags : WritesField(r) \/ WritesTag(r)
  <1> DEFINE S == Schema[level]
             P == payload[level]
             f == S[field]
             t == P[pos]
  <1>1. /\ S \in Seq(SchemaFields) /\ P \in Seq(FieldTags)
        /\ field \in 1 .. Len(S) => f \in SchemaFields
        /\ pos \in 1 .. Len(P) => t \in FieldTags
    BY Shapes, FieldsShape, TagsShape DEF IInv, ParserTypeOK
  <1>2. transform \in {"Serializer", "Merger"} /\ (transform = "Merger" => mode = "compile")
    BY DEF IInv, ParserTypeOK, Transforms
  <1>3. ASSUME NEW b \in BOOLEAN, transform = "Merger", field \in 1 .. Len(S), WriteObject(f, b),
               field' = field + 1, PassesIt
        PROVE  UNCHANGED <<phase, required, assigned>> /\ (OmitsField \/ \E r \in OutTags : WritesField(r))
    <2>1. ASSUME NEW from \in {"object", "merged"}, WriteTag(f, from)
          PROVE  UNCHANGED <<phase, required, assigned>> /\ \E r \in OutTags : WritesField(r)
      <3> DEFINE r == [id |-> f.id, type |-> f.type, from |-> from]
      <3>1. r \in OutTags /\ r.id = f.id /\ r.from # "payload"
        BY <1>1, <1>3, <2>1, OutTagShape
      <3>2. outTags' = TagAppended(outTags, r) /\ UNCHANGED <<phase, required, assigned>>
        BY <1>1, <1>3, <2>1, WriteTagFacts
      <3> HIDE DEF r
      <3>3. WritesField(r)
        BY <1>3, <3>1, <3>2 DEF WritesField
      <3> QED
        BY <3>1, <3>2, <3>3
    <2>2. CASE OmitField(f) /\ Ignore
      BY <1>2, <1>3, <2>2 DEF OmitField, Ignore, OmitsField
    <2> QED
      BY <1>3, <2>1, <2>2 DEF WriteObject
  <1>4. ASSUME NEW u, u \in SchemaFields \/ u \in FieldTags, u.id = t.id, u.type = t.type,
               pos \in 1 .. Len(P), WriteTag(u, "payload"), pos' = pos + 1,
               \/ field' = field
               \/ /\ field \in 1 .. Len(S) /\ field' = field + 1
                  /\ t.id < f.id \/ (t.id = f.id /\ (transform = "Merger" => t.type # f.type))
        PROVE  UNCHANGED <<phase, required, assigned>> /\ \E r \in OutTags : WritesTag(r)
    <2> DEFINE r == [id |-> t.id, type |-> t.type, from |-> "payload"]
    <2>1. r \in OutTags /\ r.id = t.id /\ r.type = t.type
      BY <1>1, <1>4, OutTagShape
    <2>2. outTags' = TagAppended(outTags, r) /\ UNCHANGED <<phase, required, assigned>>
      BY <1>4, WriteTagFacts
    <2>3. WritesTag(r)
      <3>1. r = [id |-> payload[level][pos].id, type |-> payload[level][pos].type, from |-> "payload"]
        OBVIOUS
      <3> HIDE DEF r
      <3> QED
        BY <1>4, <2>1, <2>2, <3>1 DEF WritesTag
    <2> QED
      BY <2>1, <2>2, <2>3
  <1>5. CASE Skipped
    <2>1. field \in 1 .. Len(S) /\ OmittedField(f) /\ field' = field + 1 /\ pos' = pos /\ PassesIt
      BY <1>5 DEF Skipped, PassesIt
    <2>2. CASE transform = "Merger"
      <3>1. WriteObject(f, FALSE)
        BY <2>1, <2>2 DEF OmittedField
      <3> QED
        BY <1>3, <2>1, <2>2, <3>1
    <2>3. CASE transform = "Serializer"
      BY <1>2, <2>1, <2>3 DEF OmittedField, Ignore, OmitsField
    <2> QED
      BY <1>2, <2>2, <2>3
  <1>6. CASE Passed
    <2>1. pos \in 1 .. Len(P) /\ pos' = pos + 1 /\ WriteTag(t, "payload")
      BY <1>6 DEF Passed, UnknownTag
    <2>2. \/ field' = field
          \/ field \in 1 .. Len(S) /\ field' = field + 1 /\ t.id < f.id
      BY <1>6 DEF Passed
    <2> QED
      BY <1>1, <1>4, <2>1, <2>2
  <1>7. CASE Matched
    <2>1. /\ field \in 1 .. Len(S) /\ pos \in 1 .. Len(P) /\ f.id = t.id
          /\ field' = field + 1 /\ pos' = pos + 1 /\ PassesIt
      BY <1>7 DEF Matched, PassesIt
    <2>2. CASE f.type = t.type /\ FastField(f)
      <3>1. CASE transform = "Merger"
        <4>1. WriteObject(f, TRUE)
          BY <2>2, <3>1 DEF FastField
        <4> QED
          BY <1>3, <2>1, <3>1, <4>1
      <3>2. CASE transform = "Serializer"
        <4>1. WriteTag(f, "payload") /\ transform # "Merger"
          BY <2>2, <3>2 DEF FastField
        <4> QED
          BY <1>1, <1>4, <2>1, <2>2, <4>1
      <3> QED
        BY <1>2, <3>1, <3>2
    <2>3. CASE (mode = "compile" => f.type # t.type) /\ ValueField(t)
      <3>1. WriteTag(t, "payload") /\ (transform = "Merger" => t.type # f.type)
        BY <1>2, <2>3 DEF ValueField
      <3> QED
        BY <1>1, <1>4, <2>1, <3>1
    <2>4. CASE ~Matches(t.type, f.type) /\ UnknownTag(t)
      <3>1. WriteTag(t, "payload") /\ t.type # f.type
        BY <2>4 DEF UnknownTag, Matches
      <3> QED
        BY <1>1, <1>4, <2>1, <3>1
    <2> QED
      BY <1>7, <2>2, <2>3, <2>4 DEF Matched
  <1> QED
    BY <1>5, <1>6, <1>7
-----------------------------------------------------------------------------
(* Where a written tag belongs: behind what was written, before the rest.  *)
LEMMA OrderedWrite ==
    ASSUME NEW S \in Seq(SchemaFields), NEW P \in Seq(FieldTags), NEW Q \in Seq(OutTags), NEW r \in OutTags,
           NEW f \in Nat, NEW p \in Nat, NEW g \in Nat, NEW q \in Nat, g >= f, q >= p,
           Sorted(S), Sorted(P), Sorted(Q), Before(Q, P, p), Before(Q, S, f), Cross(S, P, g, q),
           \/ f \in 1 .. Len(S) /\ f < g /\ r.id = S[f].id
           \/ p \in 1 .. Len(P) /\ p < q /\ r.id = P[p].id
    PROVE  /\ Sorted(Append(Q, r))
           /\ Before(Append(Q, r), P, q)
           /\ Before(Append(Q, r), S, g)
  <1>1. Len(S) \in Nat /\ Len(P) \in Nat
    OBVIOUS
  <1>2. \A k \in 1 .. Len(Q) : Q[k].id < r.id
    BY <1>1 DEF Before
  <1>3. \A j \in 1 .. Len(P) : j >= q => r.id < P[j].id
    BY <1>1 DEF Cross, Sorted
  <1>4. \A i \in 1 .. Len(S) : i >= g => r.id < S[i].id
    BY <1>1 DEF Cross, Sorted
  <1>5. Before(Q, P, q) /\ Before(Q, S, g)
    BY <1>1, BeforeLater
  <1> QED
    BY <1>2, <1>3, <1>4, <1>5, AppendOrdered, AppendBefore

(* A field left behind is settled: it is default, written or excused.      *)
LEMMA SettledNext ==
    ASSUME NEW S, NEW P, NEW Q, NEW O, NEW l, NEW f \in Nat, Len(S) \in Nat, Settled(S, P, Q, O, l, f),
           f \in 1 .. Len(S) /\ <<l, S[f].id>> \in O =>
               Written(Q, S[f].id) \/ Excused(S, P, S[f].id, S[f].type)
    PROVE  Settled(S, P, Q, O, l, f + 1)
  <1>1. \A i \in 1 .. Len(S) : i < f + 1 => i < f \/ i = f
    OBVIOUS
  <1> QED
    BY <1>1 DEF Settled

LEMMA AppendSettled ==
    ASSUME NEW S, NEW P, NEW Q \in Seq(OutTags), NEW r \in OutTags, NEW O, NEW l, NEW f,
           Settled(S, P, Q, O, l, f)
    PROVE  Settled(S, P, Append(Q, r), O, l, f)
  BY AppendWritten DEF Settled

(* The two excuses of a Merger.                                            *)
LEMMA ExcusedBy ==
    ASSUME NEW S \in Seq(SchemaFields), NEW P \in Seq(FieldTags), Sorted(S),
           NEW f \in 1 .. Len(S), NEW p \in 1 .. Len(P), Cross(S, P, f, p),
           \/ P[p].id < S[f].id
           \/ P[p].id = S[f].id /\ P[p].type # S[f].type
    PROVE  Excused(S, P, S[f].id, S[f].type)
  <1>1. Len(S) \in Nat /\ \A i \in 1 .. Len(S) : S[i].id \in Nat
    BY FieldsShape
  <1>2. ASSUME NEW s \in Ids(S), s < S[f].id
        PROVE  s < P[p].id
    <2>1. PICK i \in 1 .. Len(S) : s = S[i].id
      BY DEF Ids
    <2>2. i < f
      <3>1. ~(f < i) /\ i # f
        BY <1>1, <1>2, <2>1 DEF Sorted
      <3> QED
        BY <1>1, <3>1
    <2> QED
      BY <2>1, <2>2 DEF Cross
  <1> QED
    BY <1>2 DEF Excused

WriterInv == OrderInv /\ SerializerInv /\ KeptInv /\ LossInv

LEMMA WriterFields ==
    ASSUME IInv, transform # "To", FieldsStep
    PROVE  /\ WriterInv'
           /\ outTags' \in Seq(Seq(OutTags)) /\ Len(outTags') = plevel'
           /\ UNCHANGED <<phase, required, assigned>>
  <1> DEFINE S == Schema[level]
             P == payload[level]
             Q == outTags[level]
  <1>1. /\ phase = "fields" /\ plevel = level /\ (Skipped \/ Matched \/ Passed)
        /\ mode' = mode /\ transform' = transform /\ depth' = depth /\ payload' = payload /\ object' = object
        /\ level' = level /\ plevel' = plevel
    BY Classify DEF parse
  <1>2. /\ UNCHANGED <<phase, required, assigned>>
        /\ OmitsField \/ \E r \in OutTags : WritesField(r) \/ WritesTag(r)
    BY <1>1, WriterEffects
  <1>3. /\ Cross(S, P, field', pos') /\ Cross(S, P, field, pos)
        /\ field' \in 1 .. Len(S) + 1 /\ pos' \in 1 .. Len(P) + 1
    BY <1>1, Walk DEF IInv, CrossInv
  <1>4. /\ S \in Seq(SchemaFields) /\ Sorted(S) /\ P \in Seq(FieldTags) /\ Sorted(P)
        /\ Len(S) \in Nat /\ Len(P) \in Nat /\ field \in 1 .. Len(S) + 1 /\ pos \in 1 .. Len(P) + 1
        /\ level \in Nat /\ level >= 1 /\ level <= Len(Schema) /\ Len(Schema) \in Nat
        /\ field \in Nat /\ pos \in Nat
    BY <1>1, Shapes, FieldsShape, TagsShape DEF IInv, ParserTypeOK
  <1>5. outTags \in Seq(Seq(OutTags)) /\ Len(outTags) = level
    BY <1>1 DEF IInv, ParserTypeOK
  <1>6. Q \in Seq(OutTags) /\ Len(Q) \in Nat
    <2>1. level \in 1 .. Len(outTags)
      BY <1>4, <1>5
    <2> QED
      BY <1>5, <2>1
  <1>7. /\ Sorted(Q) /\ Before(Q, P, pos) /\ Before(Q, S, field)
        /\ \A l \in 1 .. level - 1 : Sorted(outTags[l])
    BY <1>1, <1>4 DEF IInv, OrderInv
  <1>8. transform = "Serializer" =>
            /\ \A l \in 1 .. level - 1 : Copies(outTags[l], payload[l], Len(payload[l]))
            /\ Copies(Q, P, pos - 1)
    BY <1>1 DEF IInv, SerializerInv
  <1>9. transform = "Merger" =>
            /\ \A l \in 1 .. level - 1 : Kept(outTags[l], payload[l], Known(l), Len(payload[l]))
            /\ Kept(Q, P, Ids(S), pos - 1)
    BY <1>1, <1>4 DEF IInv, KeptInv, Known
  <1>10. transform = "Merger" =>
            /\ \A l \in 1 .. level - 1 : Settled(Schema[l], payload[l], outTags[l], object, l, Len(Schema[l]) + 1)
            /\ Settled(S, P, Q, object, level, field)
    BY DEF IInv, LossInv
  <1>11. field \in 1 .. Len(S) => S[field].id \in Ids(S)
    BY DEF Ids
  <1> DEFINE N == outTags'[level]
  <1>12. ASSUME /\ outTags' \in Seq(Seq(OutTags)) /\ Len(outTags') = level
                /\ \A l \in 1 .. level - 1 : outTags'[l] = outTags[l]
                /\ Sorted(N) /\ Before(N, P, pos') /\ Before(N, S, field')
                /\ transform = "Serializer" => Copies(N, P, pos' - 1)
                /\ transform = "Merger" => Kept(N, P, Ids(S), pos' - 1)
                /\ transform = "Merger" => Settled(S, P, N, object, level, field')
         PROVE  WriterInv' /\ outTags' \in Seq(Seq(OutTags)) /\ Len(outTags') = plevel'
    <2>1. OrderInv'
      <3>1. \A l \in 1 .. level : l = level \/ l \in 1 .. level - 1
        BY <1>4
      <3> QED
        BY <1>1, <1>2, <1>7, <1>12, <3>1 DEF OrderInv
    <2>2. SerializerInv'
      BY <1>1, <1>8, <1>12 DEF SerializerInv
    <2>3. KeptInv'
      <3>1. Known(level) = Ids(S)
        BY <1>4 DEF Known
      <3> QED
        BY <1>1, <1>9, <1>12, <3>1 DEF KeptInv, Known
    <2>4. LossInv'
      BY <1>1, <1>10, <1>12 DEF LossInv
    <2> QED
      BY <1>1, <1>12, <2>1, <2>2, <2>3, <2>4 DEF WriterInv
  <1> HIDE DEF N, S, P, Q
  <1>13. CASE OmitsField
    <2>1. /\ N = Q /\ outTags' = outTags /\ field \in 1 .. Len(S) /\ field' = field + 1
          /\ pos' = pos \/ (pos' = pos + 1 /\ pos \in 1 .. Len(P) /\ P[pos].id = S[field].id)
          /\ transform = "Serializer" => pos' = pos
          /\ transform = "Merger" => <<level, S[field].id>> \notin object
      BY <1>13 DEF OmitsField, PassesIt, N, S, P, Q
    <2>2. Before(Q, P, pos') /\ Before(Q, S, field')
      BY <1>3, <1>4, <1>7, <2>1, BeforeLater
    <2>3. transform = "Merger" => Kept(Q, P, Ids(S), pos' - 1)
      <3>1. CASE pos' = pos
        BY <1>9, <3>1
      <3>2. CASE transform = "Merger" /\ pos' = pos + 1 /\ pos \in 1 .. Len(P) /\ P[pos].id = S[field].id
        <4>1. P[pos].id \in Ids(S) /\ pos' - 1 = pos
          BY <1>4, <1>11, <2>1, <3>2
        <4> QED
          BY <1>4, <1>9, <3>2, <4>1, KeptNext
      <3> QED
        BY <2>1, <3>1, <3>2
    <2>4. transform = "Merger" => Settled(S, P, Q, object, level, field')
      BY <1>4, <1>10, <2>1, SettledNext
    <2>5. transform = "Serializer" => Copies(Q, P, pos' - 1)
      BY <1>8, <2>1
    <2>6. \A l \in 1 .. level - 1 : outTags'[l] = outTags[l]
      BY <2>1
    <2>7. outTags' \in Seq(Seq(OutTags)) /\ Len(outTags') = level
      BY <1>5, <2>1
    <2>8. N = Q
      BY <2>1
    <2> QED
      BY <1>2, <1>7, <1>12, <2>2, <2>3, <2>4, <2>5, <2>6, <2>7, <2>8
  <1>14. ASSUME NEW r \in OutTags, outTags' = TagAppended(outTags, r)
         PROVE  /\ outTags' \in Seq(Seq(OutTags)) /\ Len(outTags') = level
                /\ N = Append(Q, r)
                /\ \A l \in 1 .. level - 1 : outTags'[l] = outTags[l]
    BY <1>4, <1>5, <1>14, TagAppendedFacts DEF N, Q
  <1>15. ASSUME NEW r \in OutTags, WritesField(r)
         PROVE  WriterInv' /\ outTags' \in Seq(Seq(OutTags)) /\ Len(outTags') = plevel'
    <2>1. /\ outTags' = TagAppended(outTags, r) /\ field \in 1 .. Len(S) /\ field' = field + 1
          /\ pos' = pos \/ (pos' = pos + 1 /\ pos \in 1 .. Len(P) /\ P[pos].id = S[field].id)
          /\ transform = "Merger" /\ r.id = S[field].id /\ r.from # "payload"
      BY <1>15 DEF WritesField, PassesIt, S, P, Q
    <2>2. /\ outTags' \in Seq(Seq(OutTags)) /\ Len(outTags') = level /\ N = Append(Q, r)
          /\ \A l \in 1 .. level - 1 : outTags'[l] = outTags[l]
      BY <1>14, <2>1
    <2>3. Sorted(N) /\ Before(N, P, pos') /\ Before(N, S, field')
      <3>1. /\ field' >= field /\ pos' >= pos
            /\ field \in Nat /\ pos \in Nat /\ field' \in Nat /\ pos' \in Nat
            /\ field \in 1 .. Len(S) /\ field < field' /\ r.id = S[field].id
        BY <1>3, <1>4, <2>1
      <3>2. /\ S \in Seq(SchemaFields) /\ P \in Seq(FieldTags) /\ Q \in Seq(OutTags)
            /\ Sorted(S) /\ Sorted(P) /\ Sorted(Q)
            /\ Before(Q, P, pos) /\ Before(Q, S, field) /\ Cross(S, P, field', pos')
        BY <1>3, <1>4, <1>6, <1>7
      <3>3. Sorted(Append(Q, r)) /\ Before(Append(Q, r), P, pos') /\ Before(Append(Q, r), S, field')
        BY <3>1, <3>2, OrderedWrite
      <3> QED
        BY <2>2, <3>3
    <2>4. Kept(N, P, Ids(S), pos' - 1)
      <3>1. Kept(N, P, Ids(S), pos - 1)
        BY <1>6, <1>9, <2>1, <2>2, AppendKept
      <3>2. CASE pos' = pos
        BY <3>1, <3>2
      <3>3. CASE pos' = pos + 1 /\ pos \in 1 .. Len(P) /\ P[pos].id = S[field].id
        <4>1. P[pos].id \in Ids(S) /\ pos' - 1 = pos
          BY <1>4, <1>11, <2>1, <3>3
        <4> QED
          BY <1>4, <3>1, <3>3, <4>1, KeptNext
      <3> QED
        BY <2>1, <3>2, <3>3
    <2>5. Settled(S, P, N, object, level, field')
      <3>1. Settled(S, P, N, object, level, field)
        BY <1>6, <1>10, <2>1, <2>2, AppendSettled
      <3>2. Written(N, S[field].id)
        BY <1>6, <2>1, <2>2, AppendWritten
      <3>3. Settled(S, P, N, object, level, field + 1)
        <4>1. <<level, S[field].id>> \in object => Written(N, S[field].id)
          BY <3>2
        <4> QED
          BY <1>4, <3>1, <4>1, SettledNext
      <3> QED
        BY <2>1, <3>3
    <2> QED
      BY <1>12, <2>1, <2>2, <2>3, <2>4, <2>5
  <1>16. ASSUME NEW r \in OutTags, WritesTag(r)
         PROVE  WriterInv' /\ outTags' \in Seq(Seq(OutTags)) /\ Len(outTags') = plevel'
    <2>1. /\ outTags' = TagAppended(outTags, r) /\ pos \in 1 .. Len(P) /\ pos' = pos + 1
          /\ r.id = P[pos].id /\ r.type = P[pos].type
          /\ transform = "Merger" => r = [id |-> P[pos].id, type |-> P[pos].type, from |-> "payload"]
          /\ \/ field' = field
             \/ /\ field \in 1 .. Len(S) /\ field' = field + 1
                /\ transform = "Merger" => \/ P[pos].id < S[field].id
                                           \/ P[pos].id = S[field].id /\ P[pos].type # S[field].type
      BY <1>16 DEF WritesTag, S, P, Q
    <2>2. /\ outTags' \in Seq(Seq(OutTags)) /\ Len(outTags') = level /\ N = Append(Q, r)
          /\ \A l \in 1 .. level - 1 : outTags'[l] = outTags[l]
      BY <1>14, <2>1
    <2>3. Sorted(N) /\ Before(N, P, pos') /\ Before(N, S, field')
      <3>1. /\ field' >= field /\ pos' >= pos
            /\ field \in Nat /\ pos \in Nat /\ field' \in Nat /\ pos' \in Nat
            /\ pos \in 1 .. Len(P) /\ pos < pos' /\ r.id = P[pos].id
        BY <1>3, <1>4, <2>1
      <3>2. /\ S \in Seq(SchemaFields) /\ P \in Seq(FieldTags) /\ Q \in Seq(OutTags)
            /\ Sorted(S) /\ Sorted(P) /\ Sorted(Q)
            /\ Before(Q, P, pos) /\ Before(Q, S, field) /\ Cross(S, P, field', pos')
        BY <1>3, <1>4, <1>6, <1>7
      <3>3. Sorted(Append(Q, r)) /\ Before(Append(Q, r), P, pos') /\ Before(Append(Q, r), S, field')
        BY <3>1, <3>2, OrderedWrite
      <3> QED
        BY <2>2, <3>3
    <2>4. pos' - 1 = pos
      BY <1>4, <2>1
    <2>5. transform = "Serializer" => Copies(N, P, pos' - 1)
      BY <1>4, <1>6, <1>8, <2>1, <2>2, <2>4, AppendCopies
    <2>6. transform = "Merger" => Kept(N, P, Ids(S), pos' - 1)
      <3> HAVE transform = "Merger"
      <3>1. Kept(N, P, Ids(S), pos - 1)
        BY <1>6, <1>9, <2>2, AppendKept
      <3>2. Len(Q) + 1 \in 1 .. Len(N) /\ N[Len(Q) + 1] = r
        BY <1>6, <2>2, AppendTag
      <3>3. \E k \in 1 .. Len(N) : N[k] = [id |-> P[pos].id, type |-> P[pos].type, from |-> "payload"]
        BY <2>1, <3>2
      <3> QED
        BY <1>4, <2>1, <2>4, <3>1, <3>3, KeptNext
    <2>7. transform = "Merger" => Settled(S, P, N, object, level, field')
      <3> HAVE transform = "Merger"
      <3>1. Settled(S, P, N, object, level, field)
        BY <1>6, <1>10, <2>2, AppendSettled
      <3>2. CASE field' = field
        BY <3>1, <3>2
      <3>3. CASE /\ field \in 1 .. Len(S) /\ field' = field + 1
                 /\ \/ P[pos].id < S[field].id
                    \/ P[pos].id = S[field].id /\ P[pos].type # S[field].type
        <4>1. Excused(S, P, S[field].id, S[field].type)
          BY <1>3, <1>4, <2>1, <3>3, ExcusedBy
        <4>2. Settled(S, P, N, object, level, field + 1)
          BY <1>4, <3>1, <4>1, SettledNext
        <4> QED
          BY <3>3, <4>2
      <3> QED
        BY <2>1, <3>2, <3>3
    <2> QED
      BY <1>12, <2>1, <2>2, <2>3, <2>5, <2>6, <2>7
  <1> QED
    BY <1>2, <1>13, <1>15, <1>16
-----------------------------------------------------------------------------
(* What To does in an iteration: the field is assigned if a tag with its   *)
(* id and a matching type was read; nothing happens otherwise.             *)
LEMMA ToEffects ==
    ASSUME IInv, transform = "To", phase = "fields", plevel = level, Skipped \/ Matched \/ Passed
    PROVE  \/ (Skipped \/ Passed) /\ Ignore
           \/ Matched /\ ~Matches(payload[level][pos].type, Schema[level][field].type) /\ Ignore
           \/ /\ Matched /\ Matches(payload[level][pos].type, Schema[level][field].type)
              /\ AssignField(Schema[level][field])
  <1> DEFINE S == Schema[level]
             P == payload[level]
             f == S[field]
             t == P[pos]
  <1>1. S \in Seq(SchemaFields) /\ Sorted(S) /\ Len(S) \in Nat /\ \A i \in 1 .. Len(S) : S[i].id \in Nat
    BY Shapes, FieldsShape
  <1>2. CASE Skipped
    BY <1>2 DEF Skipped, OmittedField
  <1>3. CASE Passed
    BY <1>3 DEF Passed, UnknownTag
  <1>4. CASE Matched
    <2>1. field \in 1 .. Len(S) /\ f.id = t.id
      BY <1>4 DEF Matched
    <2>2. CASE f.type = t.type /\ FastField(f)
      BY <1>4, <2>2 DEF FastField, Matches
    <2>3. CASE ValueField(t)
      <3>1. CASE \E i \in 1 .. Len(S) : S[i].id = t.id /\ Matches(t.type, S[i].type) /\ AssignField(S[i])
        <4>1. PICK i \in 1 .. Len(S) : S[i].id = t.id /\ Matches(t.type, S[i].type) /\ AssignField(S[i])
          BY <3>1
        <4>2. i = field
          BY <1>1, <2>1, <4>1, SortedUnique
        <4> QED
          BY <1>4, <4>1, <4>2
      <3>2. CASE /\ ~\E i \in 1 .. Len(S) : S[i].id = t.id /\ Matches(t.type, S[i].type)
                 /\ Ignore
        BY <1>4, <2>1, <3>2
      <3> QED
        BY <2>3, <3>1, <3>2 DEF ValueField, Fields
    <2>4. CASE ~Matches(t.type, f.type) /\ UnknownTag(t)
      BY <1>4, <2>4 DEF UnknownTag
    <2> QED
      BY <1>4, <2>2, <2>3, <2>4 DEF Matched
  <1> QED
    BY <1>2, <1>3, <1>4

(* What a tag makes readable: its field if the types match, or nothing.    *)
LEMMA HeldMatched ==
    ASSUME NEW S \in Seq(SchemaFields), NEW P \in Seq(FieldTags), Sorted(S),
           NEW f \in 1 .. Len(S), NEW p \in 1 .. Len(P), S[f].id = P[p].id, NEW x
    PROVE  Held(S, P, x, p) <=> Held(S, P, x, p - 1) \/ (x = S[f].id /\ Matches(P[p].type, S[f].type))
  <1>1. Len(S) \in Nat /\ \A k \in 1 .. Len(S) : S[k].id \in Nat
    BY FieldsShape
  <1>2. \A i \in 1 .. Len(S) : S[i].id = P[p].id => i = f
    BY <1>1, SortedUnique
  <1> QED
    BY <1>2, HeldNext

LEMMA HeldPassed ==
    ASSUME NEW S \in Seq(SchemaFields), NEW P \in Seq(FieldTags), Sorted(S),
           NEW f \in 1 .. Len(S) + 1, NEW p \in 1 .. Len(P), Cross(S, P, f, p),
           f \in 1 .. Len(S) => P[p].id < S[f].id, NEW x
    PROVE  Held(S, P, x, p) <=> Held(S, P, x, p - 1)
  <1>1. /\ Len(S) \in Nat /\ \A k \in 1 .. Len(S) : S[k].id \in Nat
        /\ P[p].id \in Nat
    BY FieldsShape, TagsShape
  <1>2. ASSUME NEW i \in 1 .. Len(S)
        PROVE  S[i].id # P[p].id
    <2>1. CASE i < f
      BY <1>1, <2>1 DEF Cross
    <2>2. CASE i = f
      BY <1>1, <2>2
    <2>3. CASE i > f
      <3>1. f \in 1 .. Len(S)
        BY <1>1, <2>3
      <3> QED
        BY <1>1, <2>3, <3>1 DEF Sorted
    <2> QED
      BY <1>1, <2>1, <2>2, <2>3
  <1> QED
    BY <1>2, HeldNext

-----------------------------------------------------------------------------
(* RequiredFieldValiadator: validation of a field moves on to the next     *)
(* required one, and finding another one than awaited means that the       *)
(* awaited one is not in the payload.                                      *)
LEMMA AwaitsNext ==
    ASSUME NEW S \in Seq(SchemaFields), NEW l, NEW r \in Nat, NEW A, Awaits(S, l, r, A), Sorted(S),
           NEW f \in 1 .. Len(S), S[f].required => r = S[f].id
    PROVE  Awaits(S, l, IF S[f].required THEN NextRequired(S, S[f].id + 1) ELSE r, A \cup {<<l, S[f].id>>})
  <1>1. Len(S) \in Nat /\ \A k \in 1 .. Len(S) : S[k].id \in Nat /\ S[k].id < Invalid
    BY FieldsShape
  <1>2. \A i \in 1 .. Len(S) : S[i].id = S[f].id => i = f
    BY <1>1, SortedUnique
  <1> DEFINE B == A \cup {<<l, S[f].id>>}
  <1>3. \A i \in 1 .. Len(S) : <<l, S[i].id>> \in B <=> <<l, S[i].id>> \in A \/ S[i].id = S[f].id
    OBVIOUS
  <1>4. CASE ~S[f].required
    <2>1. \A i \in 1 .. Len(S) : S[i].required => (<<l, S[i].id>> \in B <=> <<l, S[i].id>> \in A)
      BY <1>2, <1>3, <1>4
    <2> HIDE DEF B
    <2>2. Awaits(S, l, r, B)
      BY <2>1 DEF Awaits
    <2> QED
      BY <1>4, <2>2 DEF B
  <1>5. CASE S[f].required
    <2> DEFINE n == NextRequired(S, S[f].id + 1)
    <2>1. S[f].id \in Nat /\ S[f].id + 1 \in Nat /\ r = S[f].id
      BY <1>1, <1>5
    <2>2. /\ n \in Nat
          /\ n = Invalid \/ (n >= S[f].id + 1 /\ \E i \in 1 .. Len(S) : S[i].required /\ S[i].id = n)
          /\ \A i \in 1 .. Len(S) : S[i].required /\ S[i].id >= S[f].id + 1 => n <= S[i].id
      BY <2>1, NextRequiredFacts
    <2> HIDE DEF n, B
    <2>3. n > S[f].id
      BY <1>1, <2>1, <2>2, InvalidIsNat
    <2>4. ASSUME NEW i \in 1 .. Len(S), S[i].required
          PROVE  S[i].id < n <=> <<l, S[i].id>> \in B
      <3>1. S[i].id < S[f].id <=> <<l, S[i].id>> \in A
        BY <2>1, <2>4 DEF Awaits
      <3>2. S[i].id < S[f].id \/ S[i].id = S[f].id \/ S[i].id >= S[f].id + 1
        BY <1>1
      <3>3. S[i].id >= S[f].id + 1 => n <= S[i].id
        BY <2>2, <2>4
      <3> QED
        BY <1>1, <1>3, <2>1, <2>2, <2>3, <3>1, <3>2, <3>3
    <2>5. Awaits(S, l, n, B)
      BY <2>2, <2>4 DEF Awaits
    <2> QED
      BY <1>5, <2>5 DEF n, B
  <1> QED
    BY <1>4, <1>5

LEMMA AwaitedIsMissing ==
    ASSUME NEW S \in Seq(SchemaFields), NEW P \in Seq(FieldTags), Sorted(P),
           NEW l, NEW r \in Nat, NEW A, Awaits(S, l, r, A),
           NEW f \in 1 .. Len(S), NEW p \in 1 .. Len(P), S[f].id = P[p].id, S[f].required, r # S[f].id,
           \A x \in Nat : <<l, x>> \in A <=> Held(S, P, x, p - 1)
    PROVE  \E i \in 1 .. Len(S) : S[i].required /\ ~Held(S, P, S[i].id, Len(P))
  <1>1. /\ Len(S) \in Nat /\ \A k \in 1 .. Len(S) : S[k].id \in Nat /\ S[k].id < Invalid
        /\ Len(P) \in Nat /\ \A j \in 1 .. Len(P) : P[j].id \in Nat
    BY FieldsShape, TagsShape
  <1>2. \A j \in 1 .. Len(P) : j <= p - 1 => P[j].id < P[p].id
    BY <1>1 DEF Sorted
  <1>3. \A j \in 1 .. Len(P) : j > p - 1 => P[j].id >= P[p].id
    <2>1. \A j \in 1 .. Len(P) : j > p - 1 => j = p \/ p < j
      BY <1>1
    <2> QED
      BY <1>1, <2>1 DEF Sorted
  <1>4. ~Held(S, P, S[f].id, p - 1)
    BY <1>1, <1>2 DEF Held
  <1>5. r < S[f].id
    <2>1. ~(S[f].id < r)
      BY <1>1, <1>4 DEF Awaits
    <2> QED
      BY <1>1, <2>1
  <1>6. PICK i \in 1 .. Len(S) : S[i].required /\ S[i].id = r
    BY <1>1, <1>5, InvalidIsNat DEF Awaits
  <1>7. ~Held(S, P, r, p - 1)
    <2>1. S[i].id < r <=> <<l, S[i].id>> \in A
      BY <1>6 DEF Awaits
    <2>2. <<l, r>> \notin A
      BY <1>6, <2>1
    <2> QED
      BY <2>2
  <1>8. ~Held(S, P, r, Len(P))
    <2>1. \A j \in 1 .. Len(P) : P[j].id = r => j <= p - 1
      BY <1>1, <1>3, <1>5
    <2> QED
      BY <1>7, <2>1 DEF Held
  <1> QED
    BY <1>6, <1>8
-----------------------------------------------------------------------------
ToInv == AssignInv /\ RequiredInv /\ FailureInv

LEMMA ToFields ==
    ASSUME IInv, transform = "To", FieldsStep
    PROVE  /\ ToInv'
           /\ required' \in Nat /\ assigned' \subseteq Nat \X Nat
           /\ outTags' = outTags /\ phase' \in {"fields", "exception"}
  <1> DEFINE S == Schema[level]
             P == payload[level]
             f == S[field]
             t == P[pos]
  <1>1. /\ phase = "fields" /\ plevel = level /\ (Skipped \/ Matched \/ Passed)
        /\ mode' = mode /\ transform' = transform /\ depth' = depth /\ payload' = payload /\ object' = object
        /\ level' = level /\ plevel' = plevel
    BY Classify DEF parse
  <1>2. /\ S \in Seq(SchemaFields) /\ Sorted(S) /\ P \in Seq(FieldTags) /\ Sorted(P)
        /\ Len(S) \in Nat /\ Len(P) \in Nat /\ field \in 1 .. Len(S) + 1 /\ pos \in 1 .. Len(P) + 1
        /\ level \in Nat /\ level >= 1 /\ level \in 1 .. depth /\ Cross(S, P, field, pos)
        /\ required \in Nat /\ assigned \subseteq Nat \X Nat
    BY <1>1, Shapes, FieldsShape, TagsShape DEF IInv, ParserTypeOK, CrossInv
  <1>3. \A l, x \in Nat : <<l, x>> \in assigned <=>
            /\ l \in 1 .. level
            /\ Held(Schema[l], payload[l], x, IF l = level THEN pos - 1 ELSE Len(payload[l]))
    BY <1>1 DEF IInv, AssignInv, Read
  <1>4. /\ Awaits(S, level, required, assigned)
        /\ \A l \in 1 .. level - 1 : \A i \in 1 .. Len(Schema[l]) :
               Schema[l][i].required => <<l, Schema[l][i].id>> \in assigned
    BY <1>1 DEF IInv, RequiredInv
  <1>5. ASSUME NEW A, A = assigned', phase' = phase, Awaits(S, level, required', A), assigned \subseteq A,
               \A l, x \in Nat : <<l, x>> \in A <=>
                   \/ <<l, x>> \in assigned
                   \/ l = level /\ Held(S, P, x, pos' - 1),
               \A x \in Nat : Held(S, P, x, pos - 1) => Held(S, P, x, pos' - 1)
        PROVE  ToInv'
    <2>1. AssignInv'
      <3> SUFFICES ASSUME NEW l \in Nat, NEW x \in Nat
                   PROVE  <<l, x>> \in A <=>
                              /\ l \in 1 .. level
                              /\ Held(Schema[l], payload[l], x, IF l = level THEN pos' - 1 ELSE Len(payload[l]))
        BY <1>1, <1>5 DEF AssignInv, Read
      <3>1. CASE l = level
        BY <1>2, <1>3, <1>5, <3>1
      <3>2. CASE l # level
        BY <1>2, <1>3, <1>5, <3>2
      <3> QED
        BY <3>1, <3>2
    <2>2. RequiredInv'
      BY <1>1, <1>4, <1>5 DEF RequiredInv
    <2>3. FailureInv'
      BY <1>1, <1>5 DEF FailureInv
    <2> QED
      BY <2>1, <2>2, <2>3 DEF ToInv
  <1>6. \A x \in Nat : <<level, x>> \in assigned <=> Held(S, P, x, pos - 1)
    BY <1>2, <1>3
  <1> HIDE DEF S, P, f, t
  <1>7. ASSUME Ignore, \A x \in Nat : Held(S, P, x, pos' - 1) <=> Held(S, P, x, pos - 1)
        PROVE  /\ ToInv' /\ required' \in Nat /\ assigned' \subseteq Nat \X Nat
               /\ outTags' = outTags /\ phase' \in {"fields", "exception"}
    <2>1. /\ phase' = phase /\ required' = required /\ assigned' = assigned /\ outTags' = outTags
      BY <1>7 DEF Ignore
    <2>2. Awaits(S, level, required', assigned')
      BY <1>4, <2>1 DEF S
    <2>3. \A l, x \in Nat : <<l, x>> \in assigned' <=>
                   \/ <<l, x>> \in assigned
                   \/ l = level /\ Held(S, P, x, pos' - 1)
      BY <1>6, <1>7, <2>1
    <2>4. ToInv'
      BY <1>5, <1>7, <2>1, <2>2, <2>3 DEF S, P
    <2> QED
      BY <1>1, <1>2, <2>1, <2>4
  <1>8. CASE Skipped /\ Ignore
    <2>1. pos' = pos
      BY <1>8 DEF Skipped
    <2> QED
      BY <1>7, <1>8, <2>1
  <1>9. CASE Passed /\ Ignore
    <2>1. pos \in 1 .. Len(P) /\ pos' = pos + 1 /\ (field \in 1 .. Len(S) => P[pos].id < S[field].id)
      BY <1>9 DEF Passed, S, P
    <2>2. pos' - 1 = pos
      BY <1>2, <2>1
    <2>3. \A x \in Nat : Held(S, P, x, pos) <=> Held(S, P, x, pos - 1)
      BY <1>2, <2>1, HeldPassed DEF S, P
    <2> QED
      BY <1>7, <1>9, <2>2, <2>3
  <1>10. CASE Matched
    <2>1. field \in 1 .. Len(S) /\ pos \in 1 .. Len(P) /\ f.id = t.id /\ pos' = pos + 1
      BY <1>10 DEF Matched, S, P, f, t
    <2>2. pos' - 1 = pos
      BY <1>2, <2>1 DEF S, P
    <2>3. \A x \in Nat : Held(S, P, x, pos) <=> Held(S, P, x, pos - 1) \/ (x = f.id /\ Matches(t.type, f.type))
      BY <1>2, <2>1, HeldMatched DEF S, P, f, t
    <2>4. CASE ~Matches(t.type, f.type) /\ Ignore
      BY <1>7, <2>2, <2>3, <2>4
    <2>5. CASE Matches(t.type, f.type) /\ AssignField(f)
      <3>0. f.id \in Nat
        BY <1>2, <2>1, FieldsShape DEF S, f
      <3>1. CASE f.required /\ required # f.id
        <4>1. phase' = "exception" /\ required' = required /\ assigned' = assigned /\ outTags' = outTags
          BY <2>5, <3>1 DEF AssignField
        <4>2. \E i \in 1 .. Len(S) : S[i].required /\ ~Held(S, P, S[i].id, Len(P))
          BY <1>2, <1>4, <1>6, <2>1, <3>1, AwaitedIsMissing DEF S, P, f, t
        <4>3. FailureInv'
          BY <1>1, <1>2, <4>2 DEF FailureInv, S, P
        <4>4. AssignInv' /\ RequiredInv'
          BY <4>1 DEF AssignInv, RequiredInv
        <4> QED
          BY <1>2, <4>1, <4>3, <4>4 DEF ToInv
      <3>2. CASE ~(f.required /\ required # f.id)
        <4>1. /\ required' = IF f.required THEN NextRequired(S, f.id + 1) ELSE required
              /\ assigned' = assigned \cup {<<level, f.id>>}
              /\ phase' = phase /\ outTags' = outTags
          BY <2>5, <3>2 DEF AssignField, Fields, S
        <4>2. Awaits(S, level, required', assigned')
          <5>1. Awaits(S, level, IF f.required THEN NextRequired(S, f.id + 1) ELSE required,
                       assigned \cup {<<level, f.id>>})
            BY <1>2, <1>4, <2>1, <3>2, AwaitsNext DEF S, f
          <5> QED
            BY <4>1, <5>1
        <4>3. required' \in Nat
          <5>1. NextRequired(S, f.id + 1) \in Nat
            BY <1>2, <3>0, NextRequiredFacts DEF S
          <5> QED
            BY <1>2, <4>1, <5>1
        <4>4. assigned' \subseteq Nat \X Nat
          BY <1>2, <3>0, <4>1
        <4>5. \A l, x \in Nat : <<l, x>> \in assigned' <=>
                   \/ <<l, x>> \in assigned
                   \/ l = level /\ Held(S, P, x, pos' - 1)
          <5>1. \A l, x \in Nat : <<l, x>> \in assigned' <=> <<l, x>> \in assigned \/ (l = level /\ x = f.id)
            BY <4>1
          <5>2. \A x \in Nat : Held(S, P, x, pos' - 1) <=> <<level, x>> \in assigned \/ x = f.id
            BY <1>6, <2>2, <2>3, <2>5
          <5> QED
            BY <5>1, <5>2
        <4>6. \A x \in Nat : Held(S, P, x, pos - 1) => Held(S, P, x, pos' - 1)
          BY <2>2, <2>3
        <4>7. ToInv'
          <5>1. assigned \subseteq assigned'
            BY <4>1
          <5> QED
            BY <1>5, <4>1, <4>2, <4>5, <4>6, <5>1 DEF S, P
        <4> QED
          BY <1>1, <4>1, <4>3, <4>4, <4>7
      <3> QED
        BY <3>1, <3>2
    <2> QED
      BY <1>1, <1>8, <1>9, <1>10, <2>4, <2>5, ToEffects DEF S, P, f, t
  <1> QED
    BY <1>1, <1>8, <1>9, <1>10, ToEffects
-----------------------------------------------------------------------------
(* The end of a struct of the payload: the output starts its next struct.  *)
LEMMA NextStruct ==
    ASSUME IInv, transform # "To", pos = Len(payload[plevel]) + 1, UNCHANGED parse,
           outTags' = Append(outTags, <<>>), plevel' = plevel + 1, pos' = 1
    PROVE  /\ outTags' \in Seq(Seq(OutTags)) /\ Len(outTags') = plevel'
           /\ \A l \in 1 .. plevel : outTags'[l] = outTags[l]
           /\ \A l \in 1 .. plevel' : Sorted(outTags'[l])
           /\ \A R, n : Before(outTags'[plevel'], R, n)
           /\ SerializerInv' /\ KeptInv'
  <1>1. /\ outTags \in Seq(Seq(OutTags)) /\ Len(outTags) = plevel /\ plevel \in Nat /\ plevel >= 1
        /\ Len(payload[plevel]) \in Nat
        /\ mode' = mode /\ transform' = transform /\ depth' = depth /\ payload' = payload /\ object' = object
    BY Shapes, TagsShape DEF IInv, ParserTypeOK, parse
  <1>2. /\ outTags' \in Seq(Seq(OutTags)) /\ Len(outTags') = plevel + 1
        /\ outTags'[plevel + 1] = <<>>
        /\ \A l \in 1 .. plevel : outTags'[l] = outTags[l]
    BY <1>1, LevelAddedFacts
  <1>3. \A l \in 1 .. plevel + 1 : l \in 1 .. plevel \/ l = plevel + 1
    BY <1>1
  <1>4. \A l \in 1 .. plevel : l \in 1 .. plevel - 1 \/ l = plevel
    BY <1>1
  <1>5. Len(<<>>) = 0 /\ Sorted(<<>>)
    BY DEF Sorted
  <1>6. \A R, n : Before(<<>>, R, n)
    BY <1>5 DEF Before
  <1>7. \A l \in 1 .. plevel + 1 : Sorted(outTags'[l])
    BY <1>2, <1>3, <1>5 DEF IInv, OrderInv
  <1>8. plevel' - 1 = plevel /\ pos' - 1 = 0 /\ pos - 1 = Len(payload[plevel])
    BY <1>1
  <1>9. SerializerInv'
    <2> SUFFICES ASSUME transform = "Serializer"
                 PROVE  /\ \A l \in 1 .. plevel : Copies(outTags'[l], payload[l], Len(payload[l]))
                        /\ Copies(outTags'[plevel + 1], payload[plevel + 1], 0)
      BY <1>1, <1>8 DEF SerializerInv
    <2>1. Copies(<<>>, payload[plevel + 1], 0)
      BY <1>5 DEF Copies
    <2>2. \A l \in 1 .. plevel : Copies(outTags[l], payload[l], Len(payload[l]))
      BY <1>4, <1>8 DEF IInv, SerializerInv
    <2> QED
      BY <1>2, <2>1, <2>2
  <1>10. KeptInv'
    <2> SUFFICES ASSUME transform = "Merger"
                 PROVE  /\ \A l \in 1 .. plevel : Kept(outTags'[l], payload[l], Known(l), Len(payload[l]))
                        /\ Kept(outTags'[plevel + 1], payload[plevel + 1], Known(plevel + 1), 0)
      BY <1>1, <1>8 DEF KeptInv, Known
    <2>1. Kept(<<>>, payload[plevel + 1], Known(plevel + 1), 0)
      BY DEF Kept
    <2>2. \A l \in 1 .. plevel : Kept(outTags[l], payload[l], Known(l), Len(payload[l]))
      BY <1>4, <1>8 DEF IInv, KeptInv
    <2> QED
      BY <1>2, <2>1, <2>2
  <1> QED
    BY <1>1, <1>2, <1>6, <1>7, <1>9, <1>10

(* transform.End() fails for a required field that is not in the payload.  *)
LEMMA MissingRequired ==
    ASSUME IInv, transform = "To", phase \in {"fields", "unknown"}, required # Invalid,
           phase = "fields" => pos = Len(payload[level]) + 1
    PROVE  \E i \in 1 .. Len(Schema[level]) :
               Schema[level][i].required /\ ~Held(Schema[level], payload[level], Schema[level][i].id, Len(payload[level]))
  <1> DEFINE S == Schema[level]
  <1>1. /\ Awaits(S, level, required, assigned) /\ required \in Nat /\ level \in Nat
        /\ level \in 1 .. level
        /\ \A x \in Nat : <<level, x>> \in assigned <=> Held(S, payload[level], x, Read(level))
    <2>1. level \in 1 .. level /\ level \in Nat
      BY Shapes
    <2> QED
      BY <2>1 DEF IInv, ParserTypeOK, RequiredInv, AssignInv
  <1>2. Read(level) = Len(payload[level])
    <2>1. CASE phase = "fields"
      <3>1. level \in 1 .. Len(payload)
        BY <2>1 DEF IInv, PlaceInv, ParserTypeOK
      <3>2. Len(payload[level]) \in Nat
        BY <3>1, Shapes, TagsShape
      <3> QED
        BY <2>1, <3>2 DEF Read
    <2>2. CASE phase # "fields"
      BY <2>2 DEF Read
    <2> QED
      BY <2>1, <2>2
  <1>3. PICK i \in 1 .. Len(S) : S[i].required /\ S[i].id = required
    BY <1>1 DEF Awaits
  <1>4. <<level, required>> \notin assigned
    <2>1. S[i].id < required <=> <<level, S[i].id>> \in assigned
      BY <1>1, <1>3 DEF Awaits
    <2> QED
      BY <1>1, <1>3, <2>1
  <1> QED
    BY <1>1, <1>2, <1>3, <1>4

(* An exception of To.                                                     *)
LEMMA Throws ==
    ASSUME IInv, transform = "To", phase' = "exception", FailureInv',
           UNCHANGED <<parse, plevel, pos, level, field, required, assigned, outTags>>
    PROVE  IInv'
  <1>1. /\ mode' = mode /\ transform' = transform /\ depth' = depth /\ payload' = payload /\ object' = object
        /\ plevel' = plevel /\ pos' = pos /\ level' = level /\ field' = field /\ required' = required
        /\ assigned' = assigned /\ outTags' = outTags
    BY DEF parse
  <1>2. ParserTypeOK'
    BY <1>1 DEF IInv, ParserTypeOK
  <1> QED
    BY <1>1, <1>2 DEF IInv, PlaceInv, CrossInv, AssignInv, RequiredInv, OrderInv, SerializerInv, KeptInv, LossInv

-----------------------------------------------------------------------------
LEMMA FieldsKeepInv ==
    ASSUME IInv, FieldsStep
    PROVE  IInv'
  <1>1. /\ phase = "fields" /\ plevel = level /\ (Skipped \/ Matched \/ Passed)
        /\ mode' = mode /\ transform' = transform /\ depth' = depth /\ payload' = payload /\ object' = object
        /\ level' = level /\ plevel' = plevel
    BY Classify DEF parse
  <1>2. /\ Cross(Schema[level], payload[level], field', pos')
        /\ field' \in 1 .. Len(Schema[level]) + 1 /\ pos' \in 1 .. Len(payload[level]) + 1
    BY <1>1, Walk
  <1>3. CrossInv'
    BY <1>1, <1>2 DEF CrossInv
  <1>4. CASE transform = "To"
    <2>1. /\ ToInv' /\ required' \in Nat /\ assigned' \subseteq Nat \X Nat
          /\ outTags' = outTags /\ phase' \in {"fields", "exception"}
      BY <1>4, ToFields
    <2>2. ParserTypeOK'
      BY <1>1, <1>2, <1>4, <2>1 DEF IInv, ParserTypeOK
    <2>3. PlaceInv'
      BY <1>1, <2>1 DEF PlaceInv
    <2>4. OrderInv' /\ SerializerInv' /\ KeptInv' /\ LossInv'
      BY <1>1, <1>4 DEF OrderInv, SerializerInv, KeptInv, LossInv
    <2> QED
      BY <1>3, <2>1, <2>2, <2>3, <2>4 DEF IInv, ToInv
  <1>5. CASE transform # "To"
    <2>1. /\ WriterInv' /\ outTags' \in Seq(Seq(OutTags)) /\ Len(outTags') = plevel'
          /\ phase' = phase /\ required' = required /\ assigned' = assigned
      BY <1>5, WriterFields
    <2>2. ParserTypeOK'
      BY <1>1, <1>2, <1>5, <2>1 DEF IInv, ParserTypeOK
    <2>3. PlaceInv'
      BY <1>1, <2>1 DEF PlaceInv
    <2>4. AssignInv' /\ RequiredInv' /\ FailureInv'
      BY <1>1, <1>5, <2>1 DEF AssignInv, RequiredInv, FailureInv
    <2> QED
      BY <1>3, <2>1, <2>2, <2>3, <2>4 DEF IInv, WriterInv
  <1> QED
    BY <1>4, <1>5

LEMMA EndOfBaseKeepsInv ==
    ASSUME IInv, EndOfBase
    PROVE  IInv'
  <1> DEFINE S == Schema[level]
             P == payload[level]
  <1>1. /\ phase = "fields" /\ plevel = level /\ level < depth
        /\ mode' = mode /\ transform' = transform /\ depth' = depth /\ payload' = payload /\ object' = object
        /\ assigned' = assigned
    BY DEF EndOfBase, parse, IInv, PlaceInv
  <1>2. /\ Len(Schema) \in Nat /\ Len(payload) \in Nat
        /\ S \in Seq(SchemaFields) /\ Len(S) \in Nat /\ Len(P) \in Nat
        /\ field \in 1 .. Len(S) + 1 /\ pos \in 1 .. Len(P) + 1
        /\ level \in Nat /\ level >= 1 /\ depth \in 1 .. Len(Schema) /\ plevel \in 1 .. Len(payload)
    <2>1. S \in Seq(SchemaFields) /\ P \in Seq(FieldTags)
      BY <1>1, Shapes
    <2>2. Len(S) \in Nat /\ Len(P) \in Nat
      BY <2>1, FieldsShape, TagsShape
    <2>3. /\ field \in 1 .. Len(S) + 1 /\ pos \in 1 .. Len(P) + 1
          /\ depth \in 1 .. Len(Schema) /\ plevel \in 1 .. Len(payload) /\ level \in 1 .. depth
      BY <1>1 DEF IInv, ParserTypeOK
    <2>4. Len(Schema) \in Nat /\ Len(payload) \in Nat /\ level \in Nat
      BY Shapes
    <2>5. level >= 1
      BY <2>3, <2>4
    <2> QED
      BY <2>1, <2>2, <2>3, <2>4, <2>5
  <1>3. field = Len(S) + 1
    BY <1>2 DEF EndOfBase, Fields
  <1>4. /\ pos = Len(P) + 1
        /\ tag.type = "STOP" <=> level = Len(payload)
    <2>1. pos \in Nat /\ pos >= 1
      BY <1>2
    <2>2. Stop(tag)
      BY DEF EndOfBase
    <2> QED
      BY <1>1, <1>2, <2>1, <2>2, TagFacts DEF tag
  <1>5. CASE tag.type = "STOP" \/ (transform = "To" /\ required # Invalid)
    <2>1. phase' = "exception" /\ UNCHANGED <<parse, plevel, pos, level, field, required, assigned, outTags>>
      BY <1>5 DEF EndOfBase
    <2>2. transform = "To"
      <3>1. transform # "To" => depth = Len(Schema) /\ Len(payload) >= Len(Schema)
        BY DEF IInv, ParserTypeOK
      <3> QED
        BY <1>1, <1>2, <1>4, <1>5, <3>1
    <2>3. FailureInv'
      <3>1. CASE tag.type = "STOP"
        BY <1>1, <1>2, <1>4, <2>2, <3>1 DEF FailureInv
      <3>2. CASE required # Invalid
        <4>1. level \in 1 .. depth
          BY <1>1, <1>2
        <4>2. \E i \in 1 .. Len(S) : S[i].required /\ ~Held(S, P, S[i].id, Len(P))
          BY <1>1, <1>4, <2>2, <3>2, MissingRequired
        <4> QED
          BY <1>1, <2>2, <4>1, <4>2 DEF FailureInv
      <3> QED
        BY <1>5, <3>1, <3>2
    <2> QED
      BY <2>1, <2>2, <2>3, Throws
  <1>6. CASE ~(tag.type = "STOP" \/ (transform = "To" /\ required # Invalid))
    <2>1. /\ level' = level + 1 /\ field' = 1 /\ required' = NextRequired(Schema[level + 1], 0)
          /\ plevel' = plevel + 1 /\ pos' = 1 /\ phase' = phase
          /\ outTags' = IF transform = "To" THEN outTags ELSE Append(outTags, <<>>)
      BY <1>6 DEF EndOfBase, AdvanceLevel
    <2>2. /\ level + 1 \in 1 .. Len(payload) /\ level + 1 \in 1 .. depth /\ level + 1 \in 1 .. Len(Schema)
      BY <1>1, <1>2, <1>4, <1>6
    <2> DEFINE T == Schema[level + 1]
               R == payload[level + 1]
    <2>3. T \in Seq(SchemaFields) /\ R \in Seq(FieldTags) /\ Len(T) \in Nat /\ Len(R) \in Nat
      BY <2>2, Shapes, FieldsShape, TagsShape
    <2>4. required' \in Nat /\ \A i \in 1 .. Len(T) : T[i].required => required' <= T[i].id
      <3>1. /\ NextRequired(T, 0) \in Nat
            /\ \A i \in 1 .. Len(T) : T[i].required /\ T[i].id >= 0 => NextRequired(T, 0) <= T[i].id
        BY <2>3, NextRequiredFacts
      <3>2. \A i \in 1 .. Len(T) : T[i].id \in Nat
        BY <2>3, FieldsShape
      <3>3. \A i \in 1 .. Len(T) : T[i].id >= 0
        BY <3>2
      <3> QED
        BY <2>1, <3>1, <3>3
    <2>5. transform # "To" =>
            /\ outTags' \in Seq(Seq(OutTags)) /\ Len(outTags') = plevel'
            /\ \A l \in 1 .. plevel : outTags'[l] = outTags[l]
            /\ \A l \in 1 .. plevel' : Sorted(outTags'[l])
            /\ \A Q, n : Before(outTags'[plevel'], Q, n)
            /\ SerializerInv' /\ KeptInv'
      BY <1>1, <1>4, <2>1, NextStruct DEF parse
    <2>6. ParserTypeOK'
      <3>1. plevel' \in 1 .. Len(payload) /\ 1 \in 1 .. Len(R) + 1 /\ 1 \in 1 .. Len(T) + 1
        BY <1>1, <2>1, <2>2, <2>3
      <3>2. pos' \in 1 .. Len(payload[plevel']) + 1 /\ field' \in 1 .. Len(Schema[level']) + 1
        BY <1>1, <2>1, <3>1
      <3>3. outTags' \in Seq(Seq(OutTags)) /\ (transform = "To" => outTags' = << <<>> >>)
        BY <2>1, <2>5 DEF IInv, ParserTypeOK
      <3>4. level' \in 1 .. depth
        BY <2>1, <2>2
      <3> QED
        BY <1>1, <2>1, <2>4, <2>5, <3>1, <3>2, <3>3, <3>4 DEF IInv, ParserTypeOK
    <2>7. PlaceInv'
      BY <1>1, <2>1 DEF PlaceInv
    <2>8. CrossInv'
      <3>1. Cross(T, R, 1, 1)
        BY <2>3 DEF Cross
      <3> QED
        BY <1>1, <2>1, <3>1 DEF CrossInv
    <2>9. \A l \in 1 .. level : l \in 1 .. level - 1 \/ l = level
      BY <1>2
    <2>10. transform = "To" => \A l, x \in Nat : <<l, x>> \in assigned <=>
                l \in 1 .. level /\ Held(Schema[l], payload[l], x, Len(payload[l]))
      <3>1. \A l \in 1 .. level : Read(l) = Len(payload[l])
        BY <1>1, <1>2, <1>4 DEF Read
      <3> QED
        BY <1>1, <3>1 DEF IInv, AssignInv
    <2>11. AssignInv'
      <3> SUFFICES ASSUME transform = "To", NEW l \in Nat, NEW x \in Nat
                   PROVE  <<l, x>> \in assigned <=>
                            /\ l \in 1 .. level + 1
                            /\ Held(Schema[l], payload[l], x, IF l = level + 1 THEN 0 ELSE Len(payload[l]))
        <4>1. pos' - 1 = 0 /\ level' = level + 1 /\ phase' = "fields"
          BY <1>1, <2>1
        <4> QED
          BY <1>1, <4>1 DEF AssignInv, Read
      <3>1. CASE l = level + 1
        <4>1. ~Held(T, R, x, 0)
          BY <2>3, HeldSame
        <4> QED
          BY <1>2, <2>10, <3>1, <4>1
      <3>2. CASE l # level + 1
        <4>1. l \in 1 .. level + 1 <=> l \in 1 .. level
          BY <1>2, <3>2
        <4> QED
          BY <2>10, <3>2, <4>1
      <3> QED
        BY <3>1, <3>2
    <2>12. RequiredInv'
      <3> SUFFICES ASSUME transform = "To"
                   PROVE  /\ Awaits(T, level + 1, required', assigned)
                          /\ \A l \in 1 .. level : \A i \in 1 .. Len(Schema[l]) :
                                 Schema[l][i].required => <<l, Schema[l][i].id>> \in assigned
        <4>1. level' - 1 = level /\ level' = level + 1 /\ phase' = "fields"
          BY <1>1, <1>2, <2>1
        <4> QED
          BY <1>1, <4>1 DEF RequiredInv
      <3>1. Awaits(T, level + 1, required', assigned)
        <4>1. required' = Invalid \/ \E i \in 1 .. Len(T) : T[i].required /\ T[i].id = required'
          BY <2>1, <2>3, NextRequiredFacts
        <4>2. \A i \in 1 .. Len(T) : T[i].id \in Nat /\ ~(<<level + 1, T[i].id>> \in assigned)
          <5>1. \A i \in 1 .. Len(T) : T[i].id \in Nat
            BY <2>3, FieldsShape
          <5>2. level + 1 \in Nat /\ ~(level + 1 \in 1 .. level)
            BY <1>2
          <5> QED
            BY <2>10, <5>1, <5>2
        <4>3. \A i \in 1 .. Len(T) : T[i].required => ~(T[i].id < required')
          <5> SUFFICES ASSUME NEW i \in 1 .. Len(T), T[i].required
                       PROVE  ~(T[i].id < required')
            OBVIOUS
          <5>1. required' <= T[i].id /\ required' \in Nat /\ T[i].id \in Nat
            BY <2>4, <4>2
          <5> QED
            BY <5>1
        <4> QED
          BY <4>1, <4>2, <4>3 DEF Awaits
      <3>2. \A i \in 1 .. Len(S) : S[i].required => <<level, S[i].id>> \in assigned
        <4>1. required = Invalid /\ Awaits(S, level, required, assigned)
          BY <1>1, <1>6 DEF IInv, RequiredInv
        <4>2. \A i \in 1 .. Len(S) : S[i].id < Invalid
          BY <1>2, FieldsShape
        <4> QED
          BY <4>1, <4>2 DEF Awaits
      <3> QED
        BY <1>1, <2>9, <3>1, <3>2 DEF IInv, RequiredInv
    <2>13. FailureInv'
      BY <1>1, <2>1 DEF FailureInv
    <2>14. OrderInv'
      BY <1>1, <2>1, <2>5 DEF OrderInv
    <2>15. SerializerInv' /\ KeptInv'
      BY <1>1, <2>5 DEF SerializerInv, KeptInv
    <2>16. LossInv'
      <3> SUFFICES ASSUME transform = "Merger"
                   PROVE  /\ \A l \in 1 .. level : Settled(Schema[l], payload[l], outTags'[l], object, l, Len(Schema[l]) + 1)
                          /\ Settled(T, R, outTags'[level + 1], object, level + 1, 1)
        <4>1. level' - 1 = level /\ level' = level + 1 /\ field' = 1
          BY <1>2, <2>1
        <4> QED
          BY <1>1, <4>1 DEF LossInv
      <3>1. \A l \in 1 .. level : Settled(Schema[l], payload[l], outTags[l], object, l, Len(Schema[l]) + 1)
        BY <1>3, <2>9 DEF IInv, LossInv
      <3>2. Settled(T, R, outTags'[level + 1], object, level + 1, 1)
        BY DEF Settled
      <3>3. transform # "To" /\ \A l \in 1 .. level : outTags'[l] = outTags[l]
        BY <1>1, <2>5
      <3> QED
        BY <3>1, <3>2, <3>3
    <2> QED
      BY <2>6, <2>7, <2>8, <2>11, <2>12, <2>13, <2>14, <2>15, <2>16 DEF IInv
  <1> QED
    BY <1>5, <1>6
LEMMA EndOfFieldsKeepsInv ==
    ASSUME IInv, EndOfFields
    PROVE  IInv'
  <1>1. /\ phase = "fields" /\ plevel = level /\ level = depth /\ phase' = "unknown"
        /\ mode' = mode /\ transform' = transform /\ depth' = depth /\ payload' = payload /\ object' = object
        /\ plevel' = plevel /\ pos' = pos /\ level' = level /\ field' = field /\ required' = required
        /\ assigned' = assigned /\ outTags' = outTags
    BY DEF EndOfFields, parse, IInv, PlaceInv
  <1>2. /\ Len(Schema[level]) \in Nat /\ Len(payload[level]) \in Nat
        /\ field \in 1 .. Len(Schema[level]) + 1 /\ pos \in 1 .. Len(payload[level]) + 1
        /\ plevel \in Nat
    BY <1>1, Shapes, FieldsShape, TagsShape DEF IInv, ParserTypeOK
  <1>3. field = Len(Schema[level]) + 1
    BY <1>2 DEF EndOfFields, Fields
  <1>4. pos = Len(payload[level]) + 1
    <2>1. pos \in Nat /\ pos >= 1 /\ Stop(tag)
      BY <1>2 DEF EndOfFields
    <2>2. pos > Len(payload[plevel])
      BY <2>1, TagFacts DEF tag
    <2> QED
      BY <1>1, <1>2, <2>2
  <1>5. ParserTypeOK'
    BY <1>1 DEF IInv, ParserTypeOK
  <1>6. PlaceInv'
    BY <1>1, <1>2, <1>3 DEF PlaceInv
  <1>7. CrossInv' /\ FailureInv'
    BY <1>1 DEF CrossInv, FailureInv
  <1>8. AssignInv'
    <2>1. \A l : (Read(l))' = Read(l)
      BY <1>1, <1>2, <1>4 DEF Read
    <2> QED
      BY <1>1, <2>1 DEF IInv, AssignInv
  <1>9. RequiredInv'
    BY <1>1 DEF IInv, RequiredInv
  <1>10. OrderInv' /\ SerializerInv' /\ KeptInv' /\ LossInv'
    BY <1>1 DEF IInv, OrderInv, SerializerInv, KeptInv, LossInv, Known
  <1> QED
    BY <1>5, <1>6, <1>7, <1>8, <1>9, <1>10 DEF IInv

LEMMA UnknownKeepsInv ==
    ASSUME IInv, ReadUnknownFields
    PROVE  IInv'
  <1> DEFINE P == payload[plevel]
             Q == outTags[plevel]
             N == outTags'[plevel]
  <1>1. /\ phase = "unknown" /\ level = depth /\ plevel >= depth
        /\ mode' = mode /\ transform' = transform /\ depth' = depth /\ payload' = payload /\ object' = object
        /\ level' = level /\ field' = field /\ field = Len(Schema[level]) + 1
    BY DEF ReadUnknownFields, parse, IInv, PlaceInv
  <1>2. /\ Len(payload) \in Nat /\ P \in Seq(FieldTags) /\ Len(P) \in Nat /\ pos \in 1 .. Len(P) + 1
        /\ level \in Nat /\ level >= 1 /\ depth \in Nat /\ plevel \in Nat /\ plevel \in 1 .. Len(payload)
        /\ pos \in Nat /\ pos >= 1
    <2>1. P \in Seq(FieldTags) /\ Len(payload) \in Nat /\ level \in Nat /\ plevel \in Nat /\ depth \in Nat /\ pos \in Nat
      BY Shapes
    <2>2. Len(P) \in Nat
      BY <2>1, TagsShape
    <2>3. pos \in 1 .. Len(P) + 1 /\ plevel \in 1 .. Len(payload) /\ level \in 1 .. depth
      BY DEF IInv, ParserTypeOK
    <2> QED
      BY <2>1, <2>2, <2>3
  <1>3. \A l : Read(l) = Len(payload[l])
    BY <1>1 DEF Read
  <1>4. /\ pos > Len(P) => (tag.type = "STOP" <=> plevel = Len(payload))
        /\ pos > Len(P) => (tag.type = "STOP_BASE" <=> plevel < Len(payload))
        /\ pos <= Len(P) => tag = P[pos] /\ pos \in 1 .. Len(P) /\ tag.type \in Types
    BY <1>2, TagFacts DEF tag
  <1>5. tag.type \in Types => tag.type # "STOP" /\ tag.type # "STOP_BASE"
    BY DEF Types, Basic
  <1>6. CASE tag.type = "STOP"
    <2>1. EndTransform("done") /\ UNCHANGED <<plevel, pos, assigned, outTags>>
      BY <1>6 DEF ReadUnknownFields
    <2>2. pos = Len(P) + 1 /\ plevel = Len(payload)
      BY <1>2, <1>4, <1>5, <1>6
    <2>3. CASE transform = "To" /\ required # Invalid
      <3>1. phase' = "exception" /\ UNCHANGED <<parse, plevel, pos, level, field, required, assigned, outTags>>
        BY <1>1, <2>1, <2>3 DEF EndTransform, parse
      <3>2. \E i \in 1 .. Len(Schema[level]) :
               Schema[level][i].required /\ ~Held(Schema[level], payload[level], Schema[level][i].id, Len(payload[level]))
        BY <1>1, <2>3, MissingRequired
      <3>3. FailureInv'
        <4>1. level \in 1 .. depth
          BY <1>1, <1>2
        <4> QED
          BY <1>1, <2>3, <3>2, <4>1 DEF FailureInv
      <3> QED
        BY <2>3, <3>1, <3>3, Throws
    <2>4. CASE ~(transform = "To" /\ required # Invalid)
      <3>1. /\ phase' = "done" /\ required' = required /\ plevel' = plevel /\ pos' = pos
            /\ assigned' = assigned /\ outTags' = outTags
        BY <2>1, <2>4 DEF EndTransform
      <3>2. ParserTypeOK'
        BY <1>1, <3>1 DEF IInv, ParserTypeOK
      <3>3. PlaceInv'
        BY <1>1, <2>2, <3>1 DEF PlaceInv
      <3>4. CrossInv' /\ FailureInv'
        BY <3>1 DEF CrossInv, FailureInv
      <3>5. AssignInv'
        BY <1>1, <3>1 DEF IInv, AssignInv, Read
      <3>6. RequiredInv'
        BY <1>1, <2>4, <3>1 DEF IInv, RequiredInv
      <3>7. OrderInv' /\ SerializerInv' /\ KeptInv' /\ LossInv'
        BY <1>1, <3>1 DEF IInv, OrderInv, SerializerInv, KeptInv, LossInv, Known
      <3> QED
        BY <3>2, <3>3, <3>4, <3>5, <3>6, <3>7 DEF IInv
    <2> QED
      BY <2>3, <2>4
  <1>7. ASSUME phase' = phase, required' = required, assigned' = assigned
        PROVE  AssignInv' /\ RequiredInv' /\ FailureInv' /\ CrossInv'
    <2>1. \A l : (Read(l))' = Read(l)
      BY <1>1, <1>7 DEF Read
    <2>2. AssignInv'
      BY <1>1, <1>7, <2>1 DEF IInv, AssignInv
    <2> QED
      BY <1>1, <1>7, <2>2 DEF IInv, RequiredInv, FailureInv, CrossInv
  <1>8. CASE tag.type = "STOP_BASE"
    <2>1. /\ outTags' = IF transform = "To" THEN outTags ELSE Append(outTags, <<>>)
          /\ plevel' = plevel + 1 /\ pos' = 1
          /\ phase' = phase /\ required' = required /\ assigned' = assigned
      BY <1>8 DEF ReadUnknownFields, AdvanceLevel
    <2>2. pos = Len(P) + 1 /\ plevel + 1 \in 1 .. Len(payload)
      BY <1>2, <1>4, <1>5, <1>8
    <2>3. transform # "To" =>
            /\ outTags' \in Seq(Seq(OutTags)) /\ Len(outTags') = plevel'
            /\ \A l \in 1 .. plevel : outTags'[l] = outTags[l]
            /\ \A l \in 1 .. plevel' : Sorted(outTags'[l])
            /\ \A R, n : Before(outTags'[plevel'], R, n)
            /\ SerializerInv' /\ KeptInv'
      BY <1>1, <2>1, <2>2, NextStruct DEF parse
    <2>4. ParserTypeOK'
      <3>1. payload[plevel + 1] \in Seq(FieldTags)
        BY <2>2, Shapes
      <3>2. 1 \in 1 .. Len(payload[plevel + 1]) + 1
        BY <3>1, TagsShape
      <3>3. outTags' \in Seq(Seq(OutTags)) /\ (transform = "To" => outTags' = << <<>> >>)
        BY <2>1, <2>3 DEF IInv, ParserTypeOK
      <3> QED
        BY <1>1, <2>1, <2>2, <2>3, <3>2, <3>3 DEF IInv, ParserTypeOK
    <2>5. PlaceInv'
      BY <1>1, <1>2, <2>1 DEF PlaceInv
    <2>6. OrderInv'
      BY <1>1, <2>1, <2>3 DEF OrderInv
    <2>7. SerializerInv' /\ KeptInv'
      BY <1>1, <2>3 DEF SerializerInv, KeptInv
    <2>8. LossInv'
      <3>1. transform = "Merger" => \A l \in 1 .. level : outTags'[l] = outTags[l]
        BY <1>1, <1>2, <2>3
      <3>2. level \in 1 .. level /\ \A l \in 1 .. level - 1 : l \in 1 .. level
        BY <1>2
      <3> QED
        BY <1>1, <3>1, <3>2 DEF IInv, LossInv
    <2> QED
      BY <1>7, <2>1, <2>4, <2>5, <2>6, <2>7, <2>8 DEF IInv
  <1>9. CASE tag.type # "STOP" /\ tag.type # "STOP_BASE"
    <2>1. UnknownTag(tag) /\ pos' = pos + 1 /\ plevel' = plevel
      BY <1>9 DEF ReadUnknownFields, Advance
    <2>2. pos \in 1 .. Len(P) /\ tag = P[pos] /\ pos' - 1 = pos /\ pos' \in 1 .. Len(P) + 1
      <3>1. pos <= Len(P)
        BY <1>2, <1>4, <1>9
      <3> QED
        BY <1>2, <1>4, <2>1, <3>1
    <2>4. CASE transform = "To"
      <3>1. phase' = phase /\ required' = required /\ assigned' = assigned /\ outTags' = outTags
        BY <2>1, <2>4 DEF UnknownTag, Ignore
      <3>2. ParserTypeOK'
        BY <1>1, <2>1, <2>2, <2>4, <3>1 DEF IInv, ParserTypeOK
      <3>3. PlaceInv'
        BY <1>1, <2>1, <3>1 DEF PlaceInv
      <3>4. OrderInv' /\ SerializerInv' /\ KeptInv' /\ LossInv'
        BY <1>1, <2>4 DEF OrderInv, SerializerInv, KeptInv, LossInv
      <3> QED
        BY <1>7, <3>1, <3>2, <3>3, <3>4 DEF IInv
    <2>5. CASE transform # "To"
      <3> DEFINE r == [id |-> P[pos].id, type |-> P[pos].type, from |-> "payload"]
      <3>1. P[pos] \in FieldTags
        BY <1>2, <2>2
      <3>2. r \in OutTags /\ r.id = P[pos].id /\ r.type = P[pos].type
        BY <3>1, OutTagShape
      <3>3. /\ outTags' = TagAppended(outTags, r)
            /\ phase' = phase /\ required' = required /\ assigned' = assigned
        BY <2>1, <2>2, <2>5, <3>1, WriteTagFacts DEF UnknownTag
      <3>4. r = [id |-> P[pos].id, type |-> P[pos].type, from |-> "payload"]
        OBVIOUS
      <3> HIDE DEF r
      <3>5. outTags \in Seq(Seq(OutTags)) /\ Len(outTags) = plevel /\ Q \in Seq(OutTags)
        <4>1. outTags \in Seq(Seq(OutTags)) /\ Len(outTags) = plevel
          BY <2>5 DEF IInv, ParserTypeOK
        <4>2. plevel \in 1 .. Len(outTags)
          BY <1>2, <4>1
        <4> QED
          BY <4>1, <4>2
      <3>6. /\ outTags' \in Seq(Seq(OutTags)) /\ Len(outTags') = plevel /\ N = Append(Q, r)
            /\ \A l \in 1 .. plevel - 1 : outTags'[l] = outTags[l]
        <4>1. Len(outTags) >= 1
          BY <1>2, <3>5
        <4>2. /\ TagAppended(outTags, r) \in Seq(Seq(OutTags))
              /\ Len(TagAppended(outTags, r)) = Len(outTags)
              /\ TagAppended(outTags, r)[Len(outTags)] = Append(outTags[Len(outTags)], r)
              /\ \A l \in 1 .. Len(outTags) - 1 : TagAppended(outTags, r)[l] = outTags[l]
          BY <3>2, <3>5, <4>1, TagAppendedFacts
        <4> QED
          BY <3>3, <3>5, <4>2
      <3>7. /\ Sorted(Q) /\ Before(Q, P, pos) /\ \A l \in 1 .. plevel - 1 : Sorted(outTags[l])
        BY <1>2, <2>5 DEF IInv, OrderInv
      <3>8. ParserTypeOK'
        BY <1>1, <2>1, <2>2, <2>5, <3>3, <3>6 DEF IInv, ParserTypeOK
      <3>9. PlaceInv'
        BY <1>1, <2>1, <3>3 DEF PlaceInv
      <3>10. OrderInv'
        <4>1. \A k \in 1 .. Len(Q) : Q[k].id < r.id
          BY <2>2, <3>2, <3>7 DEF Before
        <4>2. Sorted(N)
          BY <3>2, <3>5, <3>6, <3>7, <4>1, AppendOrdered
        <4>3. Before(Q, P, pos')
          BY <1>2, <2>1, <3>7, BeforeLater
        <4>4. \A j \in 1 .. Len(P) : j >= pos' => r.id < P[j].id
          <5>1. Sorted(P)
            BY Shapes
          <5>2. \A j \in 1 .. Len(P) : j >= pos' => pos < j
            BY <1>2, <2>1
          <5> QED
            BY <2>2, <3>2, <5>1, <5>2 DEF Sorted
        <4>5. Before(N, P, pos')
          BY <3>2, <3>5, <3>6, <4>3, <4>4, AppendBefore
        <4>6. \A l \in 1 .. plevel : l \in 1 .. plevel - 1 \/ l = plevel
          BY <1>2
        <4>7. \A l \in 1 .. plevel : Sorted(outTags'[l])
          BY <3>6, <3>7, <4>2, <4>6
        <4> QED
          BY <1>1, <2>1, <3>3, <4>5, <4>7 DEF OrderInv
      <3>11. SerializerInv'
        <4>1. transform = "Serializer" => Copies(N, P, pos' - 1)
          <5>1. transform = "Serializer" => Copies(Q, P, pos - 1)
            BY DEF IInv, SerializerInv
          <5> QED
            BY <1>2, <2>2, <3>2, <3>5, <3>6, <5>1, AppendCopies
        <4> QED
          BY <1>1, <2>1, <3>6, <4>1 DEF IInv, SerializerInv
      <3>12. KeptInv'
        <4>1. transform = "Merger" => Kept(N, P, Known(plevel), pos' - 1)
          <5> HAVE transform = "Merger"
          <5>1. Kept(Q, P, Known(plevel), pos - 1)
            BY DEF IInv, KeptInv
          <5>2. Kept(N, P, Known(plevel), pos - 1)
            BY <3>2, <3>5, <3>6, <5>1, AppendKept
          <5>3. Len(Q) + 1 \in 1 .. Len(N) /\ N[Len(Q) + 1] = r
            BY <3>2, <3>5, <3>6, AppendTag
          <5>4. \E k \in 1 .. Len(N) : N[k] = [id |-> P[pos].id, type |-> P[pos].type, from |-> "payload"]
            BY <3>4, <5>3
          <5> QED
            BY <1>2, <2>2, <5>2, <5>4, KeptNext
        <4> QED
          BY <1>1, <2>1, <3>6, <4>1 DEF IInv, KeptInv, Known
      <3>13. LossInv'
        <4> SUFFICES ASSUME transform = "Merger"
                     PROVE  /\ \A l \in 1 .. level - 1 : Settled(Schema[l], payload[l], outTags'[l], object, l, Len(Schema[l]) + 1)
                            /\ Settled(Schema[level], payload[level], outTags'[level], object, level, field)
          BY <1>1 DEF LossInv
        <4>1. \A l \in 1 .. level - 1 : outTags'[l] = outTags[l]
          <5>1. \A l \in 1 .. level - 1 : l \in 1 .. plevel - 1
            BY <1>1, <1>2
          <5> QED
            BY <3>6, <5>1
        <4>2. Settled(Schema[level], payload[level], outTags[level], object, level, field)
          BY DEF IInv, LossInv
        <4>3. CASE level = plevel
          <5>1. Settled(Schema[level], payload[level], Append(Q, r), object, level, field)
            BY <3>2, <3>5, <4>2, <4>3, AppendSettled
          <5> QED
            BY <3>6, <4>1, <4>3, <5>1 DEF IInv, LossInv
        <4>4. CASE level # plevel
          <5>1. level \in 1 .. plevel - 1
            BY <1>1, <1>2, <4>4
          <5>2. outTags'[level] = outTags[level]
            BY <3>6, <5>1
          <5> QED
            BY <4>1, <4>2, <5>2 DEF IInv, LossInv
        <4> QED
          BY <4>3, <4>4
      <3> QED
        BY <1>7, <3>3, <3>8, <3>9, <3>10, <3>11, <3>12, <3>13 DEF IInv
    <2> QED
      BY <2>4, <2>5
  <1> QED
    BY <1>6, <1>8, <1>9
-----------------------------------------------------------------------------
LEMMA InitIInv ==
    ASSUME ParserInit
    PROVE  IInv
  <1>1. PICK p \in Parses : mode = p[1] /\ transform = p[2] /\ depth = p[3]
    BY DEF ParserInit
  <1>2. /\ mode \in Modes /\ transform \in Transforms /\ depth \in 1 .. Len(Schema)
        /\ transform = "Merger" => mode = "compile"
        /\ transform # "To" => depth = Len(Schema)
    BY <1>1, ParsesAssumption
  <1>3. /\ payload \in Payloads /\ (transform # "To" => Len(payload) >= Len(Schema))
        /\ plevel = 1 /\ pos = 1 /\ level = 1 /\ field = 1 /\ phase = "fields"
        /\ required = NextRequired(Schema[1], 0) /\ assigned = {} /\ outTags = << <<>> >>
    BY DEF ParserInit
  <1>4. object \subseteq AllFields
    BY DEF ParserInit
  <1>5. Schema \in Seq(Seq(SchemaFields)) /\ payload \in Seq(Seq(FieldTags)) /\ Len(payload) >= 1
    BY <1>3, SchemaAssumption, PayloadAssumption
  <1> DEFINE S == Schema[1]
             P == payload[1]
  <1>6. Len(Schema) \in Nat /\ Len(payload) \in Nat /\ 1 \in 1 .. Len(Schema) /\ 1 \in 1 .. Len(payload) /\ 1 \in 1 .. depth
    BY <1>2, <1>5
  <1>7. S \in Seq(SchemaFields) /\ P \in Seq(FieldTags) /\ Len(S) \in Nat /\ Len(P) \in Nat
    BY <1>5, <1>6
  <1>8. Len(<< <<>> >>) = 1 /\ << <<>> >>[1] = <<>> /\ Len(<<>>) = 0 /\ << <<>> >> \in Seq(Seq(OutTags))
    <2>1. <<>> \in Seq(OutTags)
      OBVIOUS
    <2> QED
      BY <2>1
  <1>9. /\ NextRequired(S, 0) \in Nat
        /\ NextRequired(S, 0) = Invalid \/ \E i \in 1 .. Len(S) : S[i].required /\ S[i].id = NextRequired(S, 0)
        /\ \A i \in 1 .. Len(S) : S[i].required => ~(S[i].id < NextRequired(S, 0))
    <2>1. \A i \in 1 .. Len(S) : S[i].id \in Nat
      BY <1>7, FieldsShape
    <2>2. /\ NextRequired(S, 0) \in Nat
          /\ NextRequired(S, 0) = Invalid \/ \E i \in 1 .. Len(S) : S[i].required /\ S[i].id = NextRequired(S, 0)
          /\ \A i \in 1 .. Len(S) : S[i].required /\ S[i].id >= 0 => NextRequired(S, 0) <= S[i].id
      BY <1>7, NextRequiredFacts
    <2>3. ASSUME NEW i \in 1 .. Len(S), S[i].required
          PROVE  ~(S[i].id < NextRequired(S, 0))
      <3>1. S[i].id \in Nat /\ S[i].id >= 0
        BY <2>1
      <3>2. NextRequired(S, 0) <= S[i].id
        BY <2>2, <2>3, <3>1
      <3> QED
        BY <2>2, <3>1, <3>2
    <2> QED
      BY <2>2, <2>3
  <1>10. ParserTypeOK
    <2>1. 1 \in 1 .. Len(P) + 1 /\ 1 \in 1 .. Len(S) + 1
      BY <1>7
    <2> QED
      BY <1>2, <1>3, <1>4, <1>6, <1>8, <1>9, <2>1 DEF ParserTypeOK
  <1>11. PlaceInv /\ FailureInv
    BY <1>3 DEF PlaceInv, FailureInv
  <1>12. CrossInv
    <2>1. Cross(S, P, 1, 1)
      BY <1>7 DEF Cross
    <2> QED
      BY <1>3, <2>1 DEF CrossInv
  <1>13. AssignInv
    <2> SUFFICES ASSUME NEW l \in Nat, NEW x \in Nat, l \in 1 .. level
                 PROVE  ~Held(Schema[l], payload[l], x, Read(l))
      BY <1>3 DEF AssignInv
    <2>1. l = 1 /\ Read(l) = 0
      BY <1>3 DEF Read
    <2> QED
      BY <1>7, <2>1, HeldSame
  <1>14. RequiredInv
    <2>1. Awaits(S, 1, NextRequired(S, 0), {})
      BY <1>9 DEF Awaits
    <2> QED
      BY <1>3, <2>1 DEF RequiredInv
  <1>15. OrderInv
    <2>1. Sorted(<<>>) /\ \A R, n : Before(<<>>, R, n)
      BY <1>8 DEF Sorted, Before
    <2>2. \A l \in 1 .. 1 : l = 1
      OBVIOUS
    <2> QED
      BY <1>3, <1>8, <2>1, <2>2 DEF OrderInv
  <1>16. SerializerInv
    <2>1. Copies(<<>>, P, 0)
      BY <1>8 DEF Copies
    <2> QED
      BY <1>3, <1>8, <2>1 DEF SerializerInv
  <1>17. KeptInv
    <2>1. Kept(<<>>, P, Known(1), 0)
      BY DEF Kept
    <2> QED
      BY <1>3, <1>8, <2>1 DEF KeptInv
  <1>18. LossInv
    <2>1. Settled(S, P, <<>>, object, 1, 1)
      BY DEF Settled
    <2> QED
      BY <1>3, <1>8, <2>1 DEF LossInv
  <1> QED
    BY <1>10, <1>11, <1>12, <1>13, <1>14, <1>15, <1>16, <1>17, <1>18 DEF IInv

LEMMA NextIInv ==
    ASSUME IInv, [ParserNext]_parserVars
    PROVE  IInv'
  <1>1. CASE FieldsStep
    BY <1>1, FieldsKeepInv
  <1>2. CASE EndOfBase
    BY <1>2, EndOfBaseKeepsInv
  <1>3. CASE EndOfFields
    BY <1>3, EndOfFieldsKeepsInv
  <1>4. CASE ReadUnknownFields
    BY <1>4, UnknownKeepsInv
  <1>5. CASE UNCHANGED parserVars
    BY <1>5 DEF IInv, ParserTypeOK, PlaceInv, CrossInv, AssignInv, Read, RequiredInv, FailureInv, OrderInv,
       SerializerInv, KeptInv, Known, LossInv, parserVars, parse
  <1> QED
    BY <1>1, <1>2, <1>3, <1>4, <1>5 DEF ParserNext, FieldsStep, Ended

LEMMA Invariance == ParserSpec => []IInv
  <1>1. ParserInit => IInv
    BY InitIInv
  <1>2. IInv /\ [ParserNext]_parserVars => IInv'
    BY NextIInv
  <1> QED
    BY <1>1, <1>2, PTL DEF ParserSpec

-----------------------------------------------------------------------------
(* What Readable says, field by field.                                     *)
LEMMA ReadableFacts ==
    ASSUME IInv, depth <= Len(payload)
    PROVE  /\ \A l, x : <<l, x>> \in Readable <=>
                  l \in 1 .. depth /\ Held(Schema[l], payload[l], x, Len(payload[l]))
           /\ Readable \subseteq Nat \X Nat
  <1>1. \A l \in 1 .. depth : l \in Nat /\ l \in 1 .. Len(payload) /\ l \in 1 .. Len(Schema)
    BY Shapes
  <1>2. \A l \in 1 .. depth : Len(payload[l]) \in Nat /\ \A i \in 1 .. Len(Schema[l]) : Schema[l][i].id \in Nat
    BY <1>1, Shapes, FieldsShape, TagsShape
  <1>3. ASSUME NEW y, y \in Readable
        PROVE  \E l \in 1 .. depth, x \in Nat : y = <<l, x>> /\ Held(Schema[l], payload[l], x, Len(payload[l]))
    <2>1. PICK l \in 1 .. depth : y \in
              {<<l, f.id>> : f \in {g \in {Schema[l][i] : i \in 1 .. Len(Schema[l])} :
                                    \E j \in 1 .. Len(payload[l]) :
                                        payload[l][j].id = g.id /\ Matches(payload[l][j].type, g.type)}}
      BY <1>3 DEF Readable
    <2>2. PICK i \in 1 .. Len(Schema[l]), j \in 1 .. Len(payload[l]) :
              /\ y = <<l, Schema[l][i].id>>
              /\ payload[l][j].id = Schema[l][i].id /\ Matches(payload[l][j].type, Schema[l][i].type)
      BY <2>1
    <2>3. j <= Len(payload[l])
      BY <1>2
    <2> QED
      BY <1>2, <2>2, <2>3 DEF Held
  <1>4. ASSUME NEW l \in 1 .. depth, NEW x, Held(Schema[l], payload[l], x, Len(payload[l]))
        PROVE  <<l, x>> \in Readable
    <2>1. PICK i \in 1 .. Len(Schema[l]), j \in 1 .. Len(payload[l]) :
              Schema[l][i].id = x /\ payload[l][j].id = x /\ Matches(payload[l][j].type, Schema[l][i].type)
      BY <1>4 DEF Held
    <2>2. Schema[l][i] \in {g \in {Schema[l][k] : k \in 1 .. Len(Schema[l])} :
                                    \E m \in 1 .. Len(payload[l]) :
                                        payload[l][m].id = g.id /\ Matches(payload[l][m].type, g.type)}
      BY <2>1
    <2> DEFINE found(k) == {<<k, f.id>> : f \in {g \in {Schema[k][m] : m \in 1 .. Len(Schema[k])} :
                                    \E n \in 1 .. Len(payload[k]) :
                                        payload[k][n].id = g.id /\ Matches(payload[k][n].type, g.type)}}
    <2>3. <<l, x>> \in found(l)
      BY <2>1, <2>2
    <2>4. Readable = UNION {found(k) : k \in 1 .. depth}
      BY DEF Readable
    <2> HIDE DEF found
    <2> QED
      BY <2>3, <2>4
  <1>5. \A l, x : <<l, x>> \in Readable => l \in 1 .. depth /\ Held(Schema[l], payload[l], x, Len(payload[l]))
    BY <1>3
  <1>6. Readable \subseteq Nat \X Nat
    BY <1>1, <1>3
  <1> QED
    BY <1>4, <1>5, <1>6

LEMMA ObjectFromInv ==
    ASSUME IInv
    PROVE  ObjectMatchesPayload
  <1> DEFINE satisfied == \A l \in 1 .. depth : \A i \in 1 .. Len(Schema[l]) :
                              Schema[l][i].required => <<l, Schema[l][i].id>> \in Readable
  <1>1. depth \in Nat /\ Len(payload) \in Nat /\ plevel \in 1 .. Len(payload)
    BY Shapes DEF IInv, ParserTypeOK
  <1>2. ASSUME phase = "done", transform = "To"
        PROVE  assigned = Readable /\ ~(Len(payload) < depth) /\ satisfied
    <2>1. level = depth /\ plevel = Len(payload) /\ plevel >= depth
      BY <1>2 DEF IInv, PlaceInv
    <2>2. depth <= Len(payload)
      BY <1>1, <2>1
    <2>3. \A l, x \in Nat : <<l, x>> \in assigned <=> <<l, x>> \in Readable
      BY <1>2, <2>1, <2>2, ReadableFacts DEF IInv, AssignInv, Read
    <2>4. assigned \subseteq Nat \X Nat /\ Readable \subseteq Nat \X Nat
      BY <2>2, ReadableFacts DEF IInv, ParserTypeOK
    <2>5. assigned = Readable
      BY <2>3, <2>4
    <2>6. \A l \in 1 .. depth : l \in 1 .. level - 1 \/ l = level
      BY <1>1, <2>1
    <2>7. \A i \in 1 .. Len(Schema[level]) : Schema[level][i].required => <<level, Schema[level][i].id>> \in assigned
      <3>1. required = Invalid /\ Awaits(Schema[level], level, required, assigned)
        BY <1>2 DEF IInv, RequiredInv
      <3>2. \A i \in 1 .. Len(Schema[level]) : Schema[level][i].id < Invalid
        BY Shapes, FieldsShape
      <3> QED
        BY <3>1, <3>2 DEF Awaits
    <2>8. \A l \in 1 .. level - 1 : \A i \in 1 .. Len(Schema[l]) :
               Schema[l][i].required => <<l, Schema[l][i].id>> \in assigned
      BY <1>2 DEF IInv, RequiredInv
    <2>9. satisfied
      BY <2>5, <2>6, <2>7, <2>8
    <2> QED
      BY <1>1, <2>2, <2>5, <2>9
  <1>3. ASSUME phase = "exception"
        PROVE  transform = "To" /\ (Len(payload) < depth \/ ~satisfied)
    <2>1. CASE Len(payload) < depth
      BY <1>3, <2>1 DEF IInv, FailureInv
    <2>2. CASE ~(Len(payload) < depth)
      <3>1. depth <= Len(payload)
        BY <1>1, <2>2
      <3>2. transform = "To"
        BY <1>3 DEF IInv, FailureInv
      <3>3. PICK l \in 1 .. depth : \E i \in 1 .. Len(Schema[l]) :
                Schema[l][i].required /\ ~Held(Schema[l], payload[l], Schema[l][i].id, Len(payload[l]))
        BY <1>3, <2>2 DEF IInv, FailureInv
      <3>4. PICK i \in 1 .. Len(Schema[l]) :
                Schema[l][i].required /\ ~Held(Schema[l], payload[l], Schema[l][i].id, Len(payload[l]))
        BY <3>3
      <3>5. <<l, Schema[l][i].id>> \notin Readable
        BY <3>1, <3>4, ReadableFacts
      <3> QED
        BY <3>2, <3>4, <3>5
    <2> QED
      BY <2>1, <2>2
  <1>4. phase = "done" => plevel = Len(payload) /\ pos = Len(payload[plevel]) + 1
    BY DEF IInv, PlaceInv
  <1> QED
    BY <1>2, <1>3, <1>4 DEF ObjectMatchesPayload

(* A completed To has assigned exactly the readable fields, has found each *)
(* required one and stands at the end of the struct; it throws only for a  *)
(* required field that is not readable or for missing base structs: for    *)
(* every schema and payload, and for both parsers of parser.h              *)
(* (DynamicParser::ReadFields over a compile-time and a runtime schema).   *)
THEOREM ParsedObjectsMatch == ParserSpec => []ObjectMatchesPayload
  <1>1. IInv => ObjectMatchesPayload
    BY ObjectFromInv
  <1> QED
    BY <1>1, Invariance, PTL
-----------------------------------------------------------------------------
LEMMA TagIsRecord ==
    ASSUME NEW t \in FieldTags
    PROVE  t = [id |-> t.id, type |-> t.type]
  BY DEF FieldTags

LEMMA KeptFromInv ==
    ASSUME IInv
    PROVE  UnknownFieldsKept
  <1>1. payload \in Seq(Seq(FieldTags)) /\ Len(payload) \in Nat /\ plevel \in 1 .. Len(payload) /\ plevel \in Nat
    BY Shapes, PayloadAssumption DEF IInv, ParserTypeOK
  <1>2. \A l \in 1 .. Len(payload) : payload[l] \in Seq(FieldTags) /\ Len(payload[l]) \in Nat
    BY Shapes, TagsShape
  <1>3. \A l \in 1 .. plevel : l \in 1 .. plevel - 1 \/ l = plevel
    BY <1>1
  <1>4. ASSUME phase = "done"
        PROVE  plevel = Len(payload) /\ pos - 1 = Len(payload[plevel])
    <2>1. plevel = Len(payload) /\ pos = Len(payload[plevel]) + 1
      BY <1>4 DEF IInv, PlaceInv
    <2> QED
      BY <1>1, <1>2, <2>1
  <1>5. ASSUME phase = "done", transform = "Serializer"
        PROVE  TagsOnly(outTags) = payload
    <2>1. Len(outTags) = Len(payload)
      BY <1>4, <1>5 DEF IInv, ParserTypeOK
    <2>2. \A l \in 1 .. Len(payload) : Copies(outTags[l], payload[l], Len(payload[l]))
      BY <1>3, <1>4, <1>5 DEF IInv, SerializerInv
    <2> DEFINE row(l) == [i \in 1 .. Len(outTags[l]) |-> [id |-> outTags[l][i].id, type |-> outTags[l][i].type]]
    <2>3. ASSUME NEW l \in 1 .. Len(payload)
          PROVE  row(l) = payload[l]
      <3> DEFINE P == payload[l]
      <3>1. P \in Seq(FieldTags) /\ Len(P) \in Nat /\ Len(outTags[l]) = Len(P)
        BY <1>2, <2>2 DEF Copies
      <3>2. P = [i \in 1 .. Len(P) |-> P[i]]
        BY <3>1
      <3>3. ASSUME NEW i \in 1 .. Len(P)
            PROVE  [id |-> outTags[l][i].id, type |-> outTags[l][i].type] = P[i]
        <4>1. outTags[l][i].id = P[i].id /\ outTags[l][i].type = P[i].type
          BY <2>2 DEF Copies
        <4>2. P[i] \in FieldTags
          BY <3>1
        <4> QED
          BY <4>1, <4>2, TagIsRecord
      <3> HIDE DEF P
      <3>4. row(l) = [i \in 1 .. Len(P) |-> P[i]]
        BY <3>1, <3>3
      <3> QED
        BY <3>2, <3>4 DEF P
    <2>4. payload = [l \in 1 .. Len(payload) |-> payload[l]]
      BY <1>1
    <2>5. TagsOnly(outTags) = [l \in 1 .. Len(outTags) |-> row(l)]
      BY DEF TagsOnly
    <2> HIDE DEF row
    <2>6. [l \in 1 .. Len(outTags) |-> row(l)] = [l \in 1 .. Len(payload) |-> payload[l]]
      BY <2>1, <2>3
    <2> QED
      BY <2>4, <2>5, <2>6
  <1>6. ASSUME phase = "done", transform = "Merger"
        PROVE  /\ Len(outTags) = Len(payload)
               /\ \A l \in 1 .. Len(payload) : \A i \in 1 .. Len(payload[l]) :
                    (l > Len(Schema) \/ payload[l][i].id \notin Ids(Schema[l])) =>
                        \E j \in 1 .. Len(outTags[l]) :
                            outTags[l][j] = [id |-> payload[l][i].id, type |-> payload[l][i].type, from |-> "payload"]
    <2>1. Len(outTags) = Len(payload)
      BY <1>4, <1>6 DEF IInv, ParserTypeOK
    <2>2. \A l \in 1 .. Len(payload) : Kept(outTags[l], payload[l], Known(l), Len(payload[l]))
      BY <1>3, <1>4, <1>6 DEF IInv, KeptInv
    <2>3. ASSUME NEW l \in 1 .. Len(payload), NEW i \in 1 .. Len(payload[l]),
                 l > Len(Schema) \/ payload[l][i].id \notin Ids(Schema[l])
          PROVE  \E j \in 1 .. Len(outTags[l]) :
                     outTags[l][j] = [id |-> payload[l][i].id, type |-> payload[l][i].type, from |-> "payload"]
      <3>1. payload[l][i].id \notin Known(l)
        BY <2>3 DEF Known
      <3>2. i <= Len(payload[l])
        BY <1>2
      <3> QED
        BY <2>2, <3>1, <3>2 DEF Kept
    <2> QED
      BY <2>1, <2>3
  <1>7. \A l \in 1 .. Len(outTags) : Sorted(outTags[l])
    <2>1. CASE transform = "To"
      <3>1. outTags = << <<>> >>
        BY <2>1 DEF IInv, ParserTypeOK
      <3>2. Len(<< <<>> >>) = 1 /\ << <<>> >>[1] = <<>>
        OBVIOUS
      <3>3. Sorted(<<>>)
        BY DEF Sorted
      <3>4. \A l \in 1 .. 1 : l = 1
        OBVIOUS
      <3> QED
        BY <3>1, <3>2, <3>3, <3>4
    <2>2. CASE transform # "To"
      BY <2>2 DEF IInv, ParserTypeOK, OrderInv
    <2> QED
      BY <2>1, <2>2
  <1> QED
    BY <1>5, <1>6, <1>7 DEF UnknownFieldsKept

(* bonded<T>::Serialize and Merge do not lose what the schema does not     *)
(* know: a Serializer's output has every tag of the payload, a Merger's    *)
(* has the unknown ones, and the tags of both come by increasing id.       *)
THEOREM UnknownFieldsAreKept == ParserSpec => []UnknownFieldsKept
  <1>1. IInv => UnknownFieldsKept
    BY KeptFromInv
  <1> QED
    BY <1>1, Invariance, PTL

LEMMA LossFromInv ==
    ASSUME IInv
    PROVE  MergeLossIsKnown
  <1> SUFFICES ASSUME phase = "done", transform = "Merger", NEW y \in Lost
               PROVE  LET schemaIds == Ids(Schema[y[1]])
                          typeOf == CHOOSE u \in Types : \E i \in 1 .. Len(Schema[y[1]]) :
                                        Schema[y[1]][i].id = y[2] /\ Schema[y[1]][i].type = u
                      IN  \E j \in 1 .. Len(payload[y[1]]) :
                              LET t == payload[y[1]][j]
                              IN  \/ t.id = y[2] /\ t.type # typeOf
                                  \/ t.id < y[2] /\ \A s \in schemaIds : s < y[2] => s < t.id
    BY DEF MergeLossIsKnown
  <1>1. y \in object /\ object \subseteq AllFields
    BY DEF Lost, IInv, ParserTypeOK
  <1>2. PICK l \in 1 .. Len(Schema) : y \in {l} \X Ids(Schema[l])
    BY <1>1 DEF AllFields
  <1>3. PICK x \in Ids(Schema[l]) : y = <<l, x>>
    BY <1>2
  <1> DEFINE S == Schema[l]
             P == payload[l]
  <1>4. PICK i \in 1 .. Len(S) : S[i].id = x
    BY <1>3 DEF Ids
  <1>5. y[1] = l /\ y[2] = x
    BY <1>3
  <1>6. S \in Seq(SchemaFields) /\ Sorted(S) /\ Len(S) \in Nat /\ \A k \in 1 .. Len(S) : S[k].id \in Nat
    BY Shapes, FieldsShape
  <1>7. S[i].type \in Types
    BY <1>6, FieldShape
  <1>8. level = Len(Schema) /\ field = Len(Schema[level]) + 1 /\ Len(Schema) \in Nat
    BY Shapes DEF IInv, PlaceInv, ParserTypeOK
  <1>9. Settled(S, P, outTags[l], object, l, Len(S) + 1)
    <2>1. l \in 1 .. level - 1 \/ l = level
      BY <1>8
    <2> QED
      BY <1>8, <2>1 DEF IInv, LossInv
  <1>10. ~Written(outTags[l], x)
    BY <1>5 DEF Lost, Written
  <1>11. Excused(S, P, x, S[i].type)
    <2>1. i < Len(S) + 1 /\ <<l, S[i].id>> \in object
      BY <1>1, <1>3, <1>4, <1>6
    <2> QED
      BY <1>4, <1>9, <1>10, <2>1 DEF Settled
  <1> DEFINE typeOf == CHOOSE u \in Types : \E k \in 1 .. Len(S) : S[k].id = x /\ S[k].type = u
  <1>12. typeOf = S[i].type
    <2>1. \A k \in 1 .. Len(S) : S[k].id = x => k = i
      BY <1>4, <1>6, SortedUnique
    <2>2. \A u \in Types : (\E k \in 1 .. Len(S) : S[k].id = x /\ S[k].type = u) <=> u = S[i].type
      BY <1>4, <2>1
    <2> QED
      BY <1>7, <2>2
  <1>13. \E j \in 1 .. Len(P) :
            \/ P[j].id = x /\ P[j].type # typeOf
            \/ P[j].id < x /\ \A s \in Ids(S) : s < x => s < P[j].id
    BY <1>11, <1>12 DEF Excused
  <1> QED
    BY <1>5, <1>13

(* Merger (merge.h) drops a field of the object only where the payload has *)
(* the field in another type, or lacks it and has an unknown tag between   *)
(* it and the schema field before it (the loop of parser.h then leaves the *)
(* field without OmittedField).                                            *)
THEOREM MergeLossesAreKnown == ParserSpec => []MergeLossIsKnown
  <1>1. IInv => MergeLossIsKnown
    BY LossFromInv
  <1> QED
    BY <1>1, Invariance, PTL
=============================================================================
