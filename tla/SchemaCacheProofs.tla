------------------------- MODULE SchemaCacheProofs --------------------------
(***************************************************************************)
(* What SchemaCache<T>::Get hands out is a complete schema: proofs about   *)
(* module SchemaCache, for any set of threads, any structs that refer to   *)
(* each other in any way, and whatever a type and its TypeDef are.         *)
(***************************************************************************)
EXTENDS SchemaCache, SequenceTheorems, TLAPS

(* What is declared, and what is made of it.                               *)
AllFields == UNION {Range(Decls[n].fields) : n \in DOMAIN Decls}

BaseVisit(n) == [id |-> BaseId, type |-> BaseType(n)]

AllVisits == AllFields \cup {BaseVisit(n) : n \in {m \in DOMAIN Decls : Decls[m].base # "none"}}

FieldDefs == UNION {{[id |-> f.id, modifier |-> f.modifier, type |-> TypeDef(f.type, i)] : i \in Nat} : f \in AllFields}

BaseDefs == {<<TypeDef(BaseType(n), i)>> : n \in DOMAIN Decls, i \in Nat}

StructDefs == [name : DOMAIN Decls, base : {<<>>} \cup BaseDefs, fields : Seq(FieldDefs)]

Frames == [this : Nat, todo : Seq(AllVisits), struct_def : Nat]

CacheTypeOK ==
    /\ cache \in [Roots -> [flag : {"unset", "running", "done"}, structs : Seq(StructDefs)]]
    /\ getting \in [Threads -> Roots \cup {"idle"}]
    /\ building \in [Threads -> Seq(Frames)]

-----------------------------------------------------------------------------
(* How many of the visits of a struct are of a base.                       *)
Bases(n) == IF Decls[n].base = "none" THEN 0 ELSE 1

(* Struct i of the vector has been filled by its first m visits.           *)
FilledFields(ss, i) ==
    \A k \in 1 .. Len(ss[i].fields) :
        /\ ss[i].fields[k].id = Decls[ss[i].name].fields[k].id
        /\ ss[i].fields[k].modifier = Decls[ss[i].name].fields[k].modifier
        /\ Means(ss, ss[i].fields[k].type, Decls[ss[i].name].fields[k].type)

Visited(ss, i, m) ==
    /\ m \in 0 .. Len(Visits(ss[i].name))
    /\ ss[i].base = <<>> <=> Bases(ss[i].name) = 0 \/ m = 0
    /\ ss[i].base # <<>> => Means(ss, ss[i].base[1], BaseType(ss[i].name))
    /\ Len(ss[i].fields) = IF m = 0 THEN 0 ELSE m - Bases(ss[i].name)
    /\ FilledFields(ss, i)

(* A transform has still to make the last visits of its struct.            *)
Place(ss, f) == Len(Visits(ss[f.this].name)) - Len(f.todo)

FrameInv(ss, f) ==
    /\ f.this \in 1 .. Len(ss)
    /\ Visited(ss, f.this, Place(ss, f))
    /\ \A k \in 1 .. Len(f.todo) : f.todo[k] = Visits(ss[f.this].name)[Place(ss, f) + k]

(* The structs of a vector have different names, the first is the root.    *)
VectorInv(ss, n) ==
    /\ Len(ss) >= 1 /\ ss[1].name = n
    /\ \A i, j \in 1 .. Len(ss) : ss[i].name = ss[j].name => i = j

(* A transform that waits for an inner one has its index and waits for the *)
(* struct that its next field is made of.                                  *)
Waits(ss, outer, inner) ==
    /\ outer.todo # <<>>
    /\ outer.struct_def = inner.this
    /\ ss[inner.this].name \in StructIn(outer.todo[1].type)

StackInv(ss, st) ==
    /\ \A k \in 1 .. Len(st) : FrameInv(ss, st[k])
    /\ \A j, k \in 1 .. Len(st) : st[j].this = st[k].this => j = k
    /\ \A k \in 1 .. Len(st) - 1 : Waits(ss, st[k], st[k + 1])

(* The innermost waits for none.                                           *)
TopInv(st) == st[Len(st)].struct_def = 0

(* A struct that no transform is filling is complete.                      *)
Complete(ss, i) == Visited(ss, i, Len(Visits(ss[i].name)))

RestComplete(ss, st) ==
    \A i \in 1 .. Len(ss) : (\A k \in 1 .. Len(st) : st[k].this # i) => Complete(ss, i)

BuildInv ==
    \A t \in Threads : building[t] # <<>> =>
        /\ getting[t] \in Roots
        /\ cache[getting[t]].flag = "running"
        /\ VectorInv(cache[getting[t]].structs, getting[t])
        /\ StackInv(cache[getting[t]].structs, building[t])
        /\ TopInv(building[t])
        /\ RestComplete(cache[getting[t]].structs, building[t])

(* call_once: one thread builds a schema.                                  *)
OnceInv ==
    \A s, t \in Threads : building[s] # <<>> /\ building[t] # <<>> /\ getting[s] = getting[t] => s = t

DoneInv == \A n \in Roots : cache[n].flag = "done" => Describes(n)

IInv ==
    /\ CacheTypeOK
    /\ BuildInv
    /\ OnceInv
    /\ DoneInv

-----------------------------------------------------------------------------
(* What the parser visits of a declared struct.                            *)
LEMMA FieldFacts ==
    ASSUME NEW n \in DOMAIN Decls
    PROVE  /\ Decls[n].fields \in Seq(AllFields)
           /\ \A k \in 1 .. Len(Decls[n].fields) : Decls[n].fields[k].id # BaseId
  <1>1. Decls[n].fields \in Seq(Range(Decls[n].fields))
    BY DeclsAssumption
  <1>2. Range(Decls[n].fields) \subseteq AllFields
    BY DEF AllFields
  <1>3. Decls[n].fields \in Seq(AllFields)
    BY <1>1, <1>2, SeqMonotonic
  <1>4. \A k \in 1 .. Len(Decls[n].fields) : Decls[n].fields[k] \in Range(Decls[n].fields)
    BY <1>1, ElementOfSeq
  <1> QED
    BY <1>3, <1>4, DeclsAssumption

LEMMA VisitFacts ==
    ASSUME NEW n \in DOMAIN Decls
    PROVE  /\ Visits(n) \in Seq(AllVisits)
           /\ Len(Visits(n)) = Bases(n) + Len(Decls[n].fields)
           /\ Bases(n) = 1 => Visits(n)[1] = BaseVisit(n)
           /\ \A k \in 1 .. Len(Decls[n].fields) : Visits(n)[Bases(n) + k] = Decls[n].fields[k]
  <1> DEFINE b == IF Decls[n].base = "none" THEN <<>> ELSE <<BaseVisit(n)>>
  <1>1. Visits(n) = b \o Decls[n].fields
    BY DEF Visits, BaseVisit
  <1>2. b \in Seq(AllVisits) /\ Len(b) = Bases(n) /\ (Bases(n) = 1 => b[1] = BaseVisit(n))
    <2>1. CASE Decls[n].base = "none"
      BY <2>1 DEF Bases
    <2>2. CASE Decls[n].base # "none"
      BY <2>2 DEF Bases, AllVisits
    <2> QED
      BY <2>1, <2>2
  <1>3. Decls[n].fields \in Seq(AllVisits)
    BY FieldFacts, SeqMonotonic DEF AllVisits
  <1> HIDE DEF b
  <1>4. Bases(n) \in {0, 1}
    BY DEF Bases
  <1>5. /\ b \o Decls[n].fields \in Seq(AllVisits)
        /\ Len(b \o Decls[n].fields) = Len(b) + Len(Decls[n].fields)
        /\ \A i \in 1 .. Len(b) + Len(Decls[n].fields) :
               (b \o Decls[n].fields)[i] = IF i <= Len(b) THEN b[i] ELSE Decls[n].fields[i - Len(b)]
    BY <1>2, <1>3, ConcatProperties
  <1>6. Len(Decls[n].fields) \in Nat
    BY <1>3
  <1>7. Bases(n) = 1 => Visits(n)[1] = BaseVisit(n)
    BY <1>1, <1>2, <1>5, <1>6
  <1>8. ASSUME NEW k \in 1 .. Len(Decls[n].fields) PROVE Visits(n)[Bases(n) + k] = Decls[n].fields[k]
    <2>1. PICK i \in Nat : i = Bases(n) + k
      BY <1>4, <1>6
    <2>2. i \in 1 .. Len(b) + Len(Decls[n].fields) /\ ~(i <= Len(b)) /\ i - Len(b) = k
      BY <2>1, <1>2, <1>4, <1>6
    <2>3. (b \o Decls[n].fields)[i] = Decls[n].fields[i - Len(b)]
      BY <2>2, <1>5, Zenon
    <2> QED
      BY <2>1, <2>2, <2>3, <1>1, Zenon
  <1> QED
    BY <1>1, <1>2, <1>5, <1>7, <1>8

(* A vector of which the structs keep their names and their places.        *)
Keeps(ss, tt) ==
    /\ Len(ss) <= Len(tt)
    /\ \A i \in 1 .. Len(ss) : tt[i].name = ss[i].name

LEMMA MeansKept ==
    ASSUME NEW ss \in Seq(StructDefs), NEW tt \in Seq(StructDefs), Keeps(ss, tt),
           NEW type, NEW T, Means(ss, type, T)
    PROVE  Means(tt, type, T)
  <1>1. DOMAIN ss = 1 .. Len(ss) /\ DOMAIN tt = 1 .. Len(tt) /\ Len(ss) \in Nat /\ Len(tt) \in Nat
    BY LenProperties
  <1> QED
    BY <1>1 DEF Means, Keeps

LEMMA VisitedKept ==
    ASSUME NEW ss \in Seq(StructDefs), NEW tt \in Seq(StructDefs), Keeps(ss, tt),
           NEW i \in 1 .. Len(ss), tt[i] = ss[i], NEW m, Visited(ss, i, m)
    PROVE  Visited(tt, i, m)
  <1>1. \A type, T : Means(ss, type, T) => Means(tt, type, T)
    BY MeansKept
  <1> QED
    BY <1>1 DEF Visited, FilledFields

LEMMA FrameKept ==
    ASSUME NEW ss \in Seq(StructDefs), NEW tt \in Seq(StructDefs), Keeps(ss, tt),
           NEW f, FrameInv(ss, f), tt[f.this] = ss[f.this]
    PROVE  FrameInv(tt, f)
  <1>1. f.this \in 1 .. Len(ss) /\ Visited(ss, f.this, Place(ss, f))
    BY DEF FrameInv
  <1>2. Place(tt, f) = Place(ss, f)
    BY DEF Place
  <1>3. Visited(tt, f.this, Place(tt, f))
    BY <1>1, <1>2, VisitedKept
  <1>4. f.this \in 1 .. Len(tt)
    BY <1>1, LenProperties DEF Keeps
  <1> QED
    BY <1>2, <1>3, <1>4 DEF FrameInv

(* Every visit of a struct is of its base, if it is the first of a struct  *)
(* that has one, or else of a field.                                       *)
LEMMA VisitKinds ==
    ASSUME NEW n \in DOMAIN Decls, NEW m \in Nat, m < Len(Visits(n))
    PROVE  \/ /\ m = 0 /\ Bases(n) = 1
              /\ Visits(n)[m + 1] = BaseVisit(n)
           \/ /\ m >= Bases(n) /\ m + 1 - Bases(n) \in 1 .. Len(Decls[n].fields)
              /\ Visits(n)[m + 1] = Decls[n].fields[m + 1 - Bases(n)]
  <1>1. Bases(n) \in {0, 1}
    BY DEF Bases
  <1>2. Len(Decls[n].fields) \in Nat
    BY FieldFacts
  <1>3. CASE m = 0 /\ Bases(n) = 1
    BY <1>3, VisitFacts
  <1>4. CASE m >= Bases(n)
    <2> DEFINE k == m + 1 - Bases(n)
    <2>1. k \in 1 .. Len(Decls[n].fields) /\ m + 1 = Bases(n) + k
      BY <1>1, <1>2, <1>4, VisitFacts
    <2> QED
      BY <1>4, <2>1, VisitFacts
  <1> QED
    BY <1>1, <1>3, <1>4

LEMMA VisitSizes ==
    ASSUME NEW n \in DOMAIN Decls
    PROVE  Bases(n) \in {0, 1} /\ Len(Decls[n].fields) \in Nat /\ Len(Visits(n)) = Bases(n) + Len(Decls[n].fields)
  <1>1. Bases(n) \in {0, 1}
    BY DEF Bases
  <1>2. Len(Decls[n].fields) \in Nat
    BY FieldFacts
  <1> QED
    BY <1>1, <1>2, VisitFacts

LEMMA AppendFacts ==
    ASSUME NEW S, NEW q \in Seq(S), NEW e \in S
    PROVE  /\ Append(q, e) \in Seq(S) /\ Len(Append(q, e)) = Len(q) + 1
           /\ \A j \in 1 .. Len(q) : Append(q, e)[j] = q[j]
           /\ Append(q, e)[Len(q) + 1] = e
  BY AppendProperties

(* A StructDef and a vector of them after an assignment.                   *)
WithBase(s, type) == [s EXCEPT !.base = <<type>>]

WithField(s, x) == [s EXCEPT !.fields = Append(@, x)]

WithStruct(ss, i, d) == [ss EXCEPT ![i] = d]

(* One struct of the vector is replaced by one of the same name.           *)
LEMMA ReplaceStruct ==
    ASSUME NEW ss \in Seq(StructDefs), NEW i \in 1 .. Len(ss), NEW d \in StructDefs, d.name = ss[i].name,
           NEW tt, tt = WithStruct(ss, i, d)
    PROVE  /\ tt \in Seq(StructDefs) /\ Len(tt) = Len(ss) /\ Keeps(ss, tt)
           /\ tt[i] = d
           /\ \A j \in 1 .. Len(ss) : j # i => tt[j] = ss[j]
  <1>1. /\ tt \in Seq(StructDefs) /\ Len(tt) = Len(ss)
        /\ \A j \in 1 .. Len(ss) : tt[j] = IF j = i THEN d ELSE ss[j]
    BY ExceptSeq DEF WithStruct
  <1>2. Len(ss) \in Nat
    OBVIOUS
  <1>3. Keeps(ss, tt)
    BY <1>1, <1>2 DEF Keeps
  <1> QED
    BY <1>1, <1>3

(* Base and Field make one more visit of the struct they fill.             *)
LEMMA BaseVisited ==
    ASSUME NEW ss \in Seq(StructDefs), NEW tt \in Seq(StructDefs), Keeps(ss, tt),
           NEW i \in 1 .. Len(ss), NEW n \in DOMAIN Decls, n = ss[i].name, n = tt[i].name,
           Visited(ss, i, 0), Bases(n) = 1, NEW type, Means(ss, type, BaseType(n)),
           tt[i].base = <<type>>, tt[i].fields = ss[i].fields
    PROVE  Visited(tt, i, 1)
  <1>7. Means(tt, type, BaseType(n))
    BY MeansKept
  <1>8. Len(Visits(n)) \in Nat /\ Len(Visits(n)) >= 1
    BY VisitFacts, FieldFacts
  <1>9. Len(ss[i].fields) = 0
    BY DEF Visited
  <1>11. FilledFields(tt, i)
    BY <1>9 DEF FilledFields
  <1>12. <<type>> # <<>> /\ <<type>>[1] = type
    OBVIOUS
  <1>13. 1 \in 0 .. Len(Visits(n)) /\ 1 # 0 /\ 0 = 1 - Bases(n) /\ Bases(n) # 0
    BY <1>8
  <1>14. Len(tt[i].fields) = IF 1 = 0 THEN 0 ELSE 1 - Bases(n)
    BY <1>9
  <1> QED
    BY <1>7, <1>11, <1>12, <1>13, <1>14, Zenon DEF Visited

IsField(ss, x, n, k) ==
    /\ k \in 1 .. Len(Decls[n].fields)
    /\ x.id = Decls[n].fields[k].id
    /\ x.modifier = Decls[n].fields[k].modifier
    /\ Means(ss, x.type, Decls[n].fields[k].type)

HasField(s, d, x) ==
    /\ d.name = s.name /\ d.base = s.base
    /\ Len(d.fields) = Len(s.fields) + 1
    /\ \A j \in 1 .. Len(s.fields) : d.fields[j] = s.fields[j]
    /\ d.fields[Len(s.fields) + 1] = x

LEMMA FieldVisited ==
    ASSUME NEW ss \in Seq(StructDefs), NEW tt \in Seq(StructDefs), Keeps(ss, tt),
           NEW i \in 1 .. Len(ss), NEW n \in DOMAIN Decls, n = ss[i].name,
           NEW m \in Nat, Visited(ss, i, m), m >= Bases(n),
           NEW x, IsField(ss, x, n, m + 1 - Bases(n)), HasField(ss[i], tt[i], x)
    PROVE  Visited(tt, i, m + 1)
  <1>1. PICK k \in Nat : k = m + 1 - Bases(n) /\ k \in 1 .. Len(Decls[n].fields)
    BY DEF IsField
  <1>2. PICK p \in Nat : p = m + 1
    OBVIOUS
  <1>3. /\ x.id = Decls[n].fields[k].id
        /\ x.modifier = Decls[n].fields[k].modifier
        /\ Means(ss, x.type, Decls[n].fields[k].type)
    BY <1>1, Zenon DEF IsField
  <1>4. /\ tt[i].name = n /\ tt[i].base = ss[i].base
        /\ Len(tt[i].fields) = Len(ss[i].fields) + 1
        /\ \A j \in 1 .. Len(ss[i].fields) : tt[i].fields[j] = ss[i].fields[j]
        /\ tt[i].fields[Len(ss[i].fields) + 1] = x
    BY Zenon DEF HasField
  <1>11. \A y, T : Means(ss, y, T) => Means(tt, y, T)
    BY MeansKept
  <1>13. Bases(n) \in {0, 1} /\ Len(Decls[n].fields) \in Nat /\ Len(Visits(n)) = Bases(n) + Len(Decls[n].fields)
    BY VisitSizes
  <1>14. Len(ss[i].fields) = k - 1
    <2>1. Len(ss[i].fields) = IF m = 0 THEN 0 ELSE m - Bases(n)
      BY DEF Visited
    <2> QED
      BY <2>1, <1>1, <1>2, <1>13
  <1>15. FilledFields(tt, i)
    <2> SUFFICES ASSUME NEW j \in 1 .. Len(tt[i].fields)
                 PROVE  /\ tt[i].fields[j].id = Decls[n].fields[j].id
                        /\ tt[i].fields[j].modifier = Decls[n].fields[j].modifier
                        /\ Means(tt, tt[i].fields[j].type, Decls[n].fields[j].type)
      BY <1>4, Zenon DEF FilledFields
    <2>0. Len(tt[i].fields) = k
      BY <1>1, <1>4, <1>14
    <2>1. CASE j = k
      <3>1. tt[i].fields[j] = x
        BY <2>1, <2>0, <1>4, <1>14
      <3>3. Means(tt, x.type, Decls[n].fields[k].type)
        BY <1>3, <1>11, Zenon
      <3> QED
        BY <3>1, <2>1, <3>3, <1>3, Zenon
    <2>2. CASE j # k
      <3>1. j \in 1 .. Len(ss[i].fields) /\ tt[i].fields[j] = ss[i].fields[j]
        BY <2>0, <2>2, <1>1, <1>4, <1>14
      <3>2. FilledFields(ss, i)
        BY DEF Visited
      <3>3. /\ ss[i].fields[j].id = Decls[n].fields[j].id
            /\ ss[i].fields[j].modifier = Decls[n].fields[j].modifier
            /\ Means(ss, ss[i].fields[j].type, Decls[n].fields[j].type)
        BY <3>1, <3>2, Zenon DEF FilledFields
      <3> QED
        BY <3>1, <3>3, <1>11, Zenon
    <2> QED
      BY <2>1, <2>2
  <1>16. p \in 0 .. Len(Visits(n)) /\ p # 0 /\ Len(tt[i].fields) = p - Bases(n)
    <2>1. Len(tt[i].fields) = k
      BY <1>1, <1>4, <1>14
    <2>2. Len(tt[i].fields) = p - Bases(n)
      BY <2>1, <1>1, <1>2, <1>13
    <2>3. p <= Len(Visits(n)) /\ Len(Visits(n)) \in Nat
      BY <1>1, <1>2, <1>13
    <2> QED
      BY <2>2, <2>3, <1>2
  <1>17. ss[i].base = <<>> <=> Bases(n) = 0
    <2>1. ss[i].base = <<>> <=> Bases(n) = 0 \/ m = 0
      BY DEF Visited
    <2> QED
      BY <2>1, <1>1, <1>2, <1>13
  <1>18. ss[i].base # <<>> => Means(tt, ss[i].base[1], BaseType(n))
    <2>1. ss[i].base # <<>> => Means(ss, ss[i].base[1], BaseType(n))
      BY DEF Visited
    <2> QED
      BY <2>1, <1>11
  <1> QED
    <2>1. Visited(tt, i, p)
      BY <1>4, <1>15, <1>16, <1>17, <1>18, Zenon DEF Visited
    <2> QED
      BY <2>1, <1>2

(* The StructDefs that Base and Field make.                                *)
LEMMA NewBase ==
    ASSUME NEW s \in StructDefs, NEW n \in DOMAIN Decls, NEW index \in Nat,
           NEW d, d = WithBase(s, TypeDef(BaseType(n), index))
    PROVE  d \in StructDefs /\ d.name = s.name /\ d.base = <<TypeDef(BaseType(n), index)>> /\ d.fields = s.fields
  <1>1. <<TypeDef(BaseType(n), index)>> \in BaseDefs
    BY DEF BaseDefs
  <1> QED
    BY <1>1 DEF StructDefs, WithBase

LEMMA NewField ==
    ASSUME NEW v \in AllFields, NEW index \in Nat
    PROVE  [id |-> v.id, modifier |-> v.modifier, type |-> TypeDef(v.type, index)] \in FieldDefs
  <1> DEFINE x == [id |-> v.id, modifier |-> v.modifier, type |-> TypeDef(v.type, index)]
  <1>1. x \in {[id |-> v.id, modifier |-> v.modifier, type |-> TypeDef(v.type, j)] : j \in Nat}
    BY Zenon
  <1> QED
    BY <1>1, Zenon DEF FieldDefs

LEMMA NewFields ==
    ASSUME NEW s \in StructDefs, NEW x \in FieldDefs,
           NEW d, d = WithField(s, x)
    PROVE  d \in StructDefs /\ HasField(s, d, x)
  <1>3. s.fields \in Seq(FieldDefs)
    BY DEF StructDefs
  <1>4. /\ Append(s.fields, x) \in Seq(FieldDefs) /\ Len(Append(s.fields, x)) = Len(s.fields) + 1
        /\ \A j \in 1 .. Len(s.fields) : Append(s.fields, x)[j] = s.fields[j]
        /\ Append(s.fields, x)[Len(s.fields) + 1] = x
    BY <1>3, AppendFacts
  <1>5. d \in StructDefs /\ d.name = s.name /\ d.base = s.base /\ d.fields = Append(s.fields, x)
    BY <1>4 DEF StructDefs, WithField
  <1> QED
    BY <1>4, <1>5, Zenon DEF HasField

LEMMA FilledIsBase ==
    ASSUME NEW ss, NEW f, NEW index, Head(f.todo).id = BaseId, NEW d,
           d = WithBase(ss[f.this], TypeDef(Head(f.todo).type, index))
    PROVE  Filled(ss, f, index) = WithStruct(ss, f.this, d)
  BY DEF Filled, WithStruct, WithBase, WithField

LEMMA FilledIsField ==
    ASSUME NEW ss, NEW f, NEW index, Head(f.todo).id # BaseId, NEW d,
           d = WithField(ss[f.this], [id |-> Head(f.todo).id, modifier |-> Head(f.todo).modifier,
                                       type |-> TypeDef(Head(f.todo).type, index)])
    PROVE  Filled(ss, f, index) = WithStruct(ss, f.this, d)
  BY DEF Filled, WithStruct, WithBase, WithField

LEMMA FillStep ==
    ASSUME NEW ss \in Seq(StructDefs), NEW f \in Frames, FrameInv(ss, f), f.todo # <<>>,
           NEW index \in Nat, Means(ss, TypeDef(f.todo[1].type, index), f.todo[1].type),
           NEW g \in Frames, g.this = f.this, g.todo = Tail(f.todo),
           NEW tt, tt = Filled(ss, f, index)
    PROVE  /\ tt \in Seq(StructDefs) /\ Len(tt) = Len(ss) /\ Keeps(ss, tt)
           /\ \A j \in 1 .. Len(ss) : j # f.this => tt[j] = ss[j]
           /\ FrameInv(tt, g)
  <1>1. PICK i \in 1 .. Len(ss) : i = f.this
    BY DEF FrameInv
  <1>2. ss[i] \in StructDefs
    BY ElementOfSeq
  <1>3. PICK n \in DOMAIN Decls : n = ss[i].name
    BY <1>2 DEF StructDefs
  <1>4. f.todo \in Seq(AllVisits) /\ Len(f.todo) \in Nat /\ Len(f.todo) > 0
    BY DEF Frames
  <1>5. /\ Tail(f.todo) \in Seq(AllVisits) /\ Len(Tail(f.todo)) = Len(f.todo) - 1
        /\ \A k \in 1 .. Len(f.todo) - 1 : Tail(f.todo)[k] = f.todo[k + 1]
        /\ Head(f.todo) = f.todo[1]
    BY <1>4, HeadTailProperties
  <1>6. Len(Visits(n)) \in Nat
    BY VisitFacts
  <1>7. PICK m \in Nat : m = Place(ss, f) /\ m + Len(f.todo) = Len(Visits(n))
    <2>1. Place(ss, f) \in 0 .. Len(Visits(n)) /\ Place(ss, f) = Len(Visits(n)) - Len(f.todo)
      BY <1>1, <1>3 DEF FrameInv, Visited, Place
    <2>2. Place(ss, f) \in Nat /\ Place(ss, f) + Len(f.todo) = Len(Visits(n))
      BY <2>1, <1>4, <1>6
    <2> QED
      BY <2>2, Zenon
  <1>8. Visited(ss, i, m) /\ \A k \in 1 .. Len(f.todo) : f.todo[k] = Visits(n)[m + k]
    BY <1>1, <1>3, <1>7, Zenon DEF FrameInv
  <1>9. PICK v : v = f.todo[1] /\ v = Visits(n)[m + 1] /\ v = Head(f.todo)
    BY <1>4, <1>5, <1>8
  <1>10. PICK type : type = TypeDef(v.type, index) /\ Means(ss, type, v.type)
    BY <1>9, Zenon
  <1>11. ASSUME NEW d \in StructDefs, d.name = n, tt = WithStruct(ss, i, d), Keeps(ss, tt) => Visited(tt, i, m + 1)
         PROVE  /\ tt \in Seq(StructDefs) /\ Len(tt) = Len(ss) /\ Keeps(ss, tt)
                /\ \A j \in 1 .. Len(ss) : j # f.this => tt[j] = ss[j]
                /\ FrameInv(tt, g)
    <2>1. /\ tt \in Seq(StructDefs) /\ Len(tt) = Len(ss) /\ Keeps(ss, tt)
          /\ tt[i] = d
          /\ \A j \in 1 .. Len(ss) : j # i => tt[j] = ss[j]
      <3>1. d.name = ss[i].name
        BY <1>3, <1>11
      <3> QED
        BY <1>11, <3>1, ReplaceStruct
    <2>2. Visited(tt, i, m + 1) /\ tt[i].name = n
      BY <2>1, <1>11
    <2>3. Place(tt, g) = m + 1
      <3>1. Place(tt, g) = Len(Visits(n)) - Len(Tail(f.todo))
        BY <2>2, <1>1, Zenon DEF Place
      <3> QED
        BY <3>1, <1>4, <1>5, <1>6, <1>7
    <2>4. ASSUME NEW k \in 1 .. Len(g.todo) PROVE g.todo[k] = Visits(n)[m + 1 + k]
      <3>1. k \in 1 .. Len(f.todo) - 1 /\ k + 1 \in 1 .. Len(f.todo) /\ m + (k + 1) = m + 1 + k
        BY <1>4, <1>5
      <3> QED
        BY <3>1, <1>5, <1>8, Zenon
    <2>5. FrameInv(tt, g)
      BY <2>1, <2>2, <2>3, <2>4, <1>1, Zenon DEF FrameInv
    <2> QED
      BY <2>1, <2>5, <1>1, Zenon
  <1>12. CASE m = 0 /\ Bases(n) = 1 /\ v = BaseVisit(n)
    <2>1. v.id = BaseId /\ v.type = BaseType(n)
      BY <1>12 DEF BaseVisit
    <2>2. PICK d : d = WithBase(ss[i], type)
      BY Zenon
    <2>3. tt = WithStruct(ss, i, d)
      <3>1. d = WithBase(ss[f.this], TypeDef(Head(f.todo).type, index)) /\ Head(f.todo).id = BaseId
        BY <2>1, <2>2, <1>1, <1>9, <1>10, Zenon
      <3> QED
        BY <3>1, <1>1, FilledIsBase, Zenon
    <2>4. d \in StructDefs /\ d.name = ss[i].name /\ d.base = <<type>> /\ d.fields = ss[i].fields
      <3>1. type = TypeDef(BaseType(n), index)
        BY <2>1, <1>10, Zenon
      <3>2. d = WithBase(ss[i], TypeDef(BaseType(n), index))
        BY <2>2, <3>1, Zenon
      <3> QED
        BY <3>1, <3>2, <1>2, NewBase
    <2>5. /\ tt \in Seq(StructDefs) /\ tt[i] = d
      BY <2>3, <2>4, ReplaceStruct
    <2>6. ASSUME Keeps(ss, tt) PROVE Visited(tt, i, 1)
      <3>1. n = tt[i].name /\ tt[i].base = <<type>> /\ tt[i].fields = ss[i].fields
        BY <2>4, <2>5, <1>3, Zenon
      <3>2. Visited(ss, i, 0) /\ Means(ss, type, BaseType(n))
        BY <2>1, <1>8, <1>10, <1>12, Zenon
      <3> QED
        BY <3>1, <3>2, <2>5, <2>6, <1>3, <1>12, BaseVisited, Zenon
    <2>7. Keeps(ss, tt) => Visited(tt, i, m + 1)
      BY <2>6, <1>12
    <2> QED
      BY <1>3, <1>11, <2>3, <2>4, <2>7, Zenon
  <1>13. CASE /\ m >= Bases(n) /\ m + 1 - Bases(n) \in 1 .. Len(Decls[n].fields)
              /\ v = Decls[n].fields[m + 1 - Bases(n)]
    <2>1. PICK k \in Nat : /\ k = m + 1 - Bases(n) /\ k \in 1 .. Len(Decls[n].fields)
                           /\ v = Decls[n].fields[k]
      BY <1>13
    <2>2. v \in AllFields /\ v.id # BaseId
      BY <2>1, FieldFacts, ElementOfSeq
    <2>3. PICK x : x = [id |-> v.id, modifier |-> v.modifier, type |-> type]
      BY Zenon
    <2>4. x \in FieldDefs
      BY <2>2, <2>3, <1>10, NewField, Zenon
    <2>5. x.id = v.id /\ x.modifier = v.modifier /\ x.type = type
      BY <2>3
    <2>6. PICK d : d = WithField(ss[i], x)
      BY Zenon
    <2>7. tt = WithStruct(ss, i, d)
      <3>1. d = WithField(ss[f.this], [id |-> Head(f.todo).id, modifier |-> Head(f.todo).modifier,
                                       type |-> TypeDef(Head(f.todo).type, index)])
        BY <2>6, <2>3, <1>1, <1>9, <1>10, Zenon
      <3>2. Head(f.todo).id # BaseId
        BY <2>2, <1>9, Zenon
      <3> QED
        BY <3>1, <3>2, <1>1, FilledIsField, Zenon
    <2>8. d \in StructDefs /\ HasField(ss[i], d, x)
      BY <2>4, <2>6, <1>2, NewFields
    <2>9. tt \in Seq(StructDefs) /\ tt[i] = d /\ d.name = ss[i].name
      <3>1. d.name = ss[i].name
        BY <2>8 DEF HasField
      <3> QED
        BY <2>7, <2>8, <3>1, ReplaceStruct
    <2>10. ASSUME Keeps(ss, tt) PROVE Visited(tt, i, m + 1)
      <3>1. IsField(ss, x, n, k)
        BY <2>1, <2>5, <1>10, Zenon DEF IsField
      <3>2. IsField(ss, x, n, m + 1 - Bases(n)) /\ HasField(ss[i], tt[i], x) /\ m >= Bases(n)
        BY <3>1, <2>1, <2>8, <2>9, <1>13, Zenon
      <3> QED
        BY <3>2, <2>9, <2>10, <1>3, <1>8, FieldVisited, Zenon
    <2> QED
      BY <1>11, <1>3, <2>7, <2>8, <2>9, <2>10, Zenon
  <1>14. m < Len(Visits(n))
    BY <1>4, <1>6, <1>7
  <1> QED
    BY <1>9, <1>12, <1>13, <1>14, VisitKinds, Zenon

-----------------------------------------------------------------------------
(* The stack of transforms.  A visit ends and the innermost transform goes *)
(* on; su is the stack after that.                                         *)
StackOf(ss, st, T) == VectorInv(ss, T) /\ StackInv(ss, st) /\ RestComplete(ss, st)

GoesOn(f, g) == g.this = f.this /\ g.todo = Tail(f.todo) /\ g.struct_def = 0

TopIs(st, f) == Len(st) > 0 /\ f = st[Len(st)]

WithTop(st, su, g) == Len(su) = Len(st) /\ su[Len(st)] = g /\ \A k \in 1 .. Len(st) - 1 : su[k] = st[k]

LEMMA FillTop ==
    ASSUME NEW ss \in Seq(StructDefs), NEW st \in Seq(Frames), NEW T, StackOf(ss, st, T),
           NEW f \in Frames, TopIs(st, f), f.todo # <<>>,
           NEW index \in Nat, Means(ss, TypeDef(f.todo[1].type, index), f.todo[1].type),
           NEW g \in Frames, GoesOn(f, g), NEW su \in Seq(Frames), WithTop(st, su, g),
           NEW tt, tt = Filled(ss, f, index)
    PROVE  tt \in Seq(StructDefs) /\ StackOf(tt, su, T) /\ TopInv(su)
  <1>a. VectorInv(ss, T) /\ StackInv(ss, st) /\ RestComplete(ss, st)
    BY DEF StackOf
  <1>b. PICK N \in Nat : N = Len(st) /\ N > 0 /\ f = st[N]
    BY DEF TopIs
  <1>c. g.this = f.this /\ g.todo = Tail(f.todo) /\ g.struct_def = 0
    BY DEF GoesOn
  <1>d. Len(su) = N /\ su[N] = g /\ \A k \in 1 .. N - 1 : su[k] = st[k]
    BY <1>b, Zenon DEF WithTop
  <1>1. FrameInv(ss, f)
    BY <1>a, <1>b DEF StackInv
  <1>2. /\ tt \in Seq(StructDefs) /\ Len(tt) = Len(ss) /\ Keeps(ss, tt)
        /\ \A j \in 1 .. Len(ss) : j # f.this => tt[j] = ss[j]
        /\ FrameInv(tt, g)
    BY <1>1, <1>c, FillStep
  <1> USE <1>a, <1>b, <1>c, <1>d
  <1>3. \A i \in 1 .. Len(ss) : tt[i].name = ss[i].name
    BY <1>2, Zenon DEF Keeps
  <1>4. Len(ss) \in Nat
    OBVIOUS
  <1>5. VectorInv(tt, T)
    BY <1>2, <1>3, <1>4 DEF VectorInv
  <1>6. ASSUME NEW k \in 1 .. N - 1
        PROVE  su[k] = st[k] /\ FrameInv(ss, st[k]) /\ st[k].this # f.this /\ st[k].this \in 1 .. Len(ss)
    <2>1. k \in 1 .. N /\ N \in 1 .. N /\ k # N
      OBVIOUS
    <2>2. FrameInv(ss, st[k]) /\ st[k].this # st[N].this
      BY <2>1, Zenon DEF StackInv
    <2>3. st[k].this \in 1 .. Len(ss)
      BY <2>2, Zenon DEF FrameInv
    <2> QED
      BY <2>2, <2>3
  <1>7. ASSUME NEW k \in 1 .. N - 1 PROVE FrameInv(tt, su[k])
    <2>1. tt[st[k].this] = ss[st[k].this]
      BY <1>2, <1>6, Zenon
    <2>2. FrameInv(tt, st[k])
      BY <2>1, <1>2, <1>6, FrameKept, Zenon
    <2> QED
      BY <2>2, <1>6, Zenon
  <1>8. \A k \in 1 .. N : su[k].this = st[k].this
    <2> SUFFICES ASSUME NEW k \in 1 .. N PROVE su[k].this = st[k].this
      OBVIOUS
    <2>1. CASE k = N
      BY <2>1
    <2>2. CASE k # N
      BY <2>2
    <2> QED
      BY <2>1, <2>2
  <1>9. ASSUME NEW k \in 1 .. N - 1 PROVE Waits(tt, su[k], su[k + 1])
    <2>1. k \in 1 .. N /\ k + 1 \in 1 .. N
      OBVIOUS
    <2>2. Waits(ss, st[k], st[k + 1]) /\ FrameInv(ss, st[k + 1])
      BY <2>1, Zenon DEF StackInv
    <2>3. st[k + 1].this \in 1 .. Len(ss)
      BY <2>2, Zenon DEF FrameInv
    <2>4. tt[st[k + 1].this].name = ss[st[k + 1].this].name
      BY <2>3, <1>3, Zenon
    <2>5. su[k] = st[k] /\ su[k + 1].this = st[k + 1].this
      BY <2>1, <1>8, Zenon
    <2> QED
      BY <2>2, <2>4, <2>5, Zenon DEF Waits
  <1>10. ASSUME NEW k \in 1 .. N PROVE FrameInv(tt, su[k])
    <2>1. k = N \/ k \in 1 .. N - 1
      OBVIOUS
    <2> QED
      BY <2>1, <1>2, <1>7, Zenon
  <1>11. \A j, k \in 1 .. N : su[j].this = su[k].this => j = k
    <2> SUFFICES ASSUME NEW j \in 1 .. N, NEW k \in 1 .. N, su[j].this = su[k].this PROVE j = k
      BY Zenon
    <2>1. st[j].this = st[k].this
      BY <1>8, Zenon
    <2> QED
      BY <2>1, Zenon DEF StackInv
  <1>12. StackInv(tt, su)
    BY <1>9, <1>10, <1>11, Zenon DEF StackInv
  <1>13. RestComplete(tt, su)
    <2> SUFFICES ASSUME NEW i \in 1 .. Len(tt), \A k \in 1 .. N : su[k].this # i
                 PROVE  Complete(tt, i)
      BY Zenon DEF RestComplete
    <2>1. i \in 1 .. Len(ss) /\ \A k \in 1 .. N : st[k].this # i
      BY <1>2, <1>8, Zenon
    <2>2. Complete(ss, i)
      BY <2>1, Zenon DEF RestComplete
    <2>3. f.this # i
      BY <2>1
    <2>4. tt[i] = ss[i]
      BY <2>1, <2>3, <1>2, Zenon
    <2>5. Visited(tt, i, Len(Visits(ss[i].name)))
      BY <2>1, <2>2, <2>4, <1>2, VisitedKept, Zenon DEF Complete
    <2> QED
      BY <2>4, <2>5, Zenon DEF Complete
  <1>14. TopInv(su)
    BY DEF TopInv
  <1> QED
    BY <1>2, <1>5, <1>12, <1>13, <1>14 DEF StackOf

(* The innermost transform, at its end, has completed its struct.          *)
LEMMA PopTop ==
    ASSUME NEW ss \in Seq(StructDefs), NEW st \in Seq(Frames), NEW N \in Nat, N = Len(st), N > 1,
           StackInv(ss, st), RestComplete(ss, st), st[N].todo = <<>>,
           NEW su \in Seq(Frames), Len(su) = N - 1, \A k \in 1 .. N - 1 : su[k] = st[k]
    PROVE  StackInv(ss, su) /\ RestComplete(ss, su) /\ Waits(ss, su[N - 1], st[N])
  <1>1. \A k \in 1 .. N - 1 : k \in 1 .. N
    OBVIOUS
  <1>2. \A k \in 1 .. N - 1 : FrameInv(ss, su[k])
    BY <1>1, Zenon DEF StackInv
  <1>3. \A j, k \in 1 .. N - 1 : su[j].this = su[k].this => j = k
    BY <1>1, Zenon DEF StackInv
  <1>4. ASSUME NEW k \in 1 .. (N - 1) - 1 PROVE Waits(ss, su[k], su[k + 1])
    <2>1. k \in 1 .. N - 1 /\ k + 1 \in 1 .. N - 1
      OBVIOUS
    <2>2. Waits(ss, st[k], st[k + 1])
      BY <2>1, Zenon DEF StackInv
    <2> QED
      BY <2>1, <2>2, Zenon
  <1>5. StackInv(ss, su)
    BY <1>2, <1>3, <1>4, Zenon DEF StackInv
  <1>6. FrameInv(ss, st[N])
    BY DEF StackInv
  <1>7. PICK e : e = st[N].this /\ e \in 1 .. Len(ss)
    BY <1>6 DEF FrameInv
  <1>8. Complete(ss, e)
    <2>1. Len(Visits(ss[e].name)) \in Nat
      <3>1. ss[e] \in StructDefs
        BY <1>7, ElementOfSeq
      <3>2. ss[e].name \in DOMAIN Decls
        BY <3>1 DEF StructDefs
      <3> QED
        BY <3>2, VisitFacts
    <2>2. Place(ss, st[N]) = Len(Visits(ss[e].name))
      BY <2>1, <1>7 DEF Place
    <2> QED
      BY <2>2, <1>6, <1>7, Zenon DEF FrameInv, Complete
  <1>9. RestComplete(ss, su)
    <2> SUFFICES ASSUME NEW i \in 1 .. Len(ss), \A k \in 1 .. N - 1 : su[k].this # i, i # e
                 PROVE  Complete(ss, i)
      BY <1>8, Zenon DEF RestComplete
    <2>1. ASSUME NEW k \in 1 .. N PROVE st[k].this # i
      <3>1. k = N \/ k \in 1 .. N - 1
        OBVIOUS
      <3> QED
        BY <3>1, <1>7, Zenon
    <2> QED
      BY <2>1, Zenon DEF RestComplete
  <1>10. Waits(ss, su[N - 1], st[N])
    <2>1. N - 1 \in 1 .. N - 1 /\ (N - 1) + 1 = N
      OBVIOUS
    <2>2. Waits(ss, st[N - 1], st[(N - 1) + 1])
      BY <2>1, Zenon DEF StackInv
    <2> QED
      BY <2>1, <2>2, Zenon
  <1> QED
    BY <1>5, <1>9, <1>10

(* A new struct has its name and nothing else, and a transform of its own. *)
HasNew(ss, tt, h, n, L) ==
    /\ L = Len(ss) + 1 /\ Len(tt) = L /\ Keeps(ss, tt)
    /\ \A j \in 1 .. Len(ss) : tt[j] = ss[j]
    /\ tt[L].name = n
    /\ h.this = L /\ h.struct_def = 0
    /\ FrameInv(tt, h)

LEMMA AppendStruct ==
    ASSUME NEW ss \in Seq(StructDefs), NEW n \in DOMAIN Decls
    PROVE  /\ Append(ss, NewStructDef(n)) \in Seq(StructDefs)
           /\ Transform(n, Len(ss) + 1) \in Frames
           /\ HasNew(ss, Append(ss, NewStructDef(n)), Transform(n, Len(ss) + 1), n, Len(ss) + 1)
  <1>a. PICK L \in Nat : L = Len(ss) + 1
    OBVIOUS
  <1>b. PICK tt : tt = Append(ss, NewStructDef(n))
    BY Zenon
  <1>1. /\ NewStructDef(n) \in StructDefs /\ NewStructDef(n).name = n
        /\ NewStructDef(n).base = <<>> /\ NewStructDef(n).fields = <<>>
    BY DEF NewStructDef, StructDefs
  <1>2. /\ tt \in Seq(StructDefs) /\ Len(tt) = L
        /\ \A j \in 1 .. Len(ss) : tt[j] = ss[j]
        /\ tt[L] = NewStructDef(n)
    BY <1>a, <1>b, <1>1, AppendFacts
  <1>3. Keeps(ss, tt)
    BY <1>a, <1>2 DEF Keeps
  <1>4. Visits(n) \in Seq(AllVisits) /\ Len(Visits(n)) \in Nat
    BY VisitFacts
  <1>5. /\ Transform(n, L) \in Frames /\ Transform(n, L).this = L /\ Transform(n, L).struct_def = 0
        /\ Transform(n, L).todo = Visits(n)
    BY <1>4 DEF Transform, Frames
  <1>6. tt[L].name = n /\ tt[L].base = <<>> /\ tt[L].fields = <<>>
    BY <1>1, <1>2
  <1>7. Place(tt, Transform(n, L)) = 0
    BY <1>4, <1>5, <1>6 DEF Place
  <1>8. FilledFields(tt, L)
    BY <1>6 DEF FilledFields
  <1>9. 0 \in 0 .. Len(Visits(n)) /\ Len(<<>>) = 0
    BY <1>4
  <1>10. Visited(tt, L, 0)
    BY <1>6, <1>8, <1>9 DEF Visited
  <1>11. \A k \in 1 .. Len(Visits(n)) : 0 + k = k
    BY <1>4
  <1>12. L \in 1 .. Len(tt)
    BY <1>a, <1>2
  <1>13. FrameInv(tt, Transform(n, L))
    <2> SUFFICES ASSUME NEW k \in 1 .. Len(Visits(n)) PROVE Visits(n)[k] = Visits(n)[0 + k]
      BY <1>5, <1>6, <1>7, <1>10, <1>12, Zenon DEF FrameInv
    <2> QED
      BY <1>11, Zenon
  <1>14. HasNew(ss, tt, Transform(n, L), n, L)
    BY <1>a, <1>2, <1>3, <1>5, <1>6, <1>13, Zenon DEF HasNew
  <1> QED
    BY <1>a, <1>b, <1>2, <1>5, <1>14, Zenon

(* The transforms while the innermost begins to wait for a new one.        *)
Pushes(st, su, h, L) ==
    /\ Len(su) = Len(st) + 1 /\ su[Len(st) + 1] = h
    /\ \A k \in 1 .. Len(st) : su[k].this = st[k].this /\ su[k].todo = st[k].todo
    /\ \A k \in 1 .. Len(st) - 1 : su[k] = st[k]
    /\ su[Len(st)].struct_def = L

LEMMA PushTop ==
    ASSUME NEW ss \in Seq(StructDefs), NEW st \in Seq(Frames), NEW T, StackOf(ss, st, T),
           NEW f \in Frames, TopIs(st, f), f.todo # <<>>,
           NEW n \in DOMAIN Decls, n \in StructIn(f.todo[1].type), \A i \in 1 .. Len(ss) : ss[i].name # n,
           NEW tt \in Seq(StructDefs), NEW h \in Frames, NEW L \in Nat, HasNew(ss, tt, h, n, L),
           NEW su \in Seq(Frames), Pushes(st, su, h, L)
    PROVE  StackOf(tt, su, T) /\ TopInv(su)
  <1>a. VectorInv(ss, T) /\ StackInv(ss, st) /\ RestComplete(ss, st)
    BY DEF StackOf
  <1>b. PICK N \in Nat : N = Len(st) /\ N > 0 /\ f = st[N]
    BY DEF TopIs
  <1>c. L = Len(ss) + 1
    BY DEF HasNew
  <1>1. /\ tt \in Seq(StructDefs) /\ Len(tt) = L /\ Keeps(ss, tt)
        /\ \A j \in 1 .. Len(ss) : tt[j] = ss[j]
        /\ tt[L].name = n
        /\ h \in Frames /\ h.this = L /\ h.struct_def = 0
        /\ FrameInv(tt, h)
    BY Zenon DEF HasNew
  <1>d. /\ Len(su) = N + 1 /\ su[N + 1] = h
        /\ \A k \in 1 .. N : su[k].this = st[k].this /\ su[k].todo = st[k].todo
        /\ \A k \in 1 .. N - 1 : su[k] = st[k]
        /\ su[N].struct_def = L
    BY <1>b, Zenon DEF Pushes
  <1> USE <1>a, <1>b, <1>c, <1>d
  <1>2. \A i \in 1 .. L : i = L \/ i \in 1 .. Len(ss)
    OBVIOUS
  <1>3. \A k \in 1 .. N + 1 : k = N + 1 \/ k \in 1 .. N
    OBVIOUS
  <1>4. VectorInv(tt, T)
    <2>1. ASSUME NEW i \in 1 .. Len(tt), NEW j \in 1 .. Len(tt), tt[i].name = tt[j].name PROVE i = j
      <3>1. CASE i = L /\ j = L
        BY <3>1
      <3>2. CASE i \in 1 .. Len(ss) /\ j \in 1 .. Len(ss)
        <4>1. ss[i].name = ss[j].name
          BY <2>1, <3>2, <1>1, Zenon
        <4> QED
          BY <4>1, <3>2, Zenon DEF VectorInv
      <3>3. CASE i = L /\ j \in 1 .. Len(ss)
        BY <2>1, <3>3, <1>1, Zenon
      <3>4. CASE i \in 1 .. Len(ss) /\ j = L
        BY <2>1, <3>4, <1>1, Zenon
      <3> QED
        BY <3>1, <3>2, <3>3, <3>4, <1>1, <1>2, Zenon
    <2>2. Len(ss) \in Nat /\ Len(ss) >= 1 /\ ss[1].name = T
      BY DEF VectorInv
    <2>3. Len(tt) >= 1 /\ tt[1].name = T
      BY <2>2, <1>1
    <2> QED
      BY <2>1, <2>3, Zenon DEF VectorInv
  <1>5. ASSUME NEW k \in 1 .. N
        PROVE  FrameInv(tt, su[k]) /\ st[k].this \in 1 .. Len(ss) /\ su[k].this = st[k].this /\ su[k].this # L
    <2>1. FrameInv(ss, st[k])
      BY Zenon DEF StackInv
    <2>2. st[k].this \in 1 .. Len(ss)
      BY <2>1, Zenon DEF FrameInv
    <2>3. FrameInv(ss, su[k])
      BY <2>1, Zenon DEF FrameInv, Place
    <2>4. tt[su[k].this] = ss[su[k].this]
      BY <2>2, <1>1, Zenon
    <2>5. FrameInv(tt, su[k])
      BY <2>3, <2>4, <1>1, FrameKept, Zenon
    <2>6. st[k].this # L
      BY <2>2
    <2> QED
      BY <2>2, <2>5, <2>6, Zenon
  <1>6. su[N + 1].this = L /\ su[N + 1].struct_def = 0 /\ FrameInv(tt, su[N + 1])
    BY <1>1, Zenon
  <1>7. \A k \in 1 .. N + 1 : FrameInv(tt, su[k])
    BY <1>3, <1>5, <1>6, Zenon
  <1>8. ASSUME NEW j \in 1 .. N + 1, NEW k \in 1 .. N + 1, su[j].this = su[k].this PROVE j = k
    <2>1. CASE j = N + 1 /\ k = N + 1
      BY <2>1
    <2>2. CASE j = N + 1 /\ k \in 1 .. N
      BY <2>2, <1>5, <1>6, <1>8, Zenon
    <2>3. CASE j \in 1 .. N /\ k = N + 1
      BY <2>3, <1>5, <1>6, <1>8, Zenon
    <2>4. CASE j \in 1 .. N /\ k \in 1 .. N
      <3>1. st[j].this = st[k].this
        BY <2>4, <1>5, <1>8, Zenon
      <3> QED
        BY <3>1, <2>4, Zenon DEF StackInv
    <2> QED
      BY <2>1, <2>2, <2>3, <2>4, <1>3, Zenon
  <1>9. ASSUME NEW k \in 1 .. (N + 1) - 1 PROVE Waits(tt, su[k], su[k + 1])
    <2>1. k \in 1 .. N
      OBVIOUS
    <2>2. CASE k = N
      <3>1. su[N].todo = st[N].todo
        OBVIOUS
      <3>2. Waits(tt, su[N], su[N + 1])
        BY <3>1, <1>1, <1>6, Zenon DEF Waits
      <3> QED
        BY <3>2, <2>2, Zenon
    <2>3. CASE k # N
      <3>1. k \in 1 .. N - 1 /\ k + 1 \in 1 .. N
        BY <2>3
      <3>2. Waits(ss, st[k], st[k + 1])
        BY <3>1, Zenon DEF StackInv
      <3>3. su[k] = st[k] /\ su[k + 1].this = st[k + 1].this /\ st[k + 1].this \in 1 .. Len(ss)
        BY <3>1, <1>5, Zenon
      <3>4. tt[st[k + 1].this].name = ss[st[k + 1].this].name
        BY <3>3, <1>1, Zenon
      <3> QED
        BY <3>2, <3>3, <3>4, Zenon DEF Waits
    <2> QED
      BY <2>2, <2>3
  <1>10. StackInv(tt, su)
    BY <1>7, <1>8, <1>9, Zenon DEF StackInv
  <1>11. RestComplete(tt, su)
    <2> SUFFICES ASSUME NEW i \in 1 .. Len(tt), \A k \in 1 .. N + 1 : su[k].this # i
                 PROVE  Complete(tt, i)
      BY Zenon DEF RestComplete
    <2>1. N + 1 \in 1 .. N + 1 /\ \A k \in 1 .. N : k \in 1 .. N + 1
      OBVIOUS
    <2>2. i \in 1 .. Len(ss)
      BY <2>1, <1>1, <1>2, <1>6, Zenon
    <2>3. \A k \in 1 .. N : st[k].this # i
      BY <2>1, <1>5, Zenon
    <2>4. Complete(ss, i) /\ tt[i] = ss[i]
      BY <2>2, <2>3, <1>1, Zenon DEF RestComplete
    <2>5. Visited(tt, i, Len(Visits(ss[i].name)))
      BY <2>2, <2>4, <1>1, VisitedKept, Zenon DEF Complete
    <2> QED
      BY <2>4, <2>5, Zenon DEF Complete
  <1>12. TopInv(su)
    BY <1>6, Zenon DEF TopInv
  <1> QED
    BY <1>4, <1>10, <1>11, <1>12 DEF StackOf

(* What the parser visits is made of at most one struct, a declared one.   *)
LEMMA VisitStruct ==
    ASSUME NEW v \in AllVisits, NEW n \in StructIn(v.type)
    PROVE  n \in DOMAIN Decls /\ StructIn(v.type) = {n}
  <1>1. CASE v \in AllFields
    <2>1. PICK m \in DOMAIN Decls : v \in Range(Decls[m].fields)
      BY <1>1 DEF AllFields
    <2> QED
      BY <2>1, DeclsAssumption, Zenon
  <1>2. CASE v \notin AllFields
    <2>1. PICK m \in DOMAIN Decls : Decls[m].base # "none" /\ v = BaseVisit(m)
      BY <1>2 DEF AllVisits
    <2>2. v.type = BaseType(m)
      BY <2>1 DEF BaseVisit
    <2>3. Decls[m].base \in DOMAIN Decls /\ StructIn(BaseType(m)) = {Decls[m].base}
      BY <2>1, DeclsAssumption, Zenon
    <2> QED
      BY <2>2, <2>3
  <1> QED
    BY <1>1, <1>2

(* A struct that no transform fills any more is described.                 *)
LEMMA CompleteDescribes ==
    ASSUME NEW ss \in Seq(StructDefs), NEW T, VectorInv(ss, T), NEW i \in 1 .. Len(ss), Complete(ss, i)
    PROVE  DescribesStruct(ss, i)
  <1>1. ss[i] \in StructDefs /\ DOMAIN ss = 1 .. Len(ss)
    BY ElementOfSeq, LenProperties
  <1>2. PICK n \in DOMAIN Decls : n = ss[i].name
    BY <1>1 DEF StructDefs
  <1>3. ss[i].fields \in Seq(FieldDefs) /\ Len(ss[i].fields) \in Nat /\ DOMAIN ss[i].fields = 1 .. Len(ss[i].fields)
    BY <1>1, LenProperties DEF StructDefs
  <1>4. Bases(n) \in {0, 1} /\ Len(Decls[n].fields) \in Nat /\ Len(Visits(n)) = Bases(n) + Len(Decls[n].fields)
    BY VisitSizes
  <1>5. /\ ss[i].base = <<>> <=> Bases(n) = 0 \/ Len(Visits(n)) = 0
        /\ ss[i].base # <<>> => Means(ss, ss[i].base[1], BaseType(n))
        /\ Len(ss[i].fields) = IF Len(Visits(n)) = 0 THEN 0 ELSE Len(Visits(n)) - Bases(n)
        /\ FilledFields(ss, i)
    BY <1>2, Zenon DEF Complete, Visited
  <1>6. Len(ss[i].fields) = Len(Decls[n].fields)
    BY <1>4, <1>5
  <1>7. Bases(n) = 0 <=> Decls[n].base = "none"
    BY DEF Bases
  <1>8. Len(Visits(n)) = 0 => Bases(n) = 0
    BY <1>4
  <1>9. (ss[i].base = <<>>) = (Decls[n].base = "none")
    BY <1>5, <1>7, <1>8, Zenon
  <1>10. \A j \in 1 .. Len(ss) : ss[j].name = n => i = j
    BY <1>2, Zenon DEF VectorInv
  <1>11. \A k \in 1 .. Len(ss[i].fields) :
            /\ ss[i].fields[k].id = Decls[n].fields[k].id
            /\ ss[i].fields[k].modifier = Decls[n].fields[k].modifier
            /\ Means(ss, ss[i].fields[k].type, Decls[n].fields[k].type)
    BY <1>2, <1>5, Zenon DEF FilledFields
  <1>12. ss[i].base # <<>> => Means(ss, ss[i].base[1], BaseType(n))
    BY <1>5, Zenon
  <1> QED
    BY <1>1, <1>2, <1>3, <1>6, <1>9, <1>10, <1>11, <1>12, Zenon DEF DescribesStruct

-----------------------------------------------------------------------------
(* The invariant holds initially and every step keeps it.                  *)
LEMMA InitIInv ==
    CacheInit => IInv
  <1> SUFFICES ASSUME CacheInit PROVE IInv
    OBVIOUS
  <1>1. CacheTypeOK
    BY DEF CacheInit, CacheTypeOK
  <1>2. \A t \in Threads : building[t] = <<>>
    BY DEF CacheInit
  <1>3. \A n \in Roots : cache[n].flag = "unset"
    BY DEF CacheInit
  <1> QED
    BY <1>1, <1>2, <1>3 DEF IInv, BuildInv, OnceInv, DoneInv

(* A step of one thread in its vector: the others are in other vectors.    *)
LEMMA BuildStep ==
    ASSUME IInv, NEW t \in Threads, building[t] # <<>>,
           NEW T, T = getting[t], NEW tt \in Seq(StructDefs), NEW su \in Seq(Frames), su # <<>>,
           StackOf(tt, su, T), TopInv(su),
           cache' = [cache EXCEPT ![T].structs = tt],
           building' = [building EXCEPT ![t] = su],
           getting' = getting
    PROVE  IInv'
  <1>1. T \in Roots /\ cache[T].flag = "running"
    BY Zenon DEF IInv, BuildInv
  <1>2. CacheTypeOK
    BY DEF IInv
  <1>3. /\ cache'[T].structs = tt /\ cache'[T].flag = "running"
        /\ \A n \in Roots : n # T => cache'[n] = cache[n]
        /\ cache' \in [Roots -> [flag : {"unset", "running", "done"}, structs : Seq(StructDefs)]]
    BY <1>1, <1>2 DEF CacheTypeOK
  <1>4. /\ building'[t] = su
        /\ \A s \in Threads : s # t => building'[s] = building[s]
        /\ building' \in [Threads -> Seq(Frames)]
    BY <1>2 DEF CacheTypeOK
  <1>5. CacheTypeOK'
    BY <1>2, <1>3, <1>4 DEF CacheTypeOK
  <1>6. OnceInv'
    <2> SUFFICES ASSUME NEW r \in Threads, NEW s \in Threads,
                        building'[r] # <<>>, building'[s] # <<>>, getting[r] = getting[s]
                 PROVE  r = s
      BY Zenon DEF OnceInv
    <2>1. building[r] # <<>> /\ building[s] # <<>>
      BY <1>4, Zenon
    <2> QED
      BY <2>1, Zenon DEF IInv, OnceInv
  <1>7. BuildInv'
    <2> SUFFICES ASSUME NEW s \in Threads, building'[s] # <<>>
                 PROVE  /\ getting[s] \in Roots
                        /\ cache'[getting[s]].flag = "running"
                        /\ VectorInv(cache'[getting[s]].structs, getting[s])
                        /\ StackInv(cache'[getting[s]].structs, building'[s])
                        /\ TopInv(building'[s])
                        /\ RestComplete(cache'[getting[s]].structs, building'[s])
      BY Zenon DEF BuildInv
    <2>1. CASE s = t
      BY <2>1, <1>1, <1>3, <1>4, Zenon DEF StackOf
    <2>2. CASE s # t
      <3>1. building'[s] = building[s] /\ building[s] # <<>>
        BY <2>2, <1>4, Zenon
      <3>2. /\ getting[s] \in Roots
            /\ cache[getting[s]].flag = "running"
            /\ VectorInv(cache[getting[s]].structs, getting[s])
            /\ StackInv(cache[getting[s]].structs, building[s])
            /\ TopInv(building[s])
            /\ RestComplete(cache[getting[s]].structs, building[s])
        BY <3>1, Zenon DEF IInv, BuildInv
      <3>3. getting[s] # T
        BY <3>1, <2>2, Zenon DEF IInv, OnceInv
      <3>4. cache'[getting[s]] = cache[getting[s]]
        BY <3>2, <3>3, <1>3, Zenon
      <3> QED
        BY <3>1, <3>2, <3>4, Zenon
    <2> QED
      BY <2>1, <2>2
  <1>8. DoneInv'
    <2> SUFFICES ASSUME NEW n \in Roots, cache'[n].flag = "done" PROVE Describes(n)'
      BY Zenon DEF DoneInv
    <2>1. n # T
      BY <1>3
    <2>2. cache'[n] = cache[n]
      BY <2>1, <1>3, Zenon
    <2>3. Describes(n)
      BY <2>2, Zenon DEF IInv, DoneInv
    <2> QED
      BY <2>2, <2>3, Zenon DEF Describes
  <1> QED
    BY <1>5, <1>6, <1>7, <1>8 DEF IInv

(* What a thread in InitSchemaDef has.                                     *)
LEMMA BuildFacts ==
    ASSUME IInv, NEW t \in Threads, building[t] # <<>>, NEW T, T = getting[t], NEW ss, ss = cache[T].structs,
           NEW st, st = building[t]
    PROVE  /\ T \in Roots /\ cache[T].flag = "running"
           /\ ss \in Seq(StructDefs) /\ st \in Seq(Frames) /\ Len(st) \in Nat /\ Len(st) > 0
           /\ VectorInv(ss, T) /\ StackInv(ss, st) /\ TopInv(st) /\ RestComplete(ss, st)
           /\ Last(st) = st[Len(st)] /\ st[Len(st)] \in Frames
  <1>1. /\ T \in Roots /\ cache[T].flag = "running"
        /\ VectorInv(ss, T) /\ StackInv(ss, st) /\ TopInv(st) /\ RestComplete(ss, st)
    BY Zenon DEF IInv, BuildInv
  <1>2. ss \in Seq(StructDefs) /\ st \in Seq(Frames)
    BY <1>1 DEF IInv, CacheTypeOK
  <1>3. Len(st) \in Nat /\ Len(st) > 0
    BY <1>2
  <1> QED
    BY <1>1, <1>2, <1>3, ElementOfSeq DEF Last

(* GetStructDef finds a struct by its name.                                *)
KnownAt(ss, type) == UNION {IndexOf(ss, n) : n \in StructIn(type)}

KnownIndex(ss, type) ==
    IF KnownAt(ss, type) = {} THEN 0 ELSE CHOOSE i \in KnownAt(ss, type) : \A j \in KnownAt(ss, type) : i <= j

LEMMA VisitKnownStep ==
    ASSUME IInv, NEW t \in Threads, VisitKnown(t)
    PROVE  IInv'
  <1>1. PICK T, ss, st : T = getting[t] /\ ss = cache[T].structs /\ st = building[t]
    BY Zenon
  <1>2. building[t] # <<>>
    BY Zenon DEF VisitKnown
  <1>3. /\ T \in Roots /\ cache[T].flag = "running"
        /\ ss \in Seq(StructDefs) /\ st \in Seq(Frames) /\ Len(st) \in Nat /\ Len(st) > 0
        /\ VectorInv(ss, T) /\ StackInv(ss, st) /\ TopInv(st) /\ RestComplete(ss, st)
        /\ Last(st) = st[Len(st)] /\ st[Len(st)] \in Frames
    BY <1>1, <1>2, BuildFacts, Zenon
  <1>4. PICK N \in Nat, f \in Frames : N = Len(st) /\ f = st[N]
    BY <1>3, Zenon
  <1>6. PICK index : index = KnownIndex(ss, Head(f.todo).type)
    BY Zenon
  <1>7. Last(building[t]) = f /\ cache[getting[t]].structs = ss /\ building[t] = st /\ Len(building[t]) = N
    BY <1>1, <1>3, <1>4, Zenon
  <1>5. /\ Last(building[t]).todo # <<>>
        /\ StructIn(Head(Last(building[t]).todo).type) = {} \/ KnownAt(cache[getting[t]].structs, Head(Last(building[t]).todo).type) # {}
        /\ cache' = [cache EXCEPT ![getting[t]].structs =
                        Filled(cache[getting[t]].structs, Last(building[t]),
                               KnownIndex(cache[getting[t]].structs, Head(Last(building[t]).todo).type))]
        /\ building' = [building EXCEPT ![t][Len(building[t])].todo = Tail(@)]
        /\ getting' = getting
    BY DEF VisitKnown, KnownAt, KnownIndex
  <1>8. /\ f.todo # <<>>
        /\ StructIn(Head(f.todo).type) = {} \/ KnownAt(ss, Head(f.todo).type) # {}
        /\ cache' = [cache EXCEPT ![T].structs = Filled(ss, f, index)]
        /\ building' = [building EXCEPT ![t][N].todo = Tail(@)]
        /\ getting' = getting
    BY <1>1, <1>5, <1>6, <1>7, Zenon
  <1>9. f.todo \in Seq(AllVisits) /\ f.todo[1] \in AllVisits /\ Head(f.todo) = f.todo[1] /\ Tail(f.todo) \in Seq(AllVisits)
    BY <1>8 DEF Frames
  <1>10. index \in Nat /\ Means(ss, TypeDef(f.todo[1].type, index), f.todo[1].type)
    <2>1. DOMAIN ss = 1 .. Len(ss) /\ Len(ss) \in Nat
      BY <1>3
    <2>2. PICK A : A = f.todo[1].type
      BY Zenon
    <2>3. index = KnownIndex(ss, A) /\ (StructIn(A) = {} \/ KnownAt(ss, A) # {})
      BY <2>2, <1>6, <1>8, <1>9, Zenon
    <2>4. CASE StructIn(A) = {}
      <3>1. KnownAt(ss, A) = {}
        BY <2>4 DEF KnownAt
      <3>2. index = 0
        BY <3>1, <2>3 DEF KnownIndex
      <3> QED
        BY <3>2, <2>2, <2>4 DEF Means
    <2>5. CASE StructIn(A) # {}
      <3>1. PICK n \in DOMAIN Decls : StructIn(A) = {n}
        BY <2>2, <2>5, <1>9, VisitStruct
      <3>2. KnownAt(ss, A) = {i \in 1 .. Len(ss) : ss[i].name = n} /\ KnownAt(ss, A) # {}
        BY <3>1, <2>1, <2>3 DEF KnownAt, IndexOf
      <3>3. PICK i \in 1 .. Len(ss) : i \in KnownAt(ss, A) /\ ss[i].name = n
        BY <3>2
      <3>4. KnownAt(ss, A) = {i}
        BY <3>2, <3>3, <1>3 DEF VectorInv
      <3>5. index = i
        BY <3>3, <3>4, <2>3 DEF KnownIndex
      <3>6. Means(ss, TypeDef(A, i), A)
        BY <3>1, <3>3, <2>1 DEF Means
      <3> QED
        BY <3>5, <3>6, <2>2
    <2> QED
      BY <2>4, <2>5
  <1>11. PICK g : g = [f EXCEPT !.todo = Tail(f.todo)]
    BY Zenon
  <1>12. g \in Frames /\ g.this = f.this /\ g.todo = Tail(f.todo) /\ g.struct_def = f.struct_def
    BY <1>9, <1>11 DEF Frames
  <1>13. g.struct_def = 0
    BY <1>3, <1>4, <1>12, Zenon DEF TopInv
  <1>14. PICK su : su = [st EXCEPT ![N] = g]
    BY Zenon
  <1>15. su \in Seq(Frames) /\ Len(su) = N /\ su[N] = g /\ (\A k \in 1 .. N - 1 : su[k] = st[k]) /\ su # <<>>
    BY <1>3, <1>4, <1>12, <1>14, ExceptSeq
  <1>16. building' = [building EXCEPT ![t] = su]
    BY <1>4, <1>7, <1>8, <1>11, <1>14
  <1>17. PICK tt : tt = Filled(ss, f, index)
    BY Zenon
  <1>18. tt \in Seq(StructDefs) /\ StackOf(tt, su, T) /\ TopInv(su)
    <2>1. StackOf(ss, st, T)
      BY <1>3 DEF StackOf
    <2>2. TopIs(st, f)
      BY <1>3, <1>4, Zenon DEF TopIs
    <2>3. GoesOn(f, g)
      BY <1>12, <1>13, Zenon DEF GoesOn
    <2>4. WithTop(st, su, g)
      BY <1>4, <1>15, Zenon DEF WithTop
    <2>5. ss \in Seq(StructDefs) /\ st \in Seq(Frames) /\ f.todo # <<>> /\ g \in Frames /\ su \in Seq(Frames)
      BY <1>3, <1>8, <1>12, <1>15, Zenon
    <2> QED
      BY <2>1, <2>2, <2>3, <2>4, <2>5, <1>10, <1>17, FillTop, Zenon
  <1>19. cache' = [cache EXCEPT ![T].structs = tt]
    BY <1>8, <1>17, Zenon
  <1> QED
    BY <1>1, <1>2, <1>8, <1>15, <1>16, <1>18, <1>19, BuildStep

LEMMA FrontFacts ==
    ASSUME NEW S, NEW q \in Seq(S), NEW N \in Nat, N = Len(q), N > 0
    PROVE  Front(q) \in Seq(S) /\ Len(Front(q)) = N - 1 /\ \A k \in 1 .. N - 1 : Front(q)[k] = q[k]
  <1>1. Front(q) = SubSeq(q, 1, N - 1)
    BY DEF Front
  <1>2. \A k \in 1 .. N - 1 : q[k] \in S
    BY ElementOfSeq
  <1> QED
    BY <1>1, <1>2, SubSeqProperties

LEMMA AppendStructDefReturnsStep ==
    ASSUME IInv, NEW t \in Threads, AppendStructDefReturns(t)
    PROVE  IInv'
  <1>1. PICK T, ss, st : T = getting[t] /\ ss = cache[T].structs /\ st = building[t]
    BY Zenon
  <1>2. Len(building[t]) > 1 /\ building[t] \in Seq(Frames)
    BY DEF AppendStructDefReturns, IInv, CacheTypeOK
  <1>3. building[t] # <<>>
    BY <1>2
  <1>4. /\ T \in Roots /\ cache[T].flag = "running"
        /\ ss \in Seq(StructDefs) /\ st \in Seq(Frames) /\ Len(st) \in Nat /\ Len(st) > 0
        /\ VectorInv(ss, T) /\ StackInv(ss, st) /\ TopInv(st) /\ RestComplete(ss, st)
        /\ Last(st) = st[Len(st)] /\ st[Len(st)] \in Frames
    BY <1>1, <1>3, BuildFacts, Zenon
  <1>5. PICK N \in Nat : N = Len(st) /\ N > 1
    BY <1>1, <1>2, <1>4
  <1>6. PICK outer : outer = Front(st)
    BY Zenon
  <1>7. outer \in Seq(Frames) /\ Len(outer) = N - 1 /\ (\A k \in 1 .. N - 1 : outer[k] = st[k]) /\ outer # <<>>
    <2>1. outer \in Seq(Frames) /\ Len(outer) = N - 1 /\ (\A k \in 1 .. N - 1 : outer[k] = st[k])
      BY <1>4, <1>5, <1>6, FrontFacts
    <2> QED
      BY <2>1, <1>5
  <1>8. PICK f \in Frames : f = Last(outer) /\ f = outer[N - 1]
    BY <1>5, <1>7, ElementOfSeq DEF Last
  <1>9. PICK g : g = [f EXCEPT !.todo = Tail(@), !.struct_def = 0]
    BY Zenon
  <1>10. PICK su : su = Append(Front(outer), g)
    BY Zenon
  <1>11. /\ st[N].todo = <<>>
         /\ cache' = [cache EXCEPT ![T].structs = Filled(ss, f, f.struct_def)]
         /\ building' = [building EXCEPT ![t] = su]
         /\ getting' = getting
    <2>1. /\ Last(building[t]).todo = <<>>
          /\ cache' = [cache EXCEPT ![getting[t]].structs =
                          Filled(cache[getting[t]].structs, Last(Front(building[t])), Last(Front(building[t])).struct_def)]
          /\ building' = [building EXCEPT ![t] =
                             Append(Front(Front(building[t])), [Last(Front(building[t])) EXCEPT !.todo = Tail(@), !.struct_def = 0])]
          /\ getting' = getting
      BY DEF AppendStructDefReturns, GetStructDef
    <2> QED
      BY <2>1, <1>1, <1>4, <1>5, <1>6, <1>8, <1>9, <1>10, Zenon
  <1>12. StackInv(ss, outer) /\ RestComplete(ss, outer) /\ Waits(ss, outer[N - 1], st[N])
    BY <1>4, <1>5, <1>7, <1>11, PopTop, Zenon
  <1>13. f.todo # <<>> /\ f.struct_def = st[N].this /\ ss[st[N].this].name \in StructIn(f.todo[1].type)
    BY <1>8, <1>12, Zenon DEF Waits
  <1>14. f.todo \in Seq(AllVisits) /\ f.todo[1] \in AllVisits /\ Tail(f.todo) \in Seq(AllVisits)
    BY <1>13 DEF Frames
  <1>15. f.struct_def \in Nat /\ Means(ss, TypeDef(f.todo[1].type, f.struct_def), f.todo[1].type)
    <2>1. PICK A : A = f.todo[1].type
      BY Zenon
    <2>2. PICK e \in Nat : e = f.struct_def
      BY DEF Frames
    <2>3. FrameInv(ss, st[N])
      BY <1>4, <1>5 DEF StackInv
    <2>4. e \in 1 .. Len(ss)
      BY <2>2, <2>3, <1>13, Zenon DEF FrameInv
    <2>5. PICK n : n = ss[e].name /\ StructIn(A) = {n}
      BY <2>1, <2>2, <1>13, <1>14, VisitStruct, Zenon
    <2>6. DOMAIN ss = 1 .. Len(ss)
      BY <1>4
    <2>7. Means(ss, TypeDef(A, e), A)
      BY <2>4, <2>5, <2>6 DEF Means
    <2> QED
      BY <2>1, <2>2, <2>7, Zenon
  <1>16. g \in Frames /\ g.this = f.this /\ g.todo = Tail(f.todo) /\ g.struct_def = 0
    BY <1>9, <1>14 DEF Frames
  <1>17. su \in Seq(Frames) /\ Len(su) = N - 1 /\ su[N - 1] = g /\ (\A k \in 1 .. (N - 1) - 1 : su[k] = outer[k]) /\ su # <<>>
    <2>1. /\ Front(outer) \in Seq(Frames) /\ Len(Front(outer)) = (N - 1) - 1
          /\ \A k \in 1 .. (N - 1) - 1 : Front(outer)[k] = outer[k]
      BY <1>5, <1>7, FrontFacts
    <2>2. /\ su \in Seq(Frames) /\ Len(su) = Len(Front(outer)) + 1
          /\ \A k \in 1 .. Len(Front(outer)) : su[k] = Front(outer)[k]
          /\ su[Len(Front(outer)) + 1] = g
      <3>1. PICK fo \in Seq(Frames) : fo = Front(outer)
        BY <2>1, Zenon
      <3>2. su = Append(fo, g)
        BY <3>1, <1>10, Zenon
      <3>3. /\ su \in Seq(Frames) /\ Len(su) = Len(fo) + 1
            /\ \A k \in 1 .. Len(fo) : su[k] = fo[k]
            /\ su[Len(fo) + 1] = g
        BY <3>2, <1>16, AppendFacts
      <3> QED
        BY <3>1, <3>3, Zenon
    <2>3. ((N - 1) - 1) + 1 = N - 1
      BY <1>5
    <2>4. su # <<>>
      BY <2>2
    <2> QED
      BY <2>1, <2>2, <2>3, <2>4, Zenon
  <1>18. PICK tt : tt = Filled(ss, f, f.struct_def)
    BY Zenon
  <1>19. tt \in Seq(StructDefs) /\ StackOf(tt, su, T) /\ TopInv(su)
    <2>1. StackOf(ss, outer, T)
      BY <1>4, <1>12 DEF StackOf
    <2>2. TopIs(outer, f)
      BY <1>5, <1>7, <1>8 DEF TopIs
    <2>3. GoesOn(f, g)
      BY <1>16, Zenon DEF GoesOn
    <2>4. WithTop(outer, su, g)
      BY <1>7, <1>17, Zenon DEF WithTop
    <2>5. ss \in Seq(StructDefs) /\ outer \in Seq(Frames) /\ f.todo # <<>> /\ g \in Frames /\ su \in Seq(Frames)
      BY <1>4, <1>7, <1>13, <1>16, <1>17, Zenon
    <2> QED
      BY <2>1, <2>2, <2>3, <2>4, <2>5, <1>15, <1>18, FillTop, Zenon
  <1>20. cache' = [cache EXCEPT ![T].structs = tt]
    BY <1>11, <1>18, Zenon
  <1> QED
    BY <1>1, <1>3, <1>11, <1>17, <1>19, <1>20, BuildStep

LEMMA VisitNewStep ==
    ASSUME IInv, NEW t \in Threads, VisitNew(t)
    PROVE  IInv'
  <1>1. PICK T, ss, st : T = getting[t] /\ ss = cache[T].structs /\ st = building[t]
    BY Zenon
  <1>2. building[t] # <<>>
    BY DEF VisitNew
  <1>3. /\ T \in Roots /\ cache[T].flag = "running"
        /\ ss \in Seq(StructDefs) /\ st \in Seq(Frames) /\ Len(st) \in Nat /\ Len(st) > 0
        /\ VectorInv(ss, T) /\ StackInv(ss, st) /\ TopInv(st) /\ RestComplete(ss, st)
        /\ Last(st) = st[Len(st)] /\ st[Len(st)] \in Frames
    BY <1>1, <1>2, BuildFacts, Zenon
  <1>4. PICK N \in Nat, f \in Frames : N = Len(st) /\ f = st[N] /\ f = Last(st)
    BY <1>3, Zenon
  <1>5. PICK L \in Nat : L = Len(ss) + 1
    BY <1>3
  <1>6. PICK n \in StructIn(Head(f.todo).type) :
            /\ f.todo # <<>> /\ IndexOf(ss, n) = {}
            /\ cache' = [cache EXCEPT ![T].structs = Append(@, NewStructDef(n))]
            /\ building' = [building EXCEPT ![t] = Append([@ EXCEPT ![Len(@)].struct_def = L], Transform(n, L))]
            /\ getting' = getting
    <2>1. Last(building[t]).todo # <<>> /\ getting' = getting
      BY DEF VisitNew
    <2>2. PICK n \in StructIn(Head(Last(building[t]).todo).type) :
            /\ IndexOf(cache[getting[t]].structs, n) = {}
            /\ cache' = [cache EXCEPT ![getting[t]].structs = Append(@, NewStructDef(n))]
            /\ building' = [building EXCEPT ![t] =
                                Append([@ EXCEPT ![Len(@)].struct_def = Len(cache[getting[t]].structs) + 1],
                                       Transform(n, Len(cache[getting[t]].structs) + 1))]
      BY DEF VisitNew
    <2> QED
      BY <2>1, <2>2, <1>1, <1>4, <1>5, Zenon
  <1>7. f.todo \in Seq(AllVisits) /\ f.todo[1] \in AllVisits /\ Head(f.todo) = f.todo[1]
    BY <1>6 DEF Frames
  <1>8. n \in DOMAIN Decls /\ n \in StructIn(st[N].todo[1].type) /\ st[N].todo # <<>>
    BY <1>4, <1>6, <1>7, VisitStruct, Zenon
  <1>9. \A i \in 1 .. Len(ss) : ss[i].name # n
    BY <1>3, <1>6 DEF IndexOf
  <1>10. PICK tt : tt = Append(ss, NewStructDef(n))
    BY Zenon
  <1>11. PICK h : h = Transform(n, L)
    BY Zenon
  <1>12. tt \in Seq(StructDefs) /\ h \in Frames /\ HasNew(ss, tt, h, n, L)
    <2>1. /\ Append(ss, NewStructDef(n)) \in Seq(StructDefs)
          /\ Transform(n, Len(ss) + 1) \in Frames
          /\ HasNew(ss, Append(ss, NewStructDef(n)), Transform(n, Len(ss) + 1), n, Len(ss) + 1)
      BY <1>3, <1>8, AppendStruct, Zenon
    <2> QED
      BY <2>1, <1>5, <1>10, <1>11, Zenon
  <1>13. PICK e : e = [f EXCEPT !.struct_def = L]
    BY Zenon
  <1>14. e \in Frames /\ e.this = f.this /\ e.todo = f.todo /\ e.struct_def = L
    BY <1>13 DEF Frames
  <1>15. PICK sv : sv = [st EXCEPT ![N] = e]
    BY Zenon
  <1>16. sv \in Seq(Frames) /\ Len(sv) = N /\ sv[N] = e /\ \A k \in 1 .. N - 1 : sv[k] = st[k]
    BY <1>3, <1>4, <1>14, <1>15, ExceptSeq
  <1>17. PICK su : su = Append(sv, h)
    BY Zenon
  <1>18. su \in Seq(Frames) /\ Len(su) = N + 1 /\ su[N + 1] = h /\ (\A k \in 1 .. N : su[k] = sv[k]) /\ su # <<>>
    <2>1. su \in Seq(Frames) /\ Len(su) = N + 1 /\ su[N + 1] = h /\ (\A k \in 1 .. N : su[k] = sv[k])
      BY <1>12, <1>16, <1>17, AppendFacts
    <2> QED
      BY <2>1
  <1>19. N > 0
    BY <1>3, <1>4
  <1>20. /\ \A k \in 1 .. N : su[k].this = st[k].this /\ su[k].todo = st[k].todo
         /\ \A k \in 1 .. N - 1 : su[k] = st[k]
         /\ su[N].struct_def = L
    <2>1. \A k \in 1 .. N - 1 : su[k] = st[k]
      BY <1>16, <1>18
    <2>2. su[N] = e
      BY <1>16, <1>18, <1>19
    <2>3. ASSUME NEW k \in 1 .. N PROVE su[k].this = st[k].this /\ su[k].todo = st[k].todo
      <3>1. k = N \/ k \in 1 .. N - 1
        OBVIOUS
      <3> QED
        BY <3>1, <2>1, <2>2, <1>4, <1>14, Zenon
    <2> QED
      BY <2>1, <2>2, <2>3, <1>14, Zenon
  <1>21. StackOf(tt, su, T) /\ TopInv(su)
    <2>1. StackOf(ss, st, T)
      BY <1>3 DEF StackOf
    <2>2. TopIs(st, f)
      BY <1>3, <1>4, Zenon DEF TopIs
    <2>3. Pushes(st, su, h, L)
      BY <1>4, <1>18, <1>20, Zenon DEF Pushes
    <2>4. n \in DOMAIN Decls /\ f.todo # <<>> /\ n \in StructIn(f.todo[1].type)
      BY <1>4, <1>8, Zenon
    <2>5. ss \in Seq(StructDefs) /\ st \in Seq(Frames) /\ su \in Seq(Frames)
      BY <1>3, <1>18, Zenon
    <2> QED
      BY <2>1, <2>2, <2>3, <2>4, <2>5, <1>9, <1>12, PushTop, Zenon
  <1>23. building' = [building EXCEPT ![t] = su]
    <2>1. building[t] = st /\ building \in [Threads -> Seq(Frames)]
      BY <1>1 DEF IInv, CacheTypeOK
    <2>2. sv = [st EXCEPT ![Len(st)].struct_def = L]
      BY <1>4, <1>13, <1>15
    <2> QED
      BY <2>1, <2>2, <1>6, <1>11, <1>17
  <1>24. cache' = [cache EXCEPT ![T].structs = tt]
    BY <1>1, <1>6, <1>10
  <1> QED
    BY <1>1, <1>2, <1>6, <1>12, <1>18, <1>21, <1>23, <1>24, BuildStep

(* A thread that is in no Get builds nothing.                              *)
LEMMA IdleBuildsNothing ==
    ASSUME IInv, NEW t \in Threads, getting[t] = "idle"
    PROVE  building[t] = <<>>
  BY DeclsAssumption, Zenon DEF IInv, BuildInv

LEMMA GetFirstStep ==
    ASSUME IInv, NEW t \in Threads, GetFirst(t)
    PROVE  IInv'
  <1>1. PICK n \in Roots :
            /\ getting[t] = "idle" /\ cache[n].flag = "unset"
            /\ getting' = [getting EXCEPT ![t] = n]
            /\ cache' = [cache EXCEPT ![n] = [flag |-> "running", structs |-> <<NewStructDef(n)>>]]
            /\ building' = [building EXCEPT ![t] = <<Transform(n, 1)>>]
    BY DEF GetFirst
  <1>2. n \in DOMAIN Decls
    BY DeclsAssumption
  <1>3. PICK tt : tt = <<NewStructDef(n)>>
    BY Zenon
  <1>4. PICK h : h = Transform(n, 1)
    BY Zenon
  <1>5. PICK su : su = <<h>>
    BY Zenon
  <1>6. tt \in Seq(StructDefs) /\ h \in Frames /\ HasNew(<<>>, tt, h, n, 1)
    <2>1. <<>> \in Seq(StructDefs) /\ Len(<<>>) + 1 = 1 /\ Append(<<>>, NewStructDef(n)) = <<NewStructDef(n)>>
      OBVIOUS
    <2>2. /\ Append(<<>>, NewStructDef(n)) \in Seq(StructDefs)
          /\ Transform(n, Len(<<>>) + 1) \in Frames
          /\ HasNew(<<>>, Append(<<>>, NewStructDef(n)), Transform(n, Len(<<>>) + 1), n, Len(<<>>) + 1)
      BY <2>1, <1>2, AppendStruct, Zenon
    <2> QED
      BY <2>1, <2>2, <1>3, <1>4, Zenon
  <1>7. Len(tt) = 1 /\ tt[1].name = n /\ h.this = 1 /\ h.struct_def = 0 /\ FrameInv(tt, h)
    BY <1>6, Zenon DEF HasNew
  <1>8. su \in Seq(Frames) /\ Len(su) = 1 /\ su[1] = h /\ su # <<>>
    BY <1>5, <1>6
  <1>9. VectorInv(tt, n) /\ StackInv(tt, su) /\ TopInv(su) /\ RestComplete(tt, su)
    <2>1. VectorInv(tt, n)
      BY <1>7 DEF VectorInv
    <2>2. \A k \in 1 .. 1 : k = 1
      OBVIOUS
    <2>3. \A k \in 1 .. 1 - 1 : FALSE
      OBVIOUS
    <2>4. StackInv(tt, su)
      BY <2>2, <2>3, <1>7, <1>8, Zenon DEF StackInv
    <2>5. TopInv(su)
      BY <1>7, <1>8, Zenon DEF TopInv
    <2>6. 1 \in 1 .. 1
      OBVIOUS
    <2>7. RestComplete(tt, su)
      BY <2>2, <2>6, <1>7, <1>8, Zenon DEF RestComplete
    <2> QED
      BY <2>1, <2>4, <2>5, <2>7
  <1>10. CacheTypeOK
    BY DEF IInv
  <1>11. /\ cache'[n].structs = tt /\ cache'[n].flag = "running"
         /\ \A m \in Roots : m # n => cache'[m] = cache[m]
         /\ cache' \in [Roots -> [flag : {"unset", "running", "done"}, structs : Seq(StructDefs)]]
    BY <1>1, <1>3, <1>6, <1>10 DEF CacheTypeOK
  <1>12. /\ building'[t] = su /\ getting'[t] = n
         /\ \A s \in Threads : s # t => building'[s] = building[s] /\ getting'[s] = getting[s]
         /\ building' \in [Threads -> Seq(Frames)] /\ getting' \in [Threads -> Roots \cup {"idle"}]
    BY <1>1, <1>4, <1>5, <1>8, <1>10 DEF CacheTypeOK
  <1>13. CacheTypeOK'
    BY <1>11, <1>12, Zenon DEF CacheTypeOK
  <1>14. ASSUME NEW s \in Threads, s # t, building[s] # <<>>
         PROVE  /\ getting[s] \in Roots
                /\ cache[getting[s]].flag = "running"
                /\ VectorInv(cache[getting[s]].structs, getting[s])
                /\ StackInv(cache[getting[s]].structs, building[s])
                /\ TopInv(building[s])
                /\ RestComplete(cache[getting[s]].structs, building[s])
                /\ getting[s] # n
                /\ cache'[getting[s]] = cache[getting[s]]
    <2>1. /\ getting[s] \in Roots
          /\ cache[getting[s]].flag = "running"
          /\ VectorInv(cache[getting[s]].structs, getting[s])
          /\ StackInv(cache[getting[s]].structs, building[s])
          /\ TopInv(building[s])
          /\ RestComplete(cache[getting[s]].structs, building[s])
      BY <1>14, Zenon DEF IInv, BuildInv
    <2>2. getting[s] # n
      BY <2>1, <1>1
    <2> QED
      BY <2>1, <2>2, <1>11, Zenon
  <1>15. BuildInv'
    <2> SUFFICES ASSUME NEW s \in Threads, building'[s] # <<>>
                 PROVE  /\ getting'[s] \in Roots
                        /\ cache'[getting'[s]].flag = "running"
                        /\ VectorInv(cache'[getting'[s]].structs, getting'[s])
                        /\ StackInv(cache'[getting'[s]].structs, building'[s])
                        /\ TopInv(building'[s])
                        /\ RestComplete(cache'[getting'[s]].structs, building'[s])
      BY Zenon DEF BuildInv
    <2>1. CASE s = t
      BY <2>1, <1>9, <1>11, <1>12, Zenon
    <2>2. CASE s # t
      <3>1. building'[s] = building[s] /\ getting'[s] = getting[s] /\ building[s] # <<>>
        BY <2>2, <1>12, Zenon
      <3>2. /\ getting[s] \in Roots
            /\ cache[getting[s]].flag = "running"
            /\ VectorInv(cache[getting[s]].structs, getting[s])
            /\ StackInv(cache[getting[s]].structs, building[s])
            /\ TopInv(building[s])
            /\ RestComplete(cache[getting[s]].structs, building[s])
            /\ cache'[getting[s]] = cache[getting[s]]
        BY <3>1, <2>2, <1>14, Zenon
      <3> QED
        BY <3>1, <3>2, Zenon
    <2> QED
      BY <2>1, <2>2
  <1>16. OnceInv'
    <2> SUFFICES ASSUME NEW r \in Threads, NEW s \in Threads,
                        building'[r] # <<>>, building'[s] # <<>>, getting'[r] = getting'[s]
                 PROVE  r = s
      BY Zenon DEF OnceInv
    <2>1. CASE r = t \/ s = t
      BY <2>1, <1>12, <1>14, Zenon
    <2>2. CASE r # t /\ s # t
      BY <2>2, <1>12, Zenon DEF IInv, OnceInv
    <2> QED
      BY <2>1, <2>2
  <1>17. DoneInv'
    <2> SUFFICES ASSUME NEW m \in Roots, cache'[m].flag = "done" PROVE Describes(m)'
      BY Zenon DEF DoneInv
    <2>1. m # n
      BY <1>11
    <2>2. cache'[m] = cache[m]
      BY <2>1, <1>11, Zenon
    <2>3. Describes(m)
      BY <2>2, Zenon DEF IInv, DoneInv
    <2> QED
      BY <2>2, <2>3, Zenon DEF Describes
  <1> QED
    BY <1>13, <1>15, <1>16, <1>17 DEF IInv

LEMMA GetDoneStep ==
    ASSUME IInv, NEW t \in Threads, GetDone(t)
    PROVE  IInv'
  <1>1. PICK T, ss, st : T = getting[t] /\ ss = cache[T].structs /\ st = building[t]
    BY Zenon
  <1>2. /\ Len(st) = 1 /\ st[1].todo = <<>>
        /\ cache' = [cache EXCEPT ![T].flag = "done"]
        /\ building' = [building EXCEPT ![t] = <<>>]
        /\ getting' = getting
    BY <1>1 DEF GetDone
  <1>3. building[t] # <<>>
    BY <1>1, <1>2
  <1>4. /\ T \in Roots /\ cache[T].flag = "running"
        /\ ss \in Seq(StructDefs) /\ st \in Seq(Frames)
        /\ VectorInv(ss, T) /\ StackInv(ss, st) /\ RestComplete(ss, st)
    BY <1>1, <1>3, BuildFacts, Zenon
  <1>5. 1 \in 1 .. Len(st) /\ \A k \in 1 .. Len(st) : k = 1
    BY <1>2
  <1>6. ASSUME NEW i \in 1 .. Len(ss) PROVE Complete(ss, i)
    <2>1. CASE st[1].this = i
      <3>1. FrameInv(ss, st[1])
        BY <1>4, <1>5, Zenon DEF StackInv
      <3>2. ss[i] \in StructDefs
        BY <1>4, ElementOfSeq
      <3>3. ss[i].name \in DOMAIN Decls
        BY <3>2 DEF StructDefs
      <3>4. Len(Visits(ss[i].name)) \in Nat
        BY <3>3, VisitFacts
      <3>5. Place(ss, st[1]) = Len(Visits(ss[i].name))
        BY <3>4, <2>1, <1>2 DEF Place
      <3> QED
        BY <3>1, <3>5, <2>1, Zenon DEF FrameInv, Complete
    <2>2. CASE st[1].this # i
      BY <2>2, <1>4, <1>5, Zenon DEF RestComplete
    <2> QED
      BY <2>1, <2>2
  <1>7. ASSUME NEW i \in 1 .. Len(ss) PROVE DescribesStruct(ss, i)
    BY <1>4, <1>6, CompleteDescribes, Zenon
  <1>8. ss[1].name = T /\ DOMAIN ss = 1 .. Len(ss)
    BY <1>4 DEF VectorInv
  <1>9. CacheTypeOK
    BY DEF IInv
  <1>10. /\ cache'[T].structs = ss /\ cache'[T].flag = "done"
         /\ \A n \in Roots : n # T => cache'[n] = cache[n]
         /\ cache' \in [Roots -> [flag : {"unset", "running", "done"}, structs : Seq(StructDefs)]]
    <2>1. cache \in [Roots -> [flag : {"unset", "running", "done"}, structs : Seq(StructDefs)]] /\ T \in Roots
      BY <1>4, <1>9, Zenon DEF CacheTypeOK
    <2>2. cache' = [cache EXCEPT ![T].flag = "done"] /\ ss = cache[T].structs
      BY <1>1, <1>2, Zenon
    <2> QED
      BY <2>1, <2>2
  <1>11. /\ building'[t] = <<>>
         /\ \A s \in Threads : s # t => building'[s] = building[s]
         /\ building' \in [Threads -> Seq(Frames)]
    BY <1>2, <1>9 DEF CacheTypeOK
  <1>12. CacheTypeOK'
    BY <1>2, <1>9, <1>10, <1>11 DEF CacheTypeOK
  <1>13. BuildInv'
    <2> SUFFICES ASSUME NEW s \in Threads, building'[s] # <<>>
                 PROVE  /\ getting[s] \in Roots
                        /\ cache'[getting[s]].flag = "running"
                        /\ VectorInv(cache'[getting[s]].structs, getting[s])
                        /\ StackInv(cache'[getting[s]].structs, building'[s])
                        /\ TopInv(building'[s])
                        /\ RestComplete(cache'[getting[s]].structs, building'[s])
      BY <1>2, Zenon DEF BuildInv
    <2>1. s # t /\ building'[s] = building[s] /\ building[s] # <<>>
      BY <1>11, Zenon
    <2>2. /\ getting[s] \in Roots
          /\ cache[getting[s]].flag = "running"
          /\ VectorInv(cache[getting[s]].structs, getting[s])
          /\ StackInv(cache[getting[s]].structs, building[s])
          /\ TopInv(building[s])
          /\ RestComplete(cache[getting[s]].structs, building[s])
      BY <2>1, Zenon DEF IInv, BuildInv
    <2>3. getting[s] # T
      BY <2>1, <1>1, <1>3, Zenon DEF IInv, OnceInv
    <2>4. cache'[getting[s]] = cache[getting[s]]
      BY <2>2, <2>3, <1>10, Zenon
    <2> QED
      BY <2>1, <2>2, <2>4, Zenon
  <1>14. OnceInv'
    <2> SUFFICES ASSUME NEW r \in Threads, NEW s \in Threads,
                        building'[r] # <<>>, building'[s] # <<>>, getting[r] = getting[s]
                 PROVE  r = s
      BY <1>2, Zenon DEF OnceInv
    <2>1. building[r] # <<>> /\ building[s] # <<>>
      BY <1>11, Zenon
    <2> QED
      BY <2>1, Zenon DEF IInv, OnceInv
  <1>15. DoneInv'
    <2> SUFFICES ASSUME NEW n \in Roots, cache'[n].flag = "done" PROVE Describes(n)'
      BY Zenon DEF DoneInv
    <2>1. CASE n = T
      BY <2>1, <1>7, <1>8, <1>10, Zenon DEF Describes
    <2>2. CASE n # T
      <3>1. cache'[n] = cache[n]
        BY <2>2, <1>10, Zenon
      <3>2. Describes(n)
        BY <3>1, Zenon DEF IInv, DoneInv
      <3> QED
        BY <3>1, <3>2, Zenon DEF Describes
    <2> QED
      BY <2>1, <2>2
  <1> QED
    BY <1>12, <1>13, <1>14, <1>15 DEF IInv

(* A step of a thread that builds nothing, into Get or out of it.          *)
LEMMA OtherStep ==
    ASSUME IInv, NEW t \in Threads, building[t] = <<>>, NEW n \in Roots \cup {"idle"},
           getting' = [getting EXCEPT ![t] = n], UNCHANGED <<cache, building>>
    PROVE  IInv'
  <1>1. /\ \A s \in Threads : s # t => getting'[s] = getting[s]
        /\ CacheTypeOK' /\ cache' = cache /\ building' = building
    BY DEF IInv, CacheTypeOK
  <1>2. \A s \in Threads : building[s] # <<>> => getting'[s] = getting[s]
    BY <1>1, Zenon
  <1>3. BuildInv'
    <2> SUFFICES ASSUME NEW s \in Threads, building[s] # <<>>
                 PROVE  /\ getting'[s] \in Roots
                        /\ cache[getting'[s]].flag = "running"
                        /\ VectorInv(cache[getting'[s]].structs, getting'[s])
                        /\ StackInv(cache[getting'[s]].structs, building[s])
                        /\ TopInv(building[s])
                        /\ RestComplete(cache[getting'[s]].structs, building[s])
      BY <1>1, Zenon DEF BuildInv
    <2>1. getting'[s] = getting[s]
      BY <1>2, Zenon
    <2>2. /\ getting[s] \in Roots
          /\ cache[getting[s]].flag = "running"
          /\ VectorInv(cache[getting[s]].structs, getting[s])
          /\ StackInv(cache[getting[s]].structs, building[s])
          /\ TopInv(building[s])
          /\ RestComplete(cache[getting[s]].structs, building[s])
      BY Zenon DEF IInv, BuildInv
    <2> QED
      BY <2>1, <2>2, Zenon
  <1>4. OnceInv'
    <2> SUFFICES ASSUME NEW r \in Threads, NEW s \in Threads,
                        building'[r] # <<>>, building'[s] # <<>>, getting'[r] = getting'[s]
                 PROVE  r = s
      BY Zenon DEF OnceInv
    <2>0. building[r] # <<>> /\ building[s] # <<>>
      BY <1>1, Zenon
    <2>1. getting[r] = getting[s] /\ building[r] # <<>> /\ building[s] # <<>>
      BY <2>0, <1>2, Zenon
    <2> QED
      BY <2>1, Zenon DEF IInv, OnceInv
  <1>5. DoneInv'
    BY <1>1, Zenon DEF IInv, DoneInv, Describes
  <1> QED
    BY <1>1, <1>3, <1>4, <1>5 DEF IInv

LEMMA NextIInv ==
    IInv /\ [CacheNext]_cacheVars => IInv'
  <1> SUFFICES ASSUME IInv, [CacheNext]_cacheVars PROVE IInv'
    OBVIOUS
  <1>1. ASSUME NEW t \in Threads, GetAgain(t) PROVE IInv'
    <2>1. PICK n \in Roots : getting[t] = "idle" /\ getting' = [getting EXCEPT ![t] = n] /\ UNCHANGED <<cache, building>>
      BY <1>1 DEF GetAgain
    <2>2. building[t] = <<>>
      BY <2>1, IdleBuildsNothing
    <2> QED
      BY <2>1, <2>2, OtherStep
  <1>2. ASSUME NEW t \in Threads, GetReturns(t) PROVE IInv'
    BY <1>2, OtherStep DEF GetReturns
  <1>3. CASE UNCHANGED cacheVars
    <2>1. cache' = cache /\ building' = building /\ getting' = getting
      BY <1>3 DEF cacheVars
    <2> QED
      BY <2>1, Zenon DEF IInv, CacheTypeOK, BuildInv, OnceInv, DoneInv, Describes
  <1> QED
    BY <1>1, <1>2, <1>3, GetFirstStep, VisitKnownStep, VisitNewStep, AppendStructDefReturnsStep, GetDoneStep
       DEF CacheNext

(* Whatever the structs refer to and however the threads interleave, the   *)
(* vector, the transforms on the stack and the StructDefs already filled   *)
(* agree, only one thread builds a schema, and one that is done describes  *)
(* its struct (SchemaCache<T>::Get, InitSchemaDef, GetStructDef).          *)
THEOREM CacheInvariant ==
    CacheSpec => []IInv
  BY InitIInv, NextIInv, PTL DEF CacheSpec

(* A thread that returns from SchemaCache<T>::Get has a schema that        *)
(* describes T completely, for any structs, also ones that contain         *)
(* themselves or each other, and any number of threads.                    *)
THEOREM GetHandsOutCompleteSchema ==
    CacheSpec => GetSeesCompleteSchema
  <1> DEFINE P == \A t \in Threads : getting[t] # "idle" /\ getting'[t] = "idle" => Describes(getting[t])
  <1>1. IInv /\ [CacheNext]_cacheVars => [P]_cacheVars
    <2> SUFFICES ASSUME IInv, CacheNext, NEW t \in Threads, getting[t] # "idle", getting'[t] = "idle"
                 PROVE  Describes(getting[t])
      BY Zenon
    <2>1. getting \in [Threads -> Roots \cup {"idle"}] /\ "idle" \notin Roots
      BY DeclsAssumption DEF IInv, CacheTypeOK
    <2>2. PICK s \in Threads : GetFirst(s) \/ GetAgain(s) \/ GetReturns(s) \/ getting' = getting
      BY DEF CacheNext, VisitKnown, VisitNew, AppendStructDefReturns, GetDone
    <2>3. CASE GetFirst(s) \/ GetAgain(s)
      <3>1. PICK n \in Roots : getting' = [getting EXCEPT ![s] = n]
        BY <2>3 DEF GetFirst, GetAgain
      <3> QED
        BY <3>1, <2>1
    <2>4. CASE GetReturns(s)
      <3>1. getting' = [getting EXCEPT ![s] = "idle"] /\ cache[getting[s]].flag = "done" /\ getting[s] # "idle"
        BY <2>4 DEF GetReturns, OnceReturns
      <3>2. s = t
        BY <3>1, <2>1
      <3> QED
        BY <3>1, <3>2, <2>1 DEF IInv, DoneInv
    <2>5. CASE getting' = getting
      BY <2>5
    <2> QED
      BY <2>2, <2>3, <2>4, <2>5
  <1> QED
    BY <1>1, CacheInvariant, PTL DEF CacheSpec, GetSeesCompleteSchema
====
