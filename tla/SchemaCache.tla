---------------------------- MODULE SchemaCache ----------------------------
(***************************************************************************)
(* Runtime schemas (src/cpp/inc/bond/core/schema.h): SchemaCache<T> builds *)
(* the SchemaDef of a struct once, on the first call of any thread, with   *)
(* the transform InitSchemaDef, which appends a StructDef for every struct *)
(* it meets to one vector while the ones above it are being filled.        *)
(*                                                                         *)
(* A StructDef is [name, base, fields]; base is <<type>>, or <<>> without  *)
(* one.  A type is only looked at through the two constant operators, by   *)
(* which module Schemas describes C++ types and TypeDefs.                  *)
(***************************************************************************)
EXTENDS Integers, FiniteSets, SequencesExt

CONSTANTS
    Threads,
    Decls,          \* struct name -> [base, fields], base = "none" without one; a field is
                    \* [id, type, default, modifier]
    Roots,          \* the structs whose schemas the threads ask for
    MaxSchemas,     \* how many schemas are built
    StructIn(_),    \* the struct a type is made of, if any
    TypeDef(_, _)   \* GetTypeDef<T>, with the index that GetStructDef returned

VARIABLES
    cache,          \* SchemaCache<T>: [flag, structs]
    getting,        \* thread -> the SchemaCache<T>::Get() it is in, "idle" when in none
    building        \* thread -> its InitSchemaDef transforms, the innermost last

cacheVars == <<cache, getting, building>>

BaseId == -1    \* in the place of a field id, for the base

BaseType(n) == <<"struct", Decls[n].base>>

(* Structs are complete types: their bases and the structs their fields    *)
(* are made of are declared.                                               *)
ASSUME DeclsAssumption ==
    /\ Roots \subseteq DOMAIN Decls /\ "idle" \notin Roots
    /\ \A n \in DOMAIN Decls :
        /\ Decls[n].fields \in Seq(Range(Decls[n].fields))
        /\ Decls[n].base # "none" => Decls[n].base \in DOMAIN Decls /\ StructIn(BaseType(n)) = {Decls[n].base}
        /\ \A f \in Range(Decls[n].fields) :
            /\ f.id # BaseId
            /\ \A m \in StructIn(f.type) : m \in DOMAIN Decls /\ StructIn(f.type) = {m}

CacheInit ==
    /\ cache = [n \in Roots |-> [flag |-> "unset", structs |-> <<>>]]
    /\ getting = [t \in Threads |-> "idle"]
    /\ building = [t \in Threads |-> <<>>]

-----------------------------------------------------------------------------
(* InitSchemaDef                                                           *)

(* InitSchemaDef() and Begin: the StructDef has its name before its fields *)
(* are visited.                                                            *)
NewStructDef(n) == [name |-> n, base |-> <<>>, fields |-> <<>>]

(* What the parser will call the transform with: the base, then the fields.*)
Visits(n) ==
    (IF Decls[n].base = "none" THEN <<>> ELSE <<[id |-> BaseId, type |-> BaseType(n)]>>) \o Decls[n].fields

Transform(n, index) == [this |-> index, todo |-> Visits(n), struct_def |-> 0]

IndexOf(structs, n) == {i \in DOMAIN structs : structs[i].name = n}

IndexAfterwards(structs, frame) == Len(structs)   \* Mutant: the index is taken after AppendStructDef

(* GetStructDef has the index of a new StructDef before it appends it.     *)
GetStructDef(structs, frame) == frame.struct_def

(* Base and Field: This() is filled with the type just made.               *)
Filled(structs, frame, index) ==
    LET v == Head(frame.todo)
        type == TypeDef(v.type, index)
    IN  IF v.id = BaseId THEN [structs EXCEPT ![frame.this].base = <<type>>]
        ELSE [structs EXCEPT ![frame.this].fields = Append(@, [id |-> v.id, modifier |-> v.modifier, type |-> type])]

(* A call of Base or Field whose struct, if any, is in the vector.         *)
VisitKnown(t) ==
    LET T == getting[t]  frame == Last(building[t])  structs == cache[T].structs
        found == UNION {IndexOf(structs, n) : n \in StructIn(Head(frame.todo).type)}
    IN  /\ building[t] # <<>> /\ frame.todo # <<>> /\ frame.struct_def = 0
        /\ StructIn(Head(frame.todo).type) = {} \/ found # {}
        /\ cache' = [cache EXCEPT ![T].structs =
                        Filled(structs, frame, IF found = {} THEN 0 ELSE CHOOSE i \in found : \A j \in found : i <= j)]
        /\ building' = [building EXCEPT ![t][Len(building[t])].todo = Tail(@)]
        /\ UNCHANGED getting

(* Mutant: the nested struct waits for its own SchemaCache.                *)
VisitNewThroughCache(t) ==
    /\ building[t] # <<>> /\ Last(building[t]).todo # <<>> /\ Last(building[t]).struct_def = 0
    /\ \E n \in StructIn(Head(Last(building[t]).todo).type) \cap Roots : cache[n].flag = "done"
    /\ UNCHANGED cacheVars

(* GetStructDef of a struct that is not: SchemaCache<T>::AppendStructDef.  *)
VisitNew(t) ==
    LET T == getting[t]  frame == Last(building[t])  structs == cache[T].structs
    IN  /\ building[t] # <<>> /\ frame.todo # <<>> /\ frame.struct_def = 0
        /\ \E n \in StructIn(Head(frame.todo).type) :
             /\ IndexOf(structs, n) = {}
             /\ cache' = [cache EXCEPT ![T].structs = Append(@, NewStructDef(n))]
             /\ building' = [building EXCEPT ![t] =
                                Append([@ EXCEPT ![Len(@)].struct_def = Len(structs) + 1], Transform(n, Len(structs) + 1))]
        /\ UNCHANGED getting

(* The inner transform has ended and the outer one goes on with its field. *)
AppendStructDefReturns(t) ==
    LET T == getting[t]  outer == Front(building[t])  frame == Last(outer)  structs == cache[T].structs
    IN  /\ Len(building[t]) > 1 /\ Last(building[t]).todo = <<>>
        /\ cache' = [cache EXCEPT ![T].structs = Filled(structs, frame, GetStructDef(structs, frame))]
        /\ building' = [building EXCEPT ![t] =
                           Append(Front(outer), [frame EXCEPT !.todo = Tail(@), !.struct_def = 0])]
        /\ UNCHANGED getting

-----------------------------------------------------------------------------
(* SchemaCache<T>::Get: call_once.                                         *)
GetFirst(t) ==
    \E n \in Roots :
        /\ getting[t] = "idle" /\ cache[n].flag = "unset"
        /\ Cardinality({m \in Roots : cache[m].flag # "unset"}) < MaxSchemas
        /\ getting' = [getting EXCEPT ![t] = n]
        /\ cache' = [cache EXCEPT ![n] = [flag |-> "running", structs |-> <<NewStructDef(n)>>]]
        /\ building' = [building EXCEPT ![t] = <<Transform(n, 1)>>]

GetAgain(t) ==
    \E n \in Roots :
        /\ getting[t] = "idle" /\ cache[n].flag # "unset"
        /\ getting' = [getting EXCEPT ![t] = n]
        /\ UNCHANGED <<cache, building>>

GetDone(t) ==
    /\ Len(building[t]) = 1 /\ building[t][1].todo = <<>>
    /\ cache' = [cache EXCEPT ![getting[t]].flag = "done"]
    /\ building' = [building EXCEPT ![t] = <<>>]
    /\ UNCHANGED getting

(* Whether call_once returns: to a thread that did not make the call, not  *)
(* before the call has returned.                                           *)
OnceReturns(n) == cache[n].flag = "done"

GetReturns(t) ==
    /\ getting[t] # "idle" /\ building[t] = <<>> /\ OnceReturns(getting[t])
    /\ getting' = [getting EXCEPT ![t] = "idle"]
    /\ UNCHANGED <<cache, building>>

CacheNext ==
    \E t \in Threads :
        \/ GetFirst(t) \/ GetAgain(t) \/ VisitKnown(t) \/ VisitNew(t) \/ AppendStructDefReturns(t)
        \/ GetDone(t) \/ GetReturns(t)

(* A thread in InitSchemaDef goes on, and call_once lets the others go.    *)
CacheFairness ==
    \A t \in Threads : WF_cacheVars(VisitKnown(t) \/ VisitNew(t) \/ AppendStructDefReturns(t) \/ GetDone(t) \/ GetReturns(t))

CacheSpec == CacheInit /\ [][CacheNext]_cacheVars /\ CacheFairness

-----------------------------------------------------------------------------
(* The schema that SchemaCache<T>::Get returns describes T: the root is    *)
(* the first StructDef, every struct that T is made of is there once, and  *)
(* every struct_def, also one taken while the vector was growing under a   *)
(* struct that is part of itself, is the index of the struct that the      *)
(* field or base is declared with (InitSchemaDef, GetStructDef).           *)
Means(structs, type, T) ==
    /\ \A n \in StructIn(T) : \E j \in DOMAIN structs : structs[j].name = n /\ type = TypeDef(T, j)
    /\ StructIn(T) = {} => type = TypeDef(T, 0)

DescribesStruct(structs, i) ==
    LET def == structs[i]  decl == Decls[def.name]
    IN  /\ \A j \in DOMAIN structs : structs[j].name = def.name => i = j
        /\ (def.base = <<>>) = (decl.base = "none")
        /\ def.base # <<>> => Means(structs, def.base[1], BaseType(def.name))
        /\ Len(def.fields) = Len(decl.fields)
        /\ \A k \in DOMAIN def.fields : /\ def.fields[k].id = decl.fields[k].id
                                        /\ def.fields[k].modifier = decl.fields[k].modifier
                                        /\ Means(structs, def.fields[k].type, decl.fields[k].type)

Describes(n) ==
    LET structs == cache[n].structs
    IN  structs[1].name = n /\ \A i \in DOMAIN structs : DescribesStruct(structs, i)

(* A thread that returns from Get has the complete schema, also when other *)
(* threads were in the first call at the same time (SchemaCache::Get).     *)
GetSeesCompleteSchema ==
    [][\A t \in Threads : getting[t] # "idle" /\ getting'[t] = "idle" => Describes(getting[t])]_cacheVars

(* Every call of Get returns, though all but the first wait for the thread *)
(* that builds the schema, and schemas of structs that contain themselves  *)
(* are finite.                                                             *)
GetReturnsEventually == \A t \in Threads : getting[t] # "idle" ~> getting[t] = "idle"
=============================================================================
