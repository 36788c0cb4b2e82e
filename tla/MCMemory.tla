------------------------------ MODULE MCMemory -----------------------------
(***************************************************************************)
(* Model-checking instance of the objects that own and share memory: the   *)
(* capped allocator, the memory streams, nullable and bonded.  A behaviour *)
(* is one of the object that focus names; the others stay as constructed.  *)
(***************************************************************************)
EXTENDS CappedAllocator, Streams, Nullable, Bonded

CONSTANTS a1, a2, b1, b2, b3, bonded1, bonded2, null1, null2

VARIABLE focus

MCInit ==
    /\ focus \in {"allocator", "streams", "nullable", "bonded"}
    /\ Init /\ NullableInit /\ BondedInit
    /\ StreamsInit
    /\ focus # "streams" => bufferSize = 0

MCNext ==
    /\ UNCHANGED focus
    /\ \/ focus = "allocator" /\ Next /\ UNCHANGED <<streamVars, nullableVars, bondedVars>>
       \/ focus = "streams" /\ StreamsNext /\ UNCHANGED <<vars, nullableVars, bondedVars>>
       \/ focus = "nullable" /\ NullableNext /\ UNCHANGED <<vars, streamVars, bondedVars>>
       \/ focus = "bonded" /\ BondedNext /\ UNCHANGED <<vars, streamVars, nullableVars>>

MCSpec == MCInit /\ [][MCNext]_<<vars, streamVars, nullableVars, bondedVars, focus>>

(* Blocks of one kind, the variables of type bonded and of type nullable,  *)
(* and the allocators of the latter are alike.                             *)
Symmetry ==
    UNION {Permutations(S) : S \in {Blocks \ Keeping, Slots, NullVars, NullAllocators}}

(* Streams: integers of one, of the most and of all but one byte, of a     *)
(* type; blobs that are copied and that are chained.                       *)
MCItems ==
    { <<"bytes", <<1>> >>, <<"bytes", <<2, 3, 1, 2, 3, 1>> >>, <<"blob", <<5>> >>, <<"blob", <<6, 7, 6>> >>,
      <<"u16", 3>>, <<"u16", 31>>, <<"u32", 200>>, <<"u32", 511>>, <<"u64", 3>>, <<"u64", 2 ^ 18 - 1>>,
      <<"u64", 2 ^ 18>>, <<"u64", 2 ^ 19 - 1>> }

(* bonded: a struct and one derived from it.                               *)
Field(id, type, default, modifier) == [id |-> id, type |-> type, default |-> default, modifier |-> modifier]

structs ==
    LET fields == <<Field(0, <<"uint16">>, 0, "Optional"), Field(7, <<"string">>, <<>>, "Optional")>> IN
    [ Base |-> <<fields>>,
      Derived |-> <<fields, <<Field(1, <<"struct", "Base">>, <<>>, "Required"), Field(300, <<"list", <<"int32">> >>, <<>>, "Optional")>> >> ]

MCStructs == structs

MCBases == [Base |-> {"Base"}, Derived |-> {"Base", "Derived"}]

MCObjects ==
    { <<"Base", << (0 :> 0) @@ (7 :> <<66, 67>>) >> >>,
      <<"Derived", << (0 :> 5) @@ (7 :> <<>>), (1 :> << (0 :> 300) @@ (7 :> <<65>>) >>) @@ (300 :> <<-1, 70>>) >> >> }
=============================================================================
