-------------------------- MODULE MCTaggedParser ---------------------------
(* Model-checking instances of TaggedParser: a struct with one base, and   *)
(* the payloads that writers of other versions of it produce.              *)
EXTENDS TaggedParser

CONSTANTS
    KnownTypes,     \* the types in which the payload may hold a known field
    UnknownTypes    \* the same for a field the schema does not have

(* The tags of a struct, where types[i] is the type of field i or "none".  *)
Tags(types) ==
    SelectSeq([i \in 1 .. Len(types) |-> [id |-> i, type |-> types[i]]], LAMBDA t : t.type # "none")

UnknownChoices == {"none"} \cup UnknownTypes
KnownChoices == {"none"} \cup KnownTypes

BaseStructs == {Tags(<<a, b, c, d, e>>) : a, c, e \in UnknownChoices, b, d \in KnownChoices}
DerivedStructs == {Tags(<<a, b>>) : a \in UnknownChoices, b \in KnownChoices}
FurtherStructs == {Tags(<<a>>) : a \in UnknownTypes}

payloads ==
    {<<b>> : b \in BaseStructs}
    \cup {<<b, d>> : b \in BaseStructs, d \in DerivedStructs}
    \cup {<<b, d, e>> : b \in BaseStructs, d \in DerivedStructs, e \in FurtherStructs}

MCPayloads == payloads

SchemaField(i, t, r) == [id |-> i, type |-> t, required |-> r]

(* Fields 1, 3 and 5 of the base and 1 of the derived struct are unknown.  *)
MCSchema ==
    << <<SchemaField(2, "int32", TRUE), SchemaField(4, "struct", FALSE)>>, <<SchemaField(2, "list", FALSE)>> >>

Merging == {<<"compile", "Merger", 2>>}
Reading == {"compile", "runtime"} \X {"To"} \X {1, 2}
Writing == {"compile", "runtime"} \X {"Serializer"} \X {2}
AllParses == Reading \cup Writing \cup Merging
=============================================================================
