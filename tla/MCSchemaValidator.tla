-------------------------- MODULE MCSchemaValidator -------------------------
EXTENDS SchemaValidator, TLC

V(id, type, required) == [id |-> id, type |-> type, default |-> 0, modifier |-> IF required THEN "Required" ELSE "Optional"]

(* The shape of SchemaDef: metadata with attributes, a hierarchy, nested   *)
(* and nullable structs; the New versions have fields more.                *)
validatorStructs ==
    [ Meta    |-> << <<V(1, <<"uint8">>, FALSE), V(2, <<"map", <<"uint8">>, <<"uint8">> >>, FALSE), V(3, <<"int16">>, TRUE)>> >>,
      Def     |-> << <<V(0, <<"uint16">>, FALSE)>>,
                     <<V(1, <<"struct", "Meta">>, TRUE), V(4, <<"list", <<"struct", "Meta">> >>, FALSE),
                       V(5, <<"nullable", <<"struct", "Meta">> >>, FALSE)>> >>,
      NewMeta |-> << <<V(1, <<"uint8">>, FALSE), V(2, <<"map", <<"uint8">>, <<"uint8">> >>, FALSE), V(3, <<"int16">>, TRUE),
                       V(7, <<"uint32">>, FALSE)>> >>,
      NewDef  |-> << <<V(0, <<"uint16">>, FALSE)>>,
                     <<V(1, <<"struct", "NewMeta">>, TRUE), V(2, <<"list", <<"uint8">> >>, FALSE),
                       V(4, <<"list", <<"struct", "NewMeta">> >>, FALSE),
                       V(5, <<"nullable", <<"struct", "NewMeta">> >>, FALSE)>>,
                     <<V(0, <<"int8">>, FALSE)>> >> ]

MCValidatorStructs == validatorStructs

meta(x, m) == << (1 :> x) @@ (2 :> m) @@ (3 :> 9) >>
newMeta(x, m, y) == << (1 :> x) @@ (2 :> m) @@ (3 :> 9) @@ (7 :> y) >>
UpTo1(S) == {<<>>} \cup {<<x>> : x \in S}

Definitions(attributes) ==
    LET metas == {meta(x, m) : x \in {0, 5}, m \in attributes} IN
    {<<"Def", << 0 :> 3, (1 :> a) @@ (4 :> l) @@ (5 :> n) >> >> : a \in metas, l \in UpTo1(metas), n \in UpTo1(metas)}

newDefinitions ==
    LET metas == {newMeta(x, <<>>, y) : x \in {0, 5}, y \in {0, 200}} IN
    {<<"NewDef", << 0 :> 3, (1 :> a) @@ (2 :> u) @@ (4 :> l) @@ (5 :> n), 0 :> d >> >> :
        a \in metas, u \in {<<>>, <<6>>}, l \in UpTo1(metas), n \in UpTo1(metas), d \in {0, -1}}

(* Without attributes, and with.                                           *)
plainDefinitions == Definitions({<<>>}) \cup newDefinitions
MCValidatorObjects == plainDefinitions

attributedDefinitions == Definitions({<<>>}) \cup {<<"Def", << 0 :> 3, (1 :> meta(5, 1 :> 2)) @@ (4 :> <<>>) @@ (5 :> <<>>) >> >>}
MCAttributedObjects == attributedDefinitions

MCValidatorSchema == [Meta |-> "Meta", Def |-> "Def", NewMeta |-> "Meta", NewDef |-> "Def"]

=============================================================================
