---------------------------- MODULE MCSimpleJson ---------------------------
EXTENDS SimpleJson, TLC

J(id, name, type, default, required) ==
    [id |-> id, name |-> name, type |-> type, default |-> default, modifier |-> IF required THEN "Required" ELSE "Optional"]

title == J(0, "title", <<"string">>, <<>>, TRUE)
tags == J(3, "tags", <<"list", <<"string">> >>, <<>>, FALSE)
text == [jsonName |-> "Text"] @@ J(0, "text", <<"wstring">>, <<97>>, FALSE)

(* Hierarchies with every kind of container; the others are versions of    *)
(* Note, Book and Sheet: fields and a level less, fields and a level more, *)
(* wider types, and required fields that may be missing.                   *)
jsonStructs ==
    [ Note    |-> << <<text, J(1, "count", <<"uint8">>, 0, FALSE), J(2, "flag", <<"bool">>, 0, FALSE)>> >>,
      Book    |-> << <<title, tags>>,
                     <<J(0, "notes", <<"list", <<"struct", "Note">> >>, <<>>, FALSE),
                       J(1, "index", <<"map", <<"uint8">>, <<"list", <<"int16">> >> >>, <<>>, FALSE),
                       J(2, "main", <<"struct", "Note">>, <<>>, FALSE), J(9, "ratio", <<"double">>, 0, FALSE)>> >>,
      Sheet   |-> << <<J(4, "copy", <<"nullable", <<"int32">> >>, <<>>, FALSE), J(5, "raw", <<"blob">>, <<>>, FALSE)>>,
                     <<J(7, "ids", <<"set", <<"int16">> >>, {}, FALSE), J(8, "bits", <<"list", <<"bool">> >>, <<>>, FALSE)>> >>,
      Brief   |-> << <<J(1, "count", <<"uint8">>, 0, FALSE), J(6, "more", <<"map", <<"uint8">>, <<"uint8">> >>, <<>>, FALSE)>> >>,
      Leaflet |-> << <<title, J(6, "price", <<"int32">>, -2, FALSE)>> >>,
      Reprint |-> << <<tags>>,
                     <<J(0, "notes", <<"list", <<"struct", "Wide">> >>, <<>>, FALSE),
                       J(1, "index", <<"map", <<"uint32">>, <<"list", <<"int64">> >> >>, <<>>, FALSE),
                       J(3, "year", <<"uint16">>, 7, FALSE), J(9, "ratio", <<"double">>, 0, FALSE)>> >>,
      Wide    |-> << <<J(1, "count", <<"uint32">>, 0, FALSE), J(2, "flag", <<"bool">>, 0, FALSE)>> >>,
      Counted |-> << <<text, J(1, "count", <<"uint16">>, 0, TRUE)>> >>,
      Filed   |-> << <<J(4, "owner", <<"string">>, <<>>, TRUE)>>,
                     <<J(1, "count", <<"uint32">>, 0, FALSE), J(2, "flag", <<"bool">>, 0, FALSE)>> >>,
      Digest  |-> << <<title>>,
                     <<J(0, "notes", <<"list", <<"struct", "Counted">> >>, <<>>, FALSE), J(2, "main", <<"struct", "Counted">>, <<>>, TRUE)>> >> ]

note(s, n, b) == << (0 :> s) @@ (1 :> n) @@ (2 :> b) >>
notes == {note(s, n, b) : s \in {<<97>>, <<10, 47, 34, 1000>>, <<1, 92, 127, 128>>}, n \in {0, 200}, b \in {0, 1}}
plain == note(<<97>>, 0, 0)
rich == note(<<12, 65>>, 3, 1)

books ==
    {<< (0 :> s) @@ (3 :> l), (0 :> ns) @@ (1 :> m) @@ (2 :> rich) @@ (9 :> 11) >> :
        s \in {<<>>, <<34, 9, 47>>}, l \in {<<>>, << <<65>>, <<>> >>}, ns \in {<<>>, <<plain>>, <<rich, plain>>},
        m \in {<<>>, (1 :> <<>>) @@ (200 :> <<-300, 4>>)}}

sheets ==
    {<< (4 :> c) @@ (5 :> r), (7 :> i) @@ (8 :> b) >> :
        c \in {<<>>, <<-7>>}, r \in {<<>>, <<-1, 2>>}, i \in {{}, {-300, 5}}, b \in {<<>>, <<1, 0>>}}

MCJsonObjects == {<<"Note", v>> : v \in notes} \cup {<<"Book", v>> : v \in books} \cup {<<"Sheet", v>> : v \in sheets}
MCJsonViews == [Note |-> {"Note", "Brief"}, Book |-> {"Book", "Leaflet"}, Sheet |-> {"Sheet", "Brief"}]
MCJsonTargets ==
    [Note |-> {"Note", "Wide", "Brief", "Counted", "Filed"}, Book |-> {"Book", "Leaflet", "Reprint", "Digest"}, Sheet |-> {"Sheet", "Leaflet"}]
=============================================================================
