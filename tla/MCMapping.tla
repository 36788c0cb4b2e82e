----------------------------- MODULE MCMapping -----------------------------
EXTENDS Mapping, TLC

G(id, type) == [id |-> id, type |-> type, default |-> 0, modifier |-> "Optional"]

mapStructs ==
    [ Part    |-> << <<G(0, <<"uint8">>), G(1, <<"list", <<"uint8">> >>)>> >>,
      Machine |-> << <<G(0, <<"uint16">>), G(2, <<"struct", "Part">>)>>,
                     <<G(0, <<"uint32">>), G(4, <<"struct", "Part">>), G(5, <<"set", <<"int8">> >>)>> >>,
      View    |-> << <<G(7, <<"uint16">>), G(8, <<"list", <<"uint8">> >>)>>,
                     <<G(0, <<"uint64">>), G(1, <<"struct", "Part">>), G(9, <<"set", <<"int8">> >>)>> >> ]

MCMapStructs == mapStructs

part(x, l) == << (0 :> x) @@ (1 :> l) >>
machine(x, p, y, q, z) == << (0 :> x) @@ (2 :> p), (0 :> y) @@ (4 :> q) @@ (5 :> z) >>

MCMapObjects == { <<"Part", part(200, <<1, 2>>)>>,
                  <<"Machine", machine(300, part(1, <<>>), 70000, part(3, <<4>>), {-5})>>,
                  <<"Machine", machine(0, part(0, <<7>>), 0, part(9, <<>>), {})>> }

To(path) == [path |-> path, fields |-> <<>>]
Into(fields) == [path |-> <<>>, fields |-> fields]
B == MappingBase

bases == { B :> Into(2 :> To(<<1>>)), B :> Into(0 :> To(<<B, 7>>)), B :> Into(99 :> To(<<0>>)),
           B :> Into((0 :> To(<<1, 0>>)) @@ (2 :> Into(1 :> To(<<B, 8>>)))) }
own == { <<>>, 0 :> To(<<0>>), 0 :> To(<<B, 7>>), (0 :> To(<<0>>)) @@ (5 :> To(<<9>>)), 5 :> To(<<1, 0, 3>>),
         4 :> To(<<1>>), 4 :> Into((0 :> To(<<B, 7>>)) @@ (1 :> To(<<1, 1>>))), 4 :> To(<<B, B, 1>>) }

(* Two fields are not mapped to the same place, nor into a struct that is  *)
(* the place of another.                                                   *)
RECURSIVE Dest(_)
Dest(M) == UNION {IF M[id].fields = <<>> THEN {M[id].path} ELSE Dest(M[id].fields) : id \in DOMAIN M}
Apart(b, m) == \A p \in Dest(b), q \in Dest(m) : ~IsPrefix(p, q) /\ ~IsPrefix(q, p)

mappings ==
    [ Part    |-> { 0 :> To(<<0>>), (0 :> To(<<B, 7>>)) @@ (1 :> To(<<1, 1>>)), 1 :> To(<<B, 8>>), <<>> },
      Machine |-> own \cup {x[1] @@ x[2] : x \in {y \in bases \X own : Apart(y[1], y[2])}} ]

MCMapMappings == mappings

=============================================================================
