----------------------------- MODULE MCSchemas -----------------------------
EXTENDS Schemas, TLC

DeclField(id, type, default, modifier) == [id |-> id, type |-> type, default |-> default, modifier |-> modifier]
Decl(base, fields) == [base |-> base, fields |-> fields]

node(n, t) == Decl("none", <<DeclField(0, <<t>>, 0, "Optional"), DeclField(1, <<"nullable", <<"struct", n>> >>, <<>>, "Optional")>>)

MCDecls ==
    [ Item    |-> Decl("none", <<DeclField(0, <<"uint8">>, 0, "Required")>>),
      Root    |-> Decl("none", <<DeclField(1, <<"uint16">>, 0, "Optional")>>),
      Order   |-> Decl("Root", <<DeclField(0, <<"list", <<"struct", "Item">> >>, <<>>, "Optional"),
                                   DeclField(3, <<"map", <<"uint8">>, <<"struct", "Order">> >>, <<>>, "Optional"),
                                   DeclField(4, <<"struct", "Item">>, <<>>, "RequiredOptional")>>),
      Wide    |-> Decl("none", <<DeclField(1, <<"uint32">>, 0, "Optional"), DeclField(2, <<"string">>, <<>>, "Optional")>>),
      Other   |-> Decl("none", <<DeclField(2, <<"uint16">>, 0, "Optional")>>),
      Strict  |-> Decl("none", <<DeclField(1, <<"uint16">>, 0, "Required")>>),
      Node    |-> node("Node", "uint8"),
      Twin    |-> node("Twin", "uint8"),
      WideNode |-> node("WideNode", "uint64"),
      Link    |-> Decl("none", <<DeclField(0, <<"bonded", "Order">>, <<>>, "Optional")>>),
      Slot    |-> Decl("none", <<DeclField(0, <<"struct", "Order">>, <<>>, "Optional")>>) ]

MCRoots == {"Root", "Order", "Wide", "Other", "Strict", "Node", "Twin", "WideNode", "Link", "Slot"}

hierarchies == [n \in DOMAIN MCDecls |-> Lineage(n)] @@ <<>>

MCSchemaStructs == hierarchies

item(x) == << (0 :> x) >>
root(x) == << (1 :> x) >>
order(x, is, m, i) == << (1 :> x), (0 :> is) @@ (3 :> m) @@ (4 :> i) >>
chain(x, next) == << (0 :> x) @@ (1 :> next) >>

MCSchemaObjects ==
    { <<"Root", root(0)>>, <<"Root", root(300)>>, <<"Other", << (2 :> 5) >> >>, <<"Strict", root(0)>>,
      <<"Wide", << (1 :> 70000) @@ (2 :> <<65>>) >> >>,
      <<"Order", order(7, <<item(1), item(2)>>, 3 :> order(0, <<>>, <<>>, item(0)), item(9))>>,
      <<"Node", chain(1, <<chain(2, <<>>)>>)>>, <<"Twin", chain(0, <<chain(200, <<>>)>>)>>,
      <<"WideNode", chain(300, <<>>)>> }

=============================================================================
