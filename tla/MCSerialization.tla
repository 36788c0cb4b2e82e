-------------------------- MODULE MCSerialization --------------------------
(***************************************************************************)
(* Model-checking instance of what is written, read and transformed: the   *)
(* writers and readers of the binary protocols, mappings, the validation   *)
(* of serialized schemas, the tagged parser and Simple JSON.  A behaviour  *)
(* is one of the part that focus names; the others stay as they begin.     *)
(***************************************************************************)
EXTENDS BinaryWriter, MCMapping, MCSchemaValidator, MCTaggedParser, MCSimpleJson

VARIABLE focus

MCInit ==
    /\ focus \in {"writer", "mapping", "validator", "parser", "json"}
    /\ \/ focus = "parser"
       \/ focus # "parser" /\ payload = << <<>> >> /\ object = {} /\ mode = "compile" /\ transform = "To" /\ depth = 1
    /\ focus = "writer" \/ (focus # "writer" /\ proto = "fast")
    /\ WriterInit /\ MappingInit /\ ValidatorInit /\ ParserInit /\ JsonInit

MCNext ==
    /\ UNCHANGED focus
    /\ \/ focus = "writer" /\ WriterNext /\ UNCHANGED <<mapped, validated, parserVars, json>>
       \/ focus = "mapping" /\ MappingNext /\ UNCHANGED <<writerVars, validated, parserVars, json>>
       \/ focus = "validator" /\ ValidatorNext /\ UNCHANGED <<writerVars, mapped, parserVars, json>>
       \/ focus = "parser" /\ ParserNext /\ UNCHANGED <<writerVars, mapped, validated, json>>
       \/ focus = "json" /\ JsonNext /\ UNCHANGED <<writerVars, mapped, validated, parserVars>>

MCSpec == MCInit /\ [][MCNext]_<<writerVars, mapped, validated, parserVars, json, focus>>

-----------------------------------------------------------------------------
(* Writers and readers: objects of every kind of type, with the values at  *)
(* which the encodings change: field ids 5, 6, 255 and 256, container      *)
(* sizes 6 and 7, lengths and integers around one byte of varint.          *)
WriterField(id, type, default, modifier) == [id |-> id, type |-> type, default |-> default, modifier |-> modifier]

writerStructs ==
    [ Flat |-> << <<WriterField(0, <<"uint8">>, 0, "Optional"), WriterField(5, <<"int32">>, 7, "Optional"),
                    WriterField(6, <<"string">>, <<>>, "Required")>> >>,
      Deep |-> << <<WriterField(2, <<"uint16">>, 0, "RequiredOptional")>>,
                  <<WriterField(255, <<"struct", "Flat">>, <<>>, "Required"),
                    WriterField(256, <<"list", <<"struct", "Flat">> >>, <<>>, "Optional")>> >>,
      Kin |-> << <<WriterField(0, <<"uint32">>, 0, "Optional"), WriterField(5, <<"string">>, <<>>, "Optional"),
                   WriterField(9, <<"bool">>, 0, "Optional")>> >>,
      Grown |-> << <<WriterField(1, <<"uint16">>, 0, "Required")>>,
                   <<WriterField(0, <<"uint16">>, 0, "RequiredOptional"), WriterField(5, <<"int64">>, 7, "Optional"),
                     WriterField(6, <<"string">>, <<>>, "Required"), WriterField(7, <<"bool">>, 0, "Optional")>> >>,
      Strict |-> << <<WriterField(0, <<"uint8">>, 0, "Required"), WriterField(2, <<"uint32">>, 0, "RequiredOptional")>> >>,
      Widened |-> << <<WriterField(2, <<"uint32">>, 0, "Required")>>,
                     <<WriterField(255, <<"struct", "Kin">>, <<>>, "Optional"),
                       WriterField(256, <<"list", <<"struct", "Strict">> >>, <<>>, "Optional")>> >> ]

flat1 == << (0 :> 3) @@ (5 :> 7) @@ (6 :> <<65, 66>>) >>
flat2 == << (0 :> 0) @@ (5 :> -70) @@ (6 :> [i \in 1 .. 130 |-> 65]) >>
deep == << (2 :> 300), (255 :> flat1) @@ (256 :> <<flat2, flat1>>) >>

samples ==
    { << <<"bool">>, 1>>, << <<"uint8">>, 200>>, << <<"uint16">>, 128>>, << <<"uint64">>, 127>>,
      << <<"int8">>, -1>>, << <<"int32">>, -64>>, << <<"int64">>, 64>>, << <<"float">>, 5>>,
      << <<"string">>, <<97, 98>> >>, << <<"wstring">>, <<1000, 97>> >>, << <<"blob">>, <<-1, 2>> >>,
      << <<"list", <<"uint16">> >>, <<1, 2, 3, 4, 5, 300>> >>, << <<"list", <<"uint8">> >>, <<1, 2, 3, 4, 5, 6, 7>> >>,
      << <<"list", <<"string">> >>, << <<97>>, <<>> >> >>, << <<"set", <<"int32">> >>, {-3, 70} >>,
      << <<"nullable", <<"uint32">> >>, <<9>> >>, << <<"list", <<"list", <<"uint8">> >> >>, << <<1>>, <<>>, <<2, 3>> >> >>,
      << <<"map", <<"uint16">>, <<"string">> >>, (1 :> <<97>>) @@ (200 :> <<>>) >>,
      << <<"map", <<"uint8">>, <<"list", <<"uint8">> >> >>, (4 :> <<1, 2>>) @@ (5 :> <<>>) >>,
      << <<"struct", "Flat">>, flat1>>, << <<"struct", "Flat">>, flat2>>, << <<"struct", "Deep">>, deep>> }

MCSamples == samples

MCFollowers == { << <<"struct", "Flat">>, flat1>>, << <<"uint16">>, 128>> }

targets ==
    { <<"bool">>, <<"uint8">>, <<"uint16">>, <<"uint64">>, <<"int16">>, <<"int64">>, <<"double">>, <<"string">>, <<"blob">>,
      <<"list", <<"uint32">> >>, <<"list", <<"string">> >>, <<"set", <<"int64">> >>, <<"nullable", <<"uint16">> >>,
      <<"list", <<"list", <<"string">> >> >>, <<"list", <<"list", <<"uint16">> >> >>, <<"list", <<"struct", "Flat">> >>,
      <<"map", <<"uint32">>, <<"string">> >>, <<"map", <<"string">>, <<"uint8">> >>,
      <<"map", <<"uint8">>, <<"list", <<"string">> >> >>, <<"map", <<"uint8">>, <<"struct", "Flat">> >>,
      <<"struct", "Flat">>, <<"struct", "Kin">>, <<"struct", "Deep">>, <<"struct", "Grown">>, <<"struct", "Strict">>,
      <<"struct", "Widened">> }

MCTargets == targets

allStructs == writerStructs @@ mapStructs @@ validatorStructs @@ jsonStructs

MCStructs == allStructs
=============================================================================
