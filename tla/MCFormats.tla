----------------------------- MODULE MCFormats -----------------------------
(* Values of every kind that is written, over six byte values, two seats,  *)
(* names of two and views of two entities and one event: the shortest and  *)
(* the longest of each, the longest just filling its frame, every option   *)
(* present and absent, and every list empty and full.  Two bytes go wrong  *)
(* in a frame, one in a file.                                              *)
EXTENDS Formats

Own == <<1, 2, 3, 0, 5, 1, 1, 1>>
Sample(tag, body) == [tag |-> tag, at |-> 4, body |-> body]
Samples == <<Sample(0, <<1, 2, 0, 5>>), Sample(1, <<4, 1>>), Sample(2, <<5, 0>>)>>
Record(tag, body) == [stamp |-> <<1, 2, 1, 3, 4>>, tag |-> tag, body |-> body]
AReplay ==
  [id |-> <<1, 2, 3, 4, 5>>, commit |-> <<0, 0>>, started |-> <<3>>, names |-> <<<<1, 2>>, <<>>>>,
   counts |-> <<1, 2, 3>>, outcome |-> <<1, 2, 5>>, final |-> <<4>>, companion |-> <<0, 0>>,
   seal |-> <<2>>, inputs |-> <<Record(1, <<3, 4>>), Record(3, <<5>>)>>]
ACompanion ==
  [id |-> <<1, 2, 3>>, seats |-> <<EmptySeat, [about |-> <<1, 3, 5>>, facts |-> <<2, 1, 1>>, dropped |-> 3]>>,
   seal |-> <<4, 5>>, samples |-> Samples]

AnyOf(S) == CHOOSE v \in S : TRUE
Filled(schema) ==
  [key \in {FieldKey(schema[i]) : i \in DOMAIN schema} |->
     AnyOf(Accepts(schema[CHOOSE i \in DOMAIN schema : FieldKey(schema[i]) = key]))]
SessionOf(human) ==
  [key \in DOMAIN Filled(SessionSchema(human)) |->
     IF Len(key) = 2 /\ key[2] = "provenance" THEN IF key[1] \in human THEN "human" ELSE "empty"
     ELSE Filled(SessionSchema(human))[key]]

ValuesOf(k) ==
  CASE k = "client" -> {<<0>>, <<1>>, <<3>>, <<2, 5, 4, 0>>, <<2, 0, 1, 1, 3, 5>>, <<2, 1, 0, 4, 2>>}
    [] k = "server" ->
         {<<0, 1, 4, 5>>, <<1, 3>>,
          <<2, 1, 4>> \o <<3>> \o <<0, 0, 0>> \o Own \o <<0>> \o <<0>>,
          <<2, 0, 0>> \o <<3>> \o <<1, 2, 3>> \o Own \o <<2, 2, 1, 1, 1, 1, 1, 2, 1, 5, 5, 5, 5>>
            \o <<1, 1, 2, 3, 4, 5>>,
          <<2, 1, 0>> \o <<3>> \o <<0, 0, 0>> \o Own \o <<1, 0, 1, 5, 5, 4>> \o <<1, 0, 1, 1, 2, 3>>}
    [] k = "part"      -> {[about |-> <<1, 0, 3, 4, 0>>, samples |-> Samples], [about |-> <<0, 1, 0, 1, 5>>, samples |-> <<>>]}
    [] k = "companion" -> {ACompanion}
    [] k = "replay"    -> {AReplay, [AReplay EXCEPT !.commit = <<2, 3>>, !.outcome = <<0, 0, 0>>,
                                                    !.companion = <<1, 5>>, !.inputs = <<>>]}
    [] k = "session-part" -> {[Filled(PartSchema) EXCEPT ![<<"quantum_e6">>] = "123"]}
    [] k = "session"   -> {SessionOf({"1"}), SessionOf({})}
    [] k = "consent"   -> {Filled(ConsentSchema)}
    [] k = "registry"  -> {<< <<"k1", "active">>, <<"k2", "retired">> >>}

DamageTo(k) == IF k \in FileKinds \cup {"server", "session", "session-part"} THEN 1 ELSE 2
=============================================================================
