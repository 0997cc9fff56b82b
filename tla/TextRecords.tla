----------------------------- MODULE TextRecords -----------------------------
(***************************************************************************)
(* The records kept as text: the session part a client writes, the session *)
(* record `store` assembles of the parts, a participant's consent record,  *)
(* and the registry of keys (client/src/health.rs; replay/src/session.rs,  *)
(* calibration.rs, corpus.rs, consent.rs, keys.rs).                        *)
(*                                                                         *)
(* A text is a sequence of lines, a line a key and a value.  Reading asks  *)
(* for one key after another and takes the first line that has it; lines   *)
(* nobody asks for are not looked at.  So a format is its schema: the keys *)
(* in the order they are written, each with the values its parser takes.   *)
(***************************************************************************)
EXTENDS Cells

Digit   == <<"0", "1", "2">>
Indices == {Digit[n] : n \in 1 .. SEATS}

(* Integers of the three widths the records use, and text nobody parses.   *)
U8   == {"1"}
U32  == {"1", "12"}
U64  == {"1", "12", "123"}
Text == {"text", "tex"}
OnOff == {"on", "off"}
YesNo == {"yes", "no"}

FieldKey(f)  == f[1]
Accepts(f)   == f[2]
Field1(key, values) == <<<<key>>, values>>
Fields(keys, values) == [i \in DOMAIN keys |-> Field1(keys[i], values)]

Declared == << Field1("device_profile_id", Text), Field1("device_cpi", U32),
               Field1("device_polling_hz", U32), Field1("pointer_acceleration", OnOff) >>
Measured ==
  << Field1("platform", {"linux", "windows", "macos", "other"}), Field1("clock", {"device", "dequeue"}) >>
    \o Fields(<<"world_units_per_count_e6", "samples", "motions", "coincident",
                 "median_gap_ns", "budget_ns", "passes", "passes_over_budget",
                 "worst_overrun_ns", "worst_pass_ns">>, U64)
Calibrated ==
  << Field1("reaches", U64), Field1("octants", U8) >>
    \o Fields(<<"clamped", "min_distance_e3", "max_distance_e3", "sum_distance_e3",
                 "sum_counts_e3", "sum_distance_sq_e3", "sum_distance_counts_e3",
                 "sum_counts_sq_e3", "fast_reaches", "fast_motions", "fast_ns",
                 "quantum_e6">>, U64)

PartSchema ==
  << Field1("format", {"part"}), Field1("seat", Indices), Field1("provenance", {"human"}) >>
    \o Declared \o Measured \o Calibrated

(* The session record says of every seat that it is empty, or what the     *)
(* part said, with the state its calibration was rated.                    *)
OfSeat(i, schema) == [n \in DOMAIN schema |-> <<<<i>> \o FieldKey(schema[n]), Accepts(schema[n])>>]
HumanSchema ==
  Declared \o Measured
    \o << Field1("calibration_state", {"sufficient", "partial", "absent", "mismatched"}) >>
    \o Calibrated
SeatSchema(i, human) ==
  << <<<<i, "provenance">>, {"empty", "human"}>> >>
    \o (IF i \in human THEN OfSeat(i, HumanSchema) ELSE <<>>)
SessionSchema(human) ==
  << Field1("format", {"session"}), Field1("match_id", {"match"}), Field1("consent_version", {"version"}),
     Field1("recorded_on", Text), Field1("supervision", {"in-person", "remote", "unsupervised"}) >>
    \o FoldLeft(LAMBDA s, i : s \o SeatSchema(i, human), <<>>, SubSeq(Digit, 1, SEATS))

ConsentSchema ==
  << Field1("pseudonym", Text), Field1("consented_on", Text), Field1("retention_until", Text),
     Field1("adult", {"true", "false"}), Field1("consent_version", {"version"}),
     Field1("publication", YesNo), Field1("bot-training", YesNo),
     Field1("retention-after-project", YesNo), Field1("named-attribution", YesNo) >>

-----------------------------------------------------------------------------
(* find_map(strip_prefix): the first line with that key, and its value.    *)
Nothing == "nothing at all"
FieldFirst(text, key) ==
  LET at == SelectInSeq(text, LAMBDA line : line[1] = key)
  IN  IF at = 0 THEN Nothing ELSE text[at][2]
FieldLast(text, key) ==                               \* mutant: a later line wins
  LET at == SelectLastInSeq(text, LAMBDA line : line[1] = key)
  IN  IF at = 0 THEN Nothing ELSE text[at][2]
Field(text, key) == FieldFirst(text, key)

(* A line the parser does not take, or does not find, refuses the record.  *)
Parses(field, text)       == \E v \in Accepts(field) : Field(text, FieldKey(field)) = v
ParsesOrMissing(field, text) ==                       \* mutant: a missing line is a default
  Parses(field, text) \/ Field(text, FieldKey(field)) = Nothing
ReadsField(field, text)   == Parses(field, text)

HumanIn(text) == {i \in Indices : Field(text, <<i, "provenance">>) = "human"}

SchemaOf(k, text) ==
  CASE k = "session-part" -> PartSchema
    [] k = "session"      -> SessionSchema(HumanIn(text))
    [] k = "consent"      -> ConsentSchema

(* The registry is a line for each key, its status and a label; a key that *)
(* appears twice refuses the registry.                                     *)
Statuses == {"active", "retired"}
RegistryOk(text) ==
  /\ \A i \in DOMAIN text : text[i][2] \in Statuses
  /\ \A i, j \in DOMAIN text : text[i][1] = text[j][1] => i = j

TextOk(k, text) ==
  IF k = "registry" THEN RegistryOk(text)
  ELSE LET schema == SchemaOf(k, text) IN \A i \in DOMAIN schema : ReadsField(schema[i], text)

(* What reading gives is a value for each key; writing puts them in the    *)
(* order of the schema, a seat's lines only if a human sat there.          *)
TextOf(k, text) ==
  IF k = "registry" THEN text
  ELSE LET schema == SchemaOf(k, text)
           keys   == {FieldKey(schema[i]) : i \in DOMAIN schema}
       IN  [key \in keys |-> Field(text, key)]
EncodeText(k, value) ==
  IF k = "registry" THEN value
  ELSE LET human  == {i \in Indices : <<i, "platform">> \in DOMAIN value}
           schema == IF k = "session" THEN SessionSchema(human) ELSE SchemaOf(k, <<>>)
       IN  [i \in DOMAIN schema |-> <<FieldKey(schema[i]), value[FieldKey(schema[i])]>>]

-----------------------------------------------------------------------------
(* What is left of a text that was cut in its line n: the value's first    *)
(* characters, a shorter number or a word no parser takes, or nothing.     *)
Cut(v) == CASE v = "123" -> "12" [] v = "12" -> "1" [] v = "text" -> "tex" [] OTHER -> ""
CutAt(text, n) == Append(SubSeq(text, 1, n - 1), <<text[n][1], Cut(text[n][2])>>)

(* Copies gone wrong: cut short, a line lost, two exchanged, one said      *)
(* again with another value.                                               *)
Others == {"1", "off", "no", "empty", "tex", "retired"}
Miscopied(text) ==
  {CutAt(text, n) : n \in DOMAIN text}
    \cup {SubSeq(text, 1, n - 1) \o SubSeq(text, n + 1, Len(text)) : n \in DOMAIN text}
    \cup {[text EXCEPT ![n] = text[n + 1], ![n + 1] = text[n]] : n \in 1 .. Len(text) - 1}
    \cup {Append(text, <<text[n][1], v>>) : n \in DOMAIN text, v \in Others}
=============================================================================
