------------------------------- MODULE Formats -------------------------------
(***************************************************************************)
(* Every format of the program, written once and then damaged: a message   *)
(* or a record is encoded, and what a reader is given may be that, a copy  *)
(* with a byte changed, lost or added, or a text miscopied.  Its three     *)
(* properties are what the decoders are for.                               *)
(***************************************************************************)
EXTENDS WireFormats, EvidenceFormats, TextRecords

CONSTANTS
  FormatValues(_),   \* the values of each kind that are written
  MaxDamage(_)       \* bound: changes to one copy, for each kind

WireKinds == {"client", "server"}
FileKinds == {"part", "companion", "replay"}
TextKinds == {"session-part", "session", "consent", "registry"}

VARIABLES
  fkind,    \* what is written
  origin,   \* the value
  copy,     \* what a reader is given
  damage    \* how many changes that took

fvars == <<fkind, origin, copy, damage>>

EncodeAs(k, v) ==
  CASE k = "client"    -> EncodeFrame(v, CLIENT_FRAME)
    [] k = "server"    -> EncodeFrame(v, SERVER_FRAME)
    [] k = "part"      -> EncodePart(v)
    [] k = "companion" -> EncodeCompanion(v)
    [] k = "replay"    -> EncodeReplay(v)
    [] OTHER           -> EncodeText(k, v)

Accepted(k, c) ==
  CASE k = "client"    -> ClientOk(c)
    [] k = "server"    -> ServerOk(c)
    [] k = "part"      -> PartOk(c)
    [] k = "companion" -> CompanionOk(c)
    [] k = "replay"    -> ReplayOk(c)
    [] OTHER           -> TextOk(k, c)

DecodedAs(k, c) ==
  CASE k = "client"    -> ClientOf(c)
    [] k = "server"    -> ServerOf(c)
    [] k = "part"      -> PartOf(c)
    [] k = "companion" -> CompanionOf(c)
    [] k = "replay"    -> ReplayOf(c)
    [] OTHER           -> TextOf(k, c)

FInit ==
  /\ fkind \in WireKinds \cup FileKinds \cup TextKinds
  /\ origin \in FormatValues(fkind)
  /\ copy = EncodeAs(fkind, origin)
  /\ damage = 0

Miscopy ==
  /\ damage < MaxDamage(fkind)
  /\ copy' \in IF fkind \in TextKinds THEN Miscopied(copy) ELSE Damaged(copy)
  /\ damage' = damage + 1
  /\ UNCHANGED <<fkind, origin>>

FNext == Miscopy
FSpec == FInit /\ [][FNext]_fvars

-----------------------------------------------------------------------------
(* Everything the program writes it reads back as it was; a server frame   *)
(* comes out of its shards whole, and the widest view fits one.            *)
(* frame.rs encode(), decode(), shards(); the encode() and decode() of     *)
(* telemetry.rs, container.rs, manifest.rs, session.rs, corpus.rs.         *)
RoundTrips ==
  damage = 0 =>
    /\ Accepted(fkind, copy) /\ DecodedAs(fkind, copy) = origin
    /\ fkind = "server" =>
         LET cut == [i \in 0 .. SERVER_SHARDS - 1 |-> Shard(copy, 0, i)]
         IN  /\ \A i \in DOMAIN cut : ShardIndex(cut[i]) = i
             /\ From(cut[0], 3) \o From(cut[1], 3) = copy
             /\ Len(copy) >= FRAME_MINIMUM

(* frame.rs:153, "one message must have exactly one encoding for the       *)
(* recorded input log to be a function of what was played": whatever a     *)
(* decoder of the wire accepts, encoding what it decoded gives back.       *)
OneEncoding ==
  fkind \in WireKinds /\ Accepted(fkind, copy) => EncodeAs(fkind, DecodedAs(fkind, copy)) = copy

(* So it is of every file, and of every message but the view of a match in *)
(* progress: the digests and the seal are over bytes, and cover what was   *)
(* read from them only if no two files are read as one.  And a text, which *)
(* has many forms, says the same when what was read is written again.      *)
DecodedIsCanonical ==
  Accepted(fkind, copy) /\ ~ (fkind = "server" /\ InProgress(copy)) =>
    LET again == EncodeAs(fkind, DecodedAs(fkind, copy))
    IN  IF fkind \in TextKinds
        THEN Accepted(fkind, again) /\ DecodedAs(fkind, again) = DecodedAs(fkind, copy)
        ELSE again = copy

(* A file read while it is being written: of a stream, a companion or a    *)
(* replay no beginning is accepted; a text's is only if all that is wrong  *)
(* is the number or the name its last line broke off in.  telemetry.rs     *)
(* 695-701 and 882-905, container.rs 512-527, decode_part() of session.rs. *)
TornIsNoticed ==
  damage = 0 =>
    CASE fkind \in FileKinds -> \A n \in 0 .. Len(copy) - 1 : ~ Accepted(fkind, SubSeq(copy, 1, n))
      [] fkind \in TextKinds \ {"registry"} ->
           \A n \in DOMAIN copy :
             Accepted(fkind, CutAt(copy, n)) =>
               n = Len(copy) /\ \A k \in DOMAIN origin : k # copy[n][1] => DecodedAs(fkind, CutAt(copy, n))[k] = origin[k]
      [] OTHER -> TRUE
=============================================================================
