----------------------------- MODULE WireFormats -----------------------------
(***************************************************************************)
(* What crosses the network: the client's frame, the server's frame and    *)
(* the view inside it, and the shards a server frame is cut into           *)
(* (protocol/src/frame.rs, wire.rs, message.rs; sim/src/view.rs).          *)
(*                                                                         *)
(* A decoder copies fields, so what it decoded is told by the cells it     *)
(* read, less those it reads and ignores.                                  *)
(***************************************************************************)
EXTENDS Cells

CONSTANTS
  MAX_VISIBLE,       \* entities a view can hold besides the player's own
  MAX_SHOWN_EVENTS   \* events a view carries: MAX_EVENTS_PER_VIEW

WVERSION      == 1
SERVER_SHARDS == 2
TEAMS         == 3

-----------------------------------------------------------------------------
(* An action: a tag, and a point, an entity or nothing.                    *)
ActionWidth == <<1, 3, 3, 2, 2>>

TakeAction(c, at) ==
  IF TakeBelow(c, at, 5) = No THEN No ELSE Take(c, at, ActionWidth[c[at + 1] + 1])

(* The client's frame: Join, Ready, Input (seq, claimed time, action) or   *)
(* Surrender, and zeroes to the end.                                       *)
HEADER       == 2                         \* version and kind
CLIENT_FRAME == HEADER + 1 + 1 + 3
K_INPUT      == 2

Opens(c, size) == Len(c) = size /\ c[1] = WVERSION

ClientEnd(c) ==
  IF ~ Opens(c, CLIENT_FRAME) \/ c[2] > 3 THEN No
  ELSE IF c[2] = K_INPUT THEN TakeAction(c, HEADER + 2)
  ELSE HEADER

PaddingIgnored(c, end) == end # No            \* mutant: what follows is skipped
PaddingIsZero(c, end)  == end # No /\ AllZero(From(c, end))
CheckPadding(c, end)   == PaddingIsZero(c, end)

-----------------------------------------------------------------------------
(* A view: tick, outcome, own champion, entities, events.                  *)
(*   outcome  tag, team, tick        own  id, point, liveness, cooldowns   *)
(*   entity   tag, id, point and hp or velocity                            *)
(*   event    tag, id, ability or amount but for a death, point            *)
EntityWidth == <<5, 5, 6>>
EventWidth  == <<5, 5, 4>>

TakeOutcome(c, at) ==
  LET tag == TakeBelow(c, at, 2) IN Take(c, TakeBelow(c, tag, TEAMS), 1)

TakeOwn(c, at) == Take(c, TakeBelow(c, Take(c, at, 3), 2), 4)

TakeEntity(c, at) ==
  IF TakeBelow(c, at, 3) = No THEN No ELSE Take(c, at, EntityWidth[c[at + 1] + 1])

TakeEvent(c, at) ==
  IF TakeBelow(c, at, 3) = No THEN No
  ELSE IF c[at + 1] = 0
       THEN Take(c, TakeBelow(c, Take(c, at, 2), 2), 2)     \* a cast names its ability
       ELSE Take(c, at, EventWidth[c[at + 1] + 1])

(* A list: a length no greater than `most', and as many entries.           *)
TakeList(Entry(_, _), c, at, most) ==
  IF TakeBelow(c, at, most + 1) = No THEN No
  ELSE FoldLeft(LAMBDA end, i : IF end = No THEN No ELSE Entry(c, end),
                at + 1, [i \in 1 .. c[at + 1] |-> i])

MaxDecoded == MAX_VISIBLE + 1        \* the decoder's bound counts the own champion too

ViewEnd(c, at) ==
  LET own     == TakeOwn(c, TakeOutcome(c, Take(c, at, 1)))
      visible == TakeList(TakeEntity, c, own, MaxDecoded)
  IN  TakeList(TakeEvent, c, visible, MAX_SHOWN_EVENTS)

MAX_VIEW == 1 + 3 + 9 + 1 + 6 * MAX_VISIBLE + 1 + 5 * MAX_SHOWN_EVENTS - 1

(* The server's frame: Accepted (seat, seed, rules), Rejected (a reason),  *)
(* or View (what was applied, and the view).                               *)
APPLIED       == 2
FRAME_MINIMUM == HEADER + APPLIED + MAX_VIEW
PayloadFloor  == FRAME_MINIMUM \div SERVER_SHARDS     \* mutant: rounded down
Payload       == (FRAME_MINIMUM + SERVER_SHARDS - 1) \div SERVER_SHARDS
SHARD_PAYLOAD == Payload
SERVER_FRAME  == SERVER_SHARDS * SHARD_PAYLOAD
K_VIEW        == 2

TakeAppliedLoosely(c, at) == Take(c, TakeBelow(c, at, 2), 1)    \* mutant
TakeAppliedWhole(c, at) ==
  LET end == Take(c, TakeBelow(c, at, 2), 1)
  IN  IF end # No /\ c[at + 1] = 0 /\ c[at + 2] # 0 THEN No ELSE end
TakeApplied(c, at) == TakeAppliedWhole(c, at)

ServerEnd(c) ==
  IF ~ Opens(c, SERVER_FRAME) THEN No
  ELSE CASE c[2] = 0      -> Take(c, TakeBelow(c, HEADER, SEATS), 2)
         [] c[2] = 1      -> TakeBelow(c, HEADER, 4)
         [] c[2] = K_VIEW -> ViewEnd(c, TakeApplied(c, HEADER))
         [] OTHER         -> No

-----------------------------------------------------------------------------
(* An outcome still in progress is written with a team and a tick of zero, *)
(* and read without a look at them.                                        *)
OutcomeAt     == HEADER + APPLIED + 1
InProgress(c) == c[2] = K_VIEW /\ c[OutcomeAt + 1] = 0
Forgotten(c)  == IF InProgress(c) THEN [c EXCEPT ![OutcomeAt + 2] = 0, ![OutcomeAt + 3] = 0] ELSE c

(* A message is its kind and the fields behind it.                         *)
ClientOk(c) == CheckPadding(c, ClientEnd(c))
ClientOf(c) == SubSeq(c, 2, ClientEnd(c))
ServerOk(c) == CheckPadding(c, ServerEnd(c))
ServerOf(c) == SubSeq(Forgotten(c), 2, ServerEnd(c))
EncodeFrame(v, size) == Padded(<<WVERSION>> \o v, size)

(* shards: the frame's slices behind version, sequence and index.          *)
Shard(c, n, i) == <<WVERSION, n, i>> \o SubSeq(c, i * SHARD_PAYLOAD + 1, (i + 1) * SHARD_PAYLOAD)
ShardIndex(s)  == IF Len(s) = 3 + SHARD_PAYLOAD /\ s[1] = WVERSION /\ s[3] < SERVER_SHARDS
                    THEN s[3] ELSE No
=============================================================================
