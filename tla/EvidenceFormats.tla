--------------------------- MODULE EvidenceFormats ---------------------------
(***************************************************************************)
(* What a match leaves in files: the part a client writes of its device    *)
(* stream, the telemetry companion the parts are sealed into, and the      *)
(* replay (client/src/health.rs, replay/src/telemetry.rs, manifest.rs,     *)
(* container.rs, lib.rs).  Every format is an encoder, the test its        *)
(* decoder applies, and what the decoder keeps.                            *)
(*                                                                         *)
(* A client cannot link the crate that seals, so the part's writer and its *)
(* reader are two programs; they are one EncodePart here because their     *)
(* bytes are the same.                                                     *)
(***************************************************************************)
EXTENDS Cells

CONSTANT
  NAME_MAX        \* cells of a pseudonym: MAX_PSEUDONYM_BYTES

EVIDENCE_FORMAT == 1
PART_MAGIC      == 2
COMPANION_MAGIC == 3
REPLAY_MAGIC    == 4
CONTROLS        == 5
CLOCKS          == 2
PLATFORMS       == 4
INPUT_TAGS      == 5
TEAM_COUNT      == 3

Below(n) == 0 .. n - 1
Slices(c, at, width) == [i \in 1 .. (Len(c) - at) \div width |-> SubSeq(c, at + (i - 1) * width + 1, at + i * width)]
Joined(lists) == FoldLeft(LAMBDA a, b : a \o b, <<>>, lists)
Each(Op(_), list) == [i \in DOMAIN list |-> Op(list[i])]
AllOf(Test(_), list) == \A i \in DOMAIN list : Test(list[i])

-----------------------------------------------------------------------------
(* One device event: Moved with two floats of two cells, Pressed with a    *)
(* control and a flag, Viewed with a tick and a sequence; zeroes to the    *)
(* width of the widest.  A float whose first cell is the last value is     *)
(* infinite or no number.                                                  *)
MOVED   == 0
PRESSED == 1
VIEWED  == 2
BodyWidth == <<4, 2, 2>>
SAMPLE    == 1 + 1 + 4

Finite(hi) == hi # Q - 1

EncodeSample(s) == Padded(<<s.tag, s.at>> \o s.body, SAMPLE)

SampleOk(r) ==
  /\ r[1] \in {MOVED, PRESSED, VIEWED}
  /\ r[1] = MOVED => Finite(r[3]) /\ Finite(r[5])
  /\ r[1] = PRESSED => r[3] < CONTROLS /\ r[4] < 2
  /\ AllZero(From(r, 2 + BodyWidth[r[1] + 1]))

SampleOf(r) == [tag |-> r[1], at |-> r[2], body |-> SubSeq(r, 3, 2 + BodyWidth[r[1] + 1])]

(* What a stream says of itself: device events, motions, views.            *)
Facts(samples) ==
  LET Of(tags) == Len(SelectSeq(samples, LAMBDA s : s.tag \in tags))
  IN  <<Of({MOVED, PRESSED}), Of({MOVED}), Of({VIEWED})>>
Records(f) == f[1] + f[3]

-----------------------------------------------------------------------------
(* A part: magic, format, seat, clock, platform, scale, dropped, count,    *)
(* samples.  The count must be exactly what is left.                       *)
PART_HEADER == 8

EncodePart(p) ==
  <<PART_MAGIC, EVIDENCE_FORMAT>> \o p.about \o <<Len(p.samples)>>
    \o Joined(Each(EncodeSample, p.samples))

CountIsAll(c)      == c[8] * SAMPLE = Len(c) - PART_HEADER
CountIsEnough(c)   == c[8] * SAMPLE <= Len(c) - PART_HEADER   \* mutant: more may follow
CountIsAtMost(c)   == c[8] * SAMPLE >= Len(c) - PART_HEADER   \* mutant: less may follow
PartCount(c)       == CountIsAll(c)

PartOk(c) ==
  /\ Len(c) >= PART_HEADER /\ c[1] = PART_MAGIC /\ c[2] = EVIDENCE_FORMAT
  /\ c[3] < SEATS /\ c[4] < CLOCKS /\ c[5] < PLATFORMS
  /\ PartCount(c)
  /\ AllOf(SampleOk, Slices(c, PART_HEADER, SAMPLE))

PartOf(c) == [about   |-> SubSeq(c, 3, 7),
              samples |-> Each(SampleOf, Slices(c, PART_HEADER, SAMPLE))]

-----------------------------------------------------------------------------
(* A companion: magic, format; match, identity, started; a slot for every  *)
(* seat; the stream's digest; the signature; the samples of each seat.     *)
SLOT    == 1 + 1 + 1 + 1 + 3 + 1     \* flag, clock, platform, scale, facts, dropped
SLOTS   == 5                         \* cells before the slots
HEAD    == SLOTS + SEATS * SLOT + 2  \* cells before the samples
EmptySeat == [about |-> <<>>, facts |-> <<>>, dropped |-> 0]

EncodeSlot(s) ==
  IF s = EmptySeat THEN Zeros(SLOT)
  ELSE <<1>> \o s.about \o s.facts \o <<s.dropped>>
EncodeCompanion(t) ==
  <<COMPANION_MAGIC, EVIDENCE_FORMAT>> \o t.id \o Joined(Each(EncodeSlot, t.seats))
    \o t.seal \o Joined(Each(EncodeSample, t.samples))

SlotsOf(c)  == Slices(SubSeq(c, 1, HEAD - 2), SLOTS, SLOT)
SlotOk(s)   == \/ s[1] = 0 /\ AllZero(s)
               \/ s[1] = 1 /\ s[2] < CLOCKS /\ s[3] < PLATFORMS
SlotOkLoosely(s) == s[1] = 0 \/ SlotOk(s)                \* mutant: an absence is not read
SlotAccepted(s)  == SlotOk(s)
SlotFacts(s) == SubSeq(s, 5, 7)
SlotValue(s) == IF s[1] = 0 THEN EmptySeat
                ELSE [about |-> SubSeq(s, 2, 4), facts |-> SlotFacts(s), dropped |-> s[8]]
Claimed(c)   == FoldLeft(LAMBDA n, s : n + (IF s[1] = 0 THEN 0 ELSE Records(SlotFacts(s))), 0, SlotsOf(c))

(* The claimed number of samples, then nothing.                            *)
CompanionOk(c) ==
  /\ Len(c) >= HEAD /\ c[1] = COMPANION_MAGIC /\ c[2] = EVIDENCE_FORMAT
  /\ AllOf(SlotAccepted, SlotsOf(c))
  /\ Claimed(c) * SAMPLE = Len(c) - HEAD
  /\ AllOf(SampleOk, Slices(c, HEAD, SAMPLE))

CompanionOf(c) ==
  [id |-> SubSeq(c, 3, SLOTS), seats |-> Each(SlotValue, SlotsOf(c)),
   seal |-> SubSeq(c, HEAD - 1, HEAD), samples |-> Each(SampleOf, Slices(c, HEAD, SAMPLE))]

-----------------------------------------------------------------------------
(* A replay: magic, format; match, identity, seed, rules, version; the     *)
(* commit's tag and value; started; a name for every seat; ticks, inputs,  *)
(* the log's digest; the outcome's tag, team and tick; the final digest;   *)
(* the companion's tag and digest; the signature; a count; the inputs.     *)
(*                                                                         *)
(* A tagged field with no value is written as zeroes and read as zeroes or *)
(* not at all; a name is its length, its cells, and zeroes.  The cells 0   *)
(* and Q - 1 are no letters of a name.                                     *)
COMMIT   == 7
NAMES    == 10
NAMED    == 1 + NAME_MAX
OUTCOME  == NAMES + SEATS * NAMED + 3
COMMITTED == OUTCOME + 4
REPLAY_HEAD == COMMITTED + 4               \* digest, signature and count read
MOVE     == 3                              \* an action: tag and a point's cells
INPUT    == 5 + MOVE                       \* tick, seq, seat, claimed, received
MoveWidth == <<0, 2, 2, 1, 1>>

EncodeName(n)  == Padded(<<Len(n)>> \o n, NAMED)
EncodeInput(i) == i.stamp \o Padded(<<i.tag>> \o i.body, MOVE)
EncodeReplay(r) ==
  <<REPLAY_MAGIC, EVIDENCE_FORMAT>> \o r.id \o r.commit \o r.started
    \o Joined(Each(EncodeName, r.names)) \o r.counts \o r.outcome \o r.final
    \o r.companion \o r.seal \o <<Len(r.inputs)>> \o Joined(Each(EncodeInput, r.inputs))

Letter(x) == x # 0 /\ x # Q - 1
NameOk(n) ==
  /\ n[1] <= NAME_MAX
  /\ \A i \in 2 .. NAMED : IF i <= 1 + n[1] THEN Letter(n[i]) ELSE n[i] = 0
NameOf(n) == SubSeq(n, 2, 1 + n[1])
NamesOf(c) == Slices(SubSeq(c, 1, NAMES + SEATS * NAMED), NAMES, NAMED)

(* A tag, and behind it the cells that must be zero without one.           *)
Optional(c, at, width, tags) ==
  /\ c[at + 1] < tags
  /\ c[at + 1] = 0 => AllZero(SubSeq(c, at + 2, at + 1 + width))

InputOk(i) ==
  /\ i[3] < SEATS /\ i[6] < INPUT_TAGS
  /\ AllZero(From(i, 6 + MoveWidth[i[6] + 1]))
InputOf(i) == [stamp |-> SubSeq(i, 1, 5), tag |-> i[6],
               body |-> SubSeq(i, 7, 6 + MoveWidth[i[6] + 1])]

ReplayOk(c) ==
  /\ Len(c) >= REPLAY_HEAD /\ c[1] = REPLAY_MAGIC /\ c[2] = EVIDENCE_FORMAT
  /\ Optional(c, COMMIT, 1, 3)
  /\ AllOf(NameOk, NamesOf(c))
  /\ Optional(c, OUTCOME, 2, 2) /\ (c[OUTCOME + 1] = 1 => c[OUTCOME + 2] < TEAM_COUNT)
  /\ Optional(c, COMMITTED, 1, 2)
  /\ c[REPLAY_HEAD] * INPUT = Len(c) - REPLAY_HEAD
  /\ AllOf(InputOk, Slices(c, REPLAY_HEAD, INPUT))

ReplayOf(c) ==
  [id |-> SubSeq(c, 3, COMMIT), commit |-> SubSeq(c, COMMIT + 1, COMMIT + 2),
   started |-> SubSeq(c, NAMES, NAMES), names |-> Each(NameOf, NamesOf(c)),
   counts |-> SubSeq(c, OUTCOME - 2, OUTCOME), outcome |-> SubSeq(c, OUTCOME + 1, OUTCOME + 3),
   final |-> SubSeq(c, OUTCOME + 4, OUTCOME + 4),
   companion |-> SubSeq(c, COMMITTED + 1, COMMITTED + 2),
   seal |-> SubSeq(c, COMMITTED + 3, COMMITTED + 3),
   inputs |-> Each(InputOf, Slices(c, REPLAY_HEAD, INPUT))]
=============================================================================
