------------------------------- MODULE Digests -------------------------------
(***************************************************************************)
(* What is hashed of a world, of the rules and of a tick's inputs          *)
(* (sim/src/canonical.rs), and the hasher that takes it piece by piece     *)
(* (sim/src/sha256.rs).                                                    *)
(*                                                                         *)
(* A primitive of any width is one cell.  A record is a sequence or a      *)
(* record of cells, a variant its name and its fields.  compress() is      *)
(* taken for what it is used as, a function that tells blocks apart: the   *)
(* hasher's state is the sequence of the blocks it was given.              *)
(***************************************************************************)
EXTENDS Integers, Sequences, SequencesExt

CONSTANTS
  BLOCK,          \* cells of a block: BLOCK_LEN
  Base(_),        \* a world, the rules, a list of inputs
  Edits(_, _),    \* the values one change away from one of them
  MaxEdits        \* bound: changes to each of the two copies

Kinds == {"state", "rules", "inputs"}

VARIABLES
  kinds,     \* which of the three each copy is
  copies,    \* two values
  edits      \* how often each was changed

dvars == <<kinds, copies, edits>>

-----------------------------------------------------------------------------
(* The hasher.  `update' fills the block and hands it over when full.      *)

LENGTH == 2        \* cells of the message's length: 8 bytes
MARK   == 128

New == [blocks |-> <<>>, buffer |-> <<>>, total |-> 0]

Compress(blocks, block) == Append(blocks, block)

(* The loop of update: as much as the block has room for, then the rest.   *)
RECURSIVE Fill(_, _)
Fill(h, cells) ==
  IF cells = <<>> THEN h
  ELSE LET free  == BLOCK - Len(h.buffer)
           taken == IF free < Len(cells) THEN free ELSE Len(cells)
           block == h.buffer \o SubSeq(cells, 1, taken)
       IN  Fill(IF Len(block) = BLOCK
                  THEN [h EXCEPT !.blocks = Compress(@, block), !.buffer = <<>>]
                  ELSE [h EXCEPT !.buffer = block],
                SubSeq(cells, taken + 1, Len(cells)))
Update(h, cells) == Fill([h EXCEPT !.total = @ + Len(cells)], cells)

RECURSIVE UpdateAll(_, _)
UpdateAll(h, pieces) ==
  IF pieces = <<>> THEN h ELSE UpdateAll(Update(h, Head(pieces)), Tail(pieces))

(* The length is read before the padding is hashed, which counts itself.   *)
BitLength(n) == <<(8 * n) \div 256, (8 * n) % 256>>
Zeroes(h) == (2 * BLOCK - LENGTH - Len(h.buffer)) % BLOCK
PaddedFirst(h) == LET m == Update(h, <<MARK>>) IN Update(m, [i \in 1 .. Zeroes(m) |-> 0])
FinishCountingPadding(h) ==                       \* mutant
  LET p == PaddedFirst(h) IN Update(p, BitLength(p.total)).blocks
FinishUnmarked(h) ==                              \* mutant: zeroes alone
  Update(Update(h, [i \in 1 .. Zeroes(h) |-> 0]), BitLength(h.total)).blocks
FinishKnowing(h) == Update(PaddedFirst(h), BitLength(h.total)).blocks
Finish(h) == FinishKnowing(h)

-----------------------------------------------------------------------------
(* hash_into, type by type: the pieces given to update(), those of a       *)
(* record's primitive fields as one.                                       *)

InARow(lists)         == FlattenSeq(lists)
Cells(values)         == << values >>

(* A variant is its place in the list of names, then its fields.           *)
Variant(names, v) ==
  Cells(<<(CHOOSE i \in DOMAIN names : names[i] = v[1]) - 1>> \o Tail(v))

Without == <<>>
OptionTag(v) == IF v = Without THEN << <<0>> >> ELSE << <<1>> >>
OptionBare(v, pieces) == pieces                             \* mutant: no tag
OptionTagged(v, pieces) == OptionTag(v) \o pieces
Option(v, pieces) == OptionTagged(v, pieces)

OfLiveness(v)   == Variant(<<"Alive", "Dead">>, v)
OfOrder(v)      == Variant(<<"Idle", "MoveTo", "Attack">>, v)
OfOutcome(v)    == Variant(<<"InProgress", "Decided">>, v)
OfEventKind(v)  == Variant(<<"Cast", "Damage", "Death">>, v)
OfActionMerged(v) == Variant(<<"Idle", "Move", "Skillshot", "Targeted", "Attack">>,      \* mutant: a
                      IF v[1] = "Attack" THEN <<"Targeted">> \o Tail(v) ELSE v)          \* tag used twice
OfActionApart(v)  == Variant(<<"Idle", "Move", "Skillshot", "Targeted", "Attack">>, v)
OfAction(v)       == OfActionApart(v)
OfEvent(e)      == OfEventKind(e.kind) \o Cells(e.at)
OfChampion(c)   == Cells(c.position) \o OfLiveness(c.liveness) \o OfOrder(c.order) \o Cells(c.cooldowns)
OfTower(t)      == Cells(<<t.hp, t.cooldown>>)
OfProjectile(p) == Cells(<<p.id, p.owner>> \o p.position \o p.velocity \o <<p.remaining>>)
OfSlot(p)       == Option(p, InARow([i \in DOMAIN p |-> OfProjectile(p[i])]))
OfEventSlot(e)  == Option(e, InARow([i \in DOMAIN e |-> OfEvent(e[i])]))

OfState(s) ==
  Cells(<<s.tick, s.rng, s.next_projectile_id>>)
    \o InARow([c \in DOMAIN s.champions |-> OfChampion(s.champions[c])])
    \o InARow([t \in DOMAIN s.towers |-> OfTower(s.towers[t])])
    \o InARow([p \in DOMAIN s.projectiles |-> OfSlot(s.projectiles[p])])
    \o InARow([e \in DOMAIN s.events |-> OfEventSlot(s.events[e])])
    \o OfOutcome(s.outcome)

OfInput(i) == Cells(<<i.tick, i.seq, i.player>>) \o OfAction(i.action)

RULES ==
  << "frac_bits", "ticks_per_second", "map_half_extent", "bases", "spawn_spacing",
     "tower_lane_fraction", "champion_max_hp", "champion_speed", "champion_radius",
     "respawn_ticks", "champion_vision_radius", "attack_range", "attack_damage",
     "attack_cooldown_ticks", "skillshot_speed", "skillshot_radius", "skillshot_damage",
     "skillshot_lifetime_ticks", "skillshot_cooldown_ticks", "targeted_range",
     "targeted_damage", "targeted_cooldown_ticks", "tower_max_hp", "tower_radius",
     "tower_range", "tower_damage", "tower_cooldown_ticks", "tower_vision_radius",
     "min_direction_length" >>
OfRulesShort(r) == Cells([i \in 1 .. Len(RULES) - 1 |-> r[RULES[i]]])    \* mutant: the newest left out
OfRulesWhole(r) == Cells([i \in DOMAIN RULES |-> r[RULES[i]]])
OfRules(r)      == OfRulesWhole(r)

(* Each kind under a domain of its own, and of a list its length first.   *)
OfInputs(list) == Cells(<<Len(list)>>) \o InARow([i \in DOMAIN list |-> OfInput(list[i])])
Pieces(kind, v) ==
  CASE kind = "state"  -> << <<115, 1>> >> \o OfState(v)
    [] kind = "rules"  -> << <<114, 1>> >> \o OfRules(v)
    [] kind = "inputs" -> << <<105, 1>> >> \o OfInputs(v)

DigestOf(kind, v) == Finish(UpdateAll(New, Pieces(kind, v)))

-----------------------------------------------------------------------------
DInit ==
  /\ kinds \in Kinds \X Kinds
  /\ copies = <<Base(kinds[1]), Base(kinds[2])>>
  /\ edits = <<0, 0>>

Edit(i) ==
  /\ edits[i] < MaxEdits[i]
  /\ edits' = [edits EXCEPT ![i] = @ + 1]
  /\ \E v \in Edits(kinds[i], copies[i]) : copies' = [copies EXCEPT ![i] = v]
  /\ UNCHANGED kinds

DNext == \E i \in {1, 2} : Edit(i)
DSpec == DInit /\ [][DNext]_dvars

-----------------------------------------------------------------------------
(* Two values with one digest are one value, of one kind: nothing is left  *)
(* out of the bytes, no field runs into its neighbour, and the padding     *)
(* hides nothing.  Determinism, the replay's final digest and the sealed   *)
(* log are all compared by it.  canonical.rs, with Hasher of sha256.rs.    *)
SameDigestSameValue ==
  DigestOf(kinds[1], copies[1]) = DigestOf(kinds[2], copies[2]) =>
    kinds[1] = kinds[2] /\ copies[1] = copies[2]

(* However a message was cut into updates, what was hashed is that message *)
(* under SHA-256's own padding: the message, a mark, the fewest zeroes     *)
(* that leave room, and the length of the message alone.                   *)
StandardPadding(message) ==
  LET room  == CHOOSE n \in 0 .. BLOCK - 1 : (Len(message) + 1 + n + LENGTH) % BLOCK = 0
      whole == message \o <<MARK>> \o [i \in 1 .. room |-> 0] \o BitLength(Len(message))
  IN  [b \in 1 .. Len(whole) \div BLOCK |-> SubSeq(whole, (b - 1) * BLOCK + 1, b * BLOCK)]

HashedAsOneMessage ==
  LET pieces == Pieces(kinds[1], copies[1])
  IN  DigestOf(kinds[1], copies[1]) = StandardPadding(InARow(pieces))
=============================================================================
