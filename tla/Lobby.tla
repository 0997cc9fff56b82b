-------------------------------- MODULE Lobby --------------------------------
(***************************************************************************)
(* The lobby as an instrument (client/src/lobby.rs, with Aim of input.rs): *)
(* every click on something whose place the build fixes closes a leg, and  *)
(* what the mouse reported during it is set against the distance crossed.  *)
(*                                                                         *)
(* World units are integers and so are device counts, one to a unit        *)
(* (WORLD_UNITS_PER_COUNT); lengths are compared squared.  Of the sums     *)
(* that are kept, those of squares: the others add roots the same way.     *)
(***************************************************************************)
EXTENDS Integers, Sequences, FiniteSets

CONSTANTS
  LIMIT,             \* RULES.map_half_extent
  Stations,          \* Name, Consent, Champion, Ready -> where the button is
  DUMMY_STATIONS,    \* where the dummy is put, in turn
  BUTTON_RADIUS, DUMMY_RADIUS, MIN_REACH,
  Landings,          \* bound: where a hand may throw the cursor, walls apart
  MaxMotions         \* bound: motion events

Targets == {"Name", "Consent", "Champion", "Ready", "Dummy"}
Buttons == {"Name", "Consent", "Champion"}
Fixed   == Buttons \cup {"Ready"}

VARIABLES
  aim,      \* the cursor
  dummy,    \* how often the dummy was hit
  leg,      \* from, net counts, motions, whether it was clamped
  seen,     \* the observations
  visited,  \* the buttons clicked
  ready,    \* the crossing is over
  reach,    \* history: the last leg recorded as a reach, or <<>>
  moves     \* bound

lvars == <<aim, dummy, leg, seen, visited, ready, reach, moves>>

Plus(a, b)  == <<a[1] + b[1], a[2] + b[2]>>
Minus(a, b) == <<a[1] - b[1], a[2] - b[2]>>
Square(v)   == v[1] * v[1] + v[2] * v[2]
Abs(n)      == IF n < 0 THEN - n ELSE n

Walled(n)  == IF n > LIMIT THEN LIMIT ELSE IF n < - LIMIT THEN - LIMIT ELSE n

(* Aim::apply: the device counts y downwards.                              *)
Moved_(at, d) == <<Walled(at[1] + d[1]), Walled(at[2] - d[2])>>

DummyAt == DUMMY_STATIONS[(dummy % Len(DUMMY_STATIONS)) + 1]
PositionOf(e) == IF e = "Dummy" THEN DummyAt ELSE Stations[e]
RadiusOf(e)   == IF e = "Dummy" THEN DUMMY_RADIUS ELSE BUTTON_RADIUS

(* Buttons first, then the dummy; they do not overlap.                     *)
Under(at) == {e \in Targets : Square(Minus(PositionOf(e), at)) <= RadiusOf(e) * RadiusOf(e)}

(* octant_of: the nearest eighth of a turn; tan of a sixteenth is 0.41421. *)
Octant(d) ==
  LET x == Abs(d[1])  y == Abs(d[2])
      flat  == 100000 * y < 41421 * x
      steep == 100000 * x < 41421 * y
  IN  <<IF steep THEN 0 ELSE IF d[1] < 0 THEN -1 ELSE 1, IF flat THEN 0 ELSE IF d[2] < 0 THEN -1 ELSE 1>>

(* A leg begins on the last target clicked, or where the lobby opened.     *)
Radius_(e) == IF e = "start" THEN 0 ELSE RadiusOf(e)
LegsTo(b) ==
  {<<"start", <<0, 0>>>>}
    \cup {<<c, Stations[c]>> : c \in Fixed \ {b}}
    \cup {<<"Dummy", DUMMY_STATIONS[i]>> : i \in DOMAIN DUMMY_STATIONS}
Octants_(b) == {Octant(Minus(Stations[b], l[2])) : l \in LegsTo(b)}

(* The table of the build: a leg to a button is a movement between targets *)
(* that do not overlap, and two buttons are reached from directions that   *)
(* have none in common.                                                    *)
ASSUME LobbyConstants ==
  /\ {LIMIT, BUTTON_RADIUS, DUMMY_RADIUS, MIN_REACH} \subseteq Nat
  /\ \A b \in Fixed : Stations[b] \in Int \X Int
  /\ DUMMY_STATIONS \in Seq(Int \X Int) /\ DUMMY_STATIONS # <<>>
  /\ Landings \subseteq Int \X Int
ASSUME LobbyGeometry ==
  /\ \A b \in Fixed : \A l \in LegsTo(b) :
       LET d == Square(Minus(Stations[b], l[2]))  most == Radius_(l[1]) + BUTTON_RADIUS
       IN  d >= MIN_REACH * MIN_REACH /\ d > most * most
  /\ \E b, c \in Fixed : Octants_(b) \cap Octants_(c) = {}

LegFrom(at, e) == [from |-> at, of_ |-> e, net |-> <<0, 0>>, motions |-> 0, clamped |-> FALSE]

LInit ==
  /\ aim = <<0, 0>> /\ dummy = 0 /\ leg = LegFrom(<<0, 0>>, "start")
  /\ seen = [reaches |-> 0, octants |-> {}, clamped |-> 0, min |-> 0, max |-> 0,
             sumDD |-> 0, sumNN |-> 0, fast |-> 0, motions |-> 0, quantum |-> 0]
  /\ visited = {} /\ ready = FALSE /\ reach = <<>> /\ moves = 0

-----------------------------------------------------------------------------
(* moved(), after the aim has been applied.                                *)

AtWallBeyond(at) == Abs(at[1]) > LIMIT \/ Abs(at[2]) > LIMIT       \* mutant
AtWall(at)       == Abs(at[1]) >= LIMIT \/ Abs(at[2]) >= LIMIT
Clamped_(at)     == AtWall(at)

Finest(q, d) ==
  LET parts == {Abs(d[1]), Abs(d[2])} \ {0}
      all   == IF q = 0 THEN parts ELSE parts \cup {q}
  IN  IF all = {} THEN 0 ELSE CHOOSE n \in all : \A m \in all : n <= m

Moves(d) ==
  /\ ~ready /\ moves < MaxMotions
  /\ moves' = moves + 1
  /\ aim' = Moved_(aim, d)
  /\ leg' = [leg EXCEPT !.net = Plus(@, d), !.motions = @ + 1, !.clamped = @ \/ Clamped_(aim')]
  /\ seen' = [seen EXCEPT !.quantum = Finest(@, d)]
  /\ UNCHANGED <<dummy, visited, ready, reach>>

(* record(): a leg becomes a reach.                                        *)
Record(from, to, fast) ==
  LET delta == Minus(to, from)
      d == Square(delta)  n == Square(leg.net)
  IN  [seen EXCEPT !.reaches = @ + 1, !.octants = @ \cup {Octant(delta)},
                   !.min = IF seen.reaches = 0 \/ d < @ THEN d ELSE @,
                   !.max = IF d > @ THEN d ELSE @,
                   !.sumDD = @ + d, !.sumNN = @ + n,
                   !.fast = IF fast THEN @ + 1 ELSE @,
                   !.motions = IF fast THEN @ + leg.motions ELSE @]

(* close_leg(): not one that met the wall, nor a short one, nor one        *)
(* without a motion.                                                       *)
Closes(e, fast) ==
  LET to == PositionOf(e)
      far == Square(Minus(to, leg.from)) >= MIN_REACH * MIN_REACH
  IN  IF leg.clamped THEN seen' = [seen EXCEPT !.clamped = @ + 1] /\ UNCHANGED reach
      ELSE IF far /\ leg.motions > 0
           THEN /\ seen' = Record(leg.from, to, fast)
                /\ reach' = <<[leg EXCEPT !.of_ = <<leg.of_, e>>], to>>
           ELSE UNCHANGED <<seen, reach>>

(* The next leg begins where the target is, wherever on it the hand landed.*)
NextLegOnward(e) == [leg EXCEPT !.from = PositionOf(e), !.of_ = e]    \* mutant: not begun anew
NextLegFrom(e)   == LegFrom(PositionOf(e), e)
NextLeg(e)       == NextLegFrom(e)

(* can_ready.  Mutant: the last of the three is enough.                    *)
ReadyAfterChampion == "Champion" \in visited
ReadyAfterAll      == visited = Buttons
CanReady           == ReadyAfterAll

Clicks(fast) ==
  /\ ~ready
  /\ \E e \in Under(aim) :
       /\ e = "Ready" => CanReady
       /\ Closes(e, fast)
       /\ leg' = NextLeg(e)
       /\ visited' = visited \cup ({e} \cap Buttons)
       /\ dummy' = IF e = "Dummy" THEN dummy + 1 ELSE dummy
       /\ ready' = (e = "Ready")
  /\ UNCHANGED <<aim, moves>>

LNext ==
  \/ \E at \in Landings \cup {DummyAt, Plus(DummyAt, <<-2, 3>>)} :
       Moves(<<at[1] - aim[1], aim[2] - at[2]>>)
  \/ \E fast \in BOOLEAN : Clicks(fast)

LSpec == LInit /\ [][LNext]_lvars

-----------------------------------------------------------------------------
(* What was counted is what was crossed: the counts of a recorded reach    *)
(* are those of a hand that left somewhere on the one target and landed    *)
(* somewhere on the other.  Counts swallowed by the edge of the map, or    *)
(* left over from an earlier leg, would make them more.  lobby.rs, moved() *)
(* and close_leg().                                                        *)
CountsAreOfTheCrossing ==
  reach # <<>> =>
    LET l == reach[1]  delta == Minus(reach[2], l.from)
        slop == Minus(<<l.net[1], - l.net[2]>>, delta)
        most == Radius_(l.of_[1]) + Radius_(l.of_[2])
    IN  Square(slop) <= most * most

(* And nobody is ready unmeasured: crossing the lobby is four legs, each a *)
(* reach or known to have met the wall.  lobby.rs, "the instrument".       *)
ReadyMeansMeasured ==
  ready => seen.reaches + seen.clamped >= 4 /\ (seen.clamped = 0 => Cardinality(seen.octants) >= 2)

CrossingIsMeasured == CountsAreOfTheCrossing /\ ReadyMeansMeasured
=============================================================================
