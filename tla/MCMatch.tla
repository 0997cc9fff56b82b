------------------------------ MODULE MCMatch ------------------------------
(***************************************************************************)
(* The authority, the rules it runs and the numbers they are made of, one  *)
(* at a time: the authority logs inputs whatever the rules make of them,   *)
(* and the rules are given whatever it logs.                               *)
(*                                                                         *)
(* The authority: two seats, two inputs per tick, two ticks, enough for a  *)
(* seat to change hands in the lobby, for a burst over the rate, for a     *)
(* resend, and for a surrender between two ticks.                          *)
(*                                                                         *)
(* The rules: two Blue seats, a Red one and a Green one on a line of seven *)
(* points, with one tower each.  Hit points are few and ranges short, so   *)
(* that within a few ticks champions fall and come back, shots cross the   *)
(* fog, two seats hit the same target in one tick, and a match is decided  *)
(* while a shot is still in the air.                                       *)
(*                                                                         *)
(* The numbers: eight bits, four of them a fraction, every pair of a       *)
(* handful of small operands and of those at the ends of the range, which  *)
(* is where the wide intermediates and the saturation show.                *)
(***************************************************************************)
EXTENDS MatchRecording, MatchRefinement, WorldProperties, FixedPoint

Battlefield ==
  [map_half_extent |-> 3, champion_max_hp |-> 2, champion_speed |-> 1,
   champion_radius |-> 0, respawn_ticks |-> 2, champion_vision_radius |-> 1,
   attack_range |-> 1, attack_damage |-> 1, attack_cooldown_ticks |-> 2,
   skillshot_speed |-> 1, skillshot_radius |-> 0, skillshot_damage |-> 1,
   skillshot_lifetime_ticks |-> 2, skillshot_cooldown_ticks |-> 3,
   targeted_range |-> 3, targeted_damage |-> 2, targeted_cooldown_ticks |-> 3,
   tower_max_hp |-> 1, tower_radius |-> 0, tower_range |-> 1, tower_damage |-> 1,
   tower_cooldown_ticks |-> 2, tower_vision_radius |-> 1, min_direction_length |-> 1]

ThreeTeams == <<"Blue", "Red", "Green">>
Players    == 0 :> "Blue" @@ 1 :> "Blue" @@ 2 :> "Red" @@ 3 :> "Green"
Spawns     == 0 :> -2 @@ 1 :> -1 @@ 2 :> 0 @@ 3 :> 3
Owners     == 0 :> "Blue" @@ 1 :> "Red" @@ 2 :> "Green"
Lanes      == 0 :> -1 @@ 1 :> 1 @@ 2 :> -2

Said ==
  0 :> {Targeted(2), Skillshot(1)} @@
  1 :> {Targeted(2), Attack(TOWER_ID_BASE + 2)} @@
  2 :> {MoveTo(9), Attack(TOWER_ID_BASE)} @@
  3 :> {Skillshot(-1), Skillshot(0)}

Walkers == {-40, -23, -1, 0, 2, 17, 40}
Numbers == {-128, -127} \cup (-40 .. 40) \cup {70, 96, 126, 127}

-----------------------------------------------------------------------------
VARIABLE subject   \* which of the three this behaviour is about

rules  == <<world, twin>>
Unused == <<>>     \* the state of what the behaviour is not about

MCInit ==
  /\ subject \in {"authority", "rules", "numbers"}
  /\ Init
  /\ IF subject = "rules" THEN TwinInit ELSE world = Unused /\ twin = Unused
  /\ IF subject = "numbers" THEN FxInit
     ELSE /\ doing = "nothing" /\ pair = Unused /\ at = Unused /\ mirror = Unused
          /\ goal = Unused /\ step = Unused /\ rng = Unused

MCNext ==
  /\ UNCHANGED subject
  /\ \/ subject = "authority" /\ Next   /\ UNCHANGED <<rules, fxvars>>
     \/ subject = "rules"   /\ TwinNext /\ UNCHANGED <<vars, fxvars>>
     \/ subject = "numbers" /\ FxNext   /\ UNCHANGED <<vars, rules>>

MCSpec == MCInit /\ [][MCNext]_<<subject, vars, rules, fxvars>>

-----------------------------------------------------------------------------
\* FixedPoint.tla, each looked at only where it is the subject: products,
\* quotients and roots are exact up to their one rounding, draws are spread
\* evenly, and a walk goes straight to its goal and its mirror image likewise.
NumbersAreExact ==
  /\ [](subject = "numbers" => ArithmeticIsExact /\ DrawsAreSpread)
  /\ WalksStraight

\* WorldProperties.tla: a tick's events account for every hit point and fall,
\* the amounts taken before the clamp at zero, are no more than the buffer
\* holds, and the winner is who has a tower left.
EventsExplainTheStep == [][subject = "rules" => StepIsExplained]_rules

\* WorldProperties.tla: which of two players' inputs comes first decides
\* nothing but names and the order events are told in, unless a tower falls
\* in that tick: it is rubble at once, while a champion hit to zero still
\* acts and is still hit until deaths are resolved.
NoAdvantage == subject = "rules" => OrderIsNoAdvantage

\* WorldProperties.tla: no view tells of what its team cannot see.
FogHolds == subject = "rules" => FogIsOpaque
=============================================================================
