------------------------------- MODULE World -------------------------------
(***************************************************************************)
(* The game: step() of sim/src/step.rs over the state of sim/src/state.rs, *)
(* under the constants a Rules value gives it (sim/src/rules.rs).          *)
(*                                                                         *)
(* The map is a line: a position is an integer, so a distance is exact and *)
(* a direction is a sign.  The order in which the rules run, who is hit    *)
(* first and what a full arena does are the code's.                        *)
(***************************************************************************)
EXTENDS Integers, SequencesExt

CONSTANTS
  SeatTeam, SpawnAt,     \* per seat, from 0: Seat::team, spawn_position
  TowerTeam, TowerAt,    \* per tower, from 0: tower_team, tower_position
  Teams,                 \* Team::ALL, a sequence
  Rules,                 \* the fields of Rules the step reads
  TOWER_ID_BASE, PROJECTILE_ID_BASE, ID_MAX, MAX_PROJECTILES, MAX_EVENTS,
  Vocabulary,            \* bound: the actions each seat may take
  PerSlice, MaxSteps     \* bounds

RulesFields ==
  {"map_half_extent", "champion_max_hp", "champion_speed", "champion_radius", "respawn_ticks",
   "champion_vision_radius", "attack_range", "attack_damage", "attack_cooldown_ticks",
   "skillshot_speed", "skillshot_radius", "skillshot_damage", "skillshot_lifetime_ticks",
   "skillshot_cooldown_ticks", "targeted_range", "targeted_damage", "targeted_cooldown_ticks",
   "tower_max_hp", "tower_radius", "tower_range", "tower_damage", "tower_cooldown_ticks",
   "tower_vision_radius", "min_direction_length"}

Action ==
  [kind : {"Idle"}] \cup [kind : {"MoveTo"}, to : Int] \cup [kind : {"Attack"}, target : Nat]
    \cup [kind : {"Skillshot"}, direction : Int] \cup [kind : {"Targeted"}, target : Nat]

(* Seats and towers are numbered from zero and a tower's handle is no      *)
(* seat's; everybody spawns on the map and alive, and two teams have a     *)
(* tower.                                                                  *)
ASSUME WorldConstants ==
  /\ IsFiniteSet(DOMAIN SeatTeam) /\ DOMAIN SeatTeam = 0..Cardinality(DOMAIN SeatTeam) - 1
  /\ IsFiniteSet(DOMAIN TowerTeam) /\ DOMAIN TowerTeam = 0..Cardinality(DOMAIN TowerTeam) - 1
  /\ RulesFields \subseteq DOMAIN Rules /\ \A f \in RulesFields : Rules[f] \in Nat
  /\ SpawnAt \in [DOMAIN SeatTeam -> -Rules.map_half_extent..Rules.map_half_extent]
  /\ TowerAt \in [DOMAIN TowerTeam -> Int]
  /\ TOWER_ID_BASE \in Nat /\ \A s \in DOMAIN SeatTeam : s < TOWER_ID_BASE
  /\ PROJECTILE_ID_BASE \in Nat /\ ID_MAX \in Nat /\ PROJECTILE_ID_BASE <= ID_MAX
  /\ MAX_PROJECTILES \in Nat /\ MAX_EVENTS \in Nat
  /\ Rules.champion_max_hp > 0
  /\ Rules.tower_max_hp > 0 /\ \E t, u \in DOMAIN TowerTeam : TowerTeam[t] # TowerTeam[u]
  /\ \A s \in DOMAIN SeatTeam : \A a \in Vocabulary[s] : a \in Action

VARIABLE world

-----------------------------------------------------------------------------

Places  == DOMAIN SeatTeam
Towers == DOMAIN TowerTeam
Slots  == 1..MAX_PROJECTILES

SeatOrder  == [i \in 1..Cardinality(Places) |-> i - 1]
TowerOrder == [i \in 1..Cardinality(Towers) |-> i - 1]
SlotOrder  == [i \in Slots |-> i]

Within(p, q, radius) == p - q <= radius /\ q - p <= radius
AtMost(p, q)         == IF p < q THEN p ELSE q
AtLeast(p, q)        == IF p < q THEN q ELSE p
Clamp(p)             == AtLeast(-Rules.map_half_extent, AtMost(p, Rules.map_half_extent))
Sign(d)              == IF d > 0 THEN 1 ELSE IF d < 0 THEN -1 ELSE 0
OneLess(n)           == AtLeast(n - 1, 0)

Idle          == [kind |-> "Idle"]
MoveTo(p)     == [kind |-> "MoveTo", to |-> p]
Attack(id)    == [kind |-> "Attack", target |-> id]
Skillshot(d)  == [kind |-> "Skillshot", direction |-> d]
Targeted(id)  == [kind |-> "Targeted", target |-> id]
InProgress    == [kind |-> "InProgress"]
Decided(t, n) == [kind |-> "Decided", winner |-> t, at |-> n]
Empty         == [empty |-> TRUE]         \* Option::None of a slot

(* A handle is a seat's or a tower's number; EntityRef in the code.        *)
TowerId(t)       == TOWER_ID_BASE + t
IsTower(id)      == id >= TOWER_ID_BASE
TowerOf(id)      == id - TOWER_ID_BASE
EntityTeam(id)   == IF IsTower(id) THEN TowerTeam[TowerOf(id)] ELSE SeatTeam[id]

Standing(w, t) == w.towers[t].hp > 0
Alive(w, s)    == w.champions[s].alive

(* resolve: a champion hit to zero still resolves until the tick's deaths, *)
(* a tower hit to zero does not.  The mutant treats both the same.         *)
ResolvesStanding(w, id) ==
  \/ id \in Places /\ Alive(w, id) /\ w.champions[id].hp > 0
  \/ IsTower(id) /\ TowerOf(id) \in Towers /\ Standing(w, TowerOf(id))
Resolves(w, id) ==
  \/ id \in Places /\ Alive(w, id)
  \/ IsTower(id) /\ TowerOf(id) \in Towers /\ Standing(w, TowerOf(id))

EntityAt(w, id) == IF IsTower(id) THEN TowerAt[TowerOf(id)] ELSE w.champions[id].at

Enemy(s, id) == EntityTeam(id) # SeatTeam[s]

(* champion_mut, towers.get_mut and a slot of the arena.                   *)
PutChampion(w, s, c) == [w EXCEPT !.champions[s] = c]
PutTower(w, t, u)    == [w EXCEPT !.towers[t] = u]
PutShot(w, slot, p)  == [w EXCEPT !.projectiles[slot] = p]

Rested == [basic |-> 0, skillshot |-> 0, targeted |-> 0]

Resting(c, ability, ticks) == [c EXCEPT !.cooldowns[ability] = ticks]

(* A champion is alive with hit points or dead until respawn_at.           *)
Fresh(s) == [at |-> SpawnAt[s], alive |-> TRUE, hp |-> Rules.champion_max_hp,
             order |-> Idle, cooldowns |-> Rested]

NewWorld ==
  [tick |-> 0, next_projectile_id |-> PROJECTILE_ID_BASE,
   champions   |-> [s \in Places |-> Fresh(s)],
   towers      |-> [t \in Towers |-> [hp |-> Rules.tower_max_hp, cooldown |-> 0]],
   projectiles |-> [i \in Slots |-> Empty],
   events |-> <<>>, outcome |-> InProgress]

-----------------------------------------------------------------------------
(* Events and damage.                                                      *)

Emit(w, event) ==
  IF Len(w.events) < MAX_EVENTS THEN [w EXCEPT !.events = Append(@, event)] ELSE w

Cast(s, ability, at)     == [kind |-> "Cast", who |-> s, ability |-> ability, at |-> at]
Damage(id, amount, at)   == [kind |-> "Damage", who |-> id, amount |-> amount, at |-> at]
Death(s, at)             == [kind |-> "Death", who |-> s, at |-> at]

Wounded(c, amount)      == [c EXCEPT !.hp = AtLeast(@ - amount, 0)]
WoundedTower(u, amount) == [u EXCEPT !.hp = AtLeast(@ - amount, 0)]

Hurt(w, id, amount) ==
  LET told == Emit(w, Damage(id, amount, EntityAt(w, id)))
  IN  CASE IsTower(id) -> PutTower(told, TowerOf(id), WoundedTower(told.towers[TowerOf(id)], amount))
        [] ~IsTower(id) /\ Alive(w, id) ->
             PutChampion(told, id, Wounded(told.champions[id], amount))
        [] OTHER -> told

-----------------------------------------------------------------------------
(* The phases of a tick, in their order.                                   *)

Cooler(c)      == [c EXCEPT !.cooldowns = [a \in DOMAIN c.cooldowns |-> OneLess(c.cooldowns[a])]]
CoolerTower(u) == [u EXCEPT !.cooldown = OneLess(u.cooldown)]

TickCooldowns(w) ==
  [w EXCEPT !.champions = [s \in Places |-> Cooler(w.champions[s])],
            !.towers    = [t \in Towers |-> CoolerTower(w.towers[t])]]

GrantRespawns(w) ==
  [w EXCEPT !.champions =
     [s \in Places |-> IF ~Alive(w, s) /\ w.tick >= w.champions[s].respawn_at
                       THEN Fresh(s) ELSE w.champions[s]]]

(* allocate_projectile_id and Projectiles::insert: the lowest free slot.   *)
FreeSlots(w) == {i \in Slots : w.projectiles[i] = Empty}

NextId(id) == IF id = ID_MAX THEN PROJECTILE_ID_BASE ELSE id + 1

Launched(w, s, direction) ==
  [id |-> w.next_projectile_id, owner |-> s, at |-> w.champions[s].at,
   velocity |-> Sign(direction) * Rules.skillshot_speed,
   remaining |-> Rules.skillshot_lifetime_ticks]

Lowest(ids) == CHOOSE i \in ids : \A j \in ids : i <= j

Launch(w, s, direction) ==
  [PutShot(w, Lowest(FreeSlots(w)), Launched(w, s, direction))
     EXCEPT !.next_projectile_id = NextId(w.next_projectile_id)]

(* The mutant does not start the cooldown.                                 *)
CastSkillshotFreely(w, s, direction) ==
  IF w.champions[s].cooldowns.skillshot # 0 \/ FreeSlots(w) = {} THEN w
  ELSE Emit(Launch(w, s, direction), Cast(s, "Skillshot", w.champions[s].at))

CastSkillshot(w, s, direction) ==
  LET c == w.champions[s]
  IN  IF \/ c.cooldowns.skillshot # 0
         \/ AtLeast(direction, -direction) < Rules.min_direction_length
         \/ FreeSlots(w) = {}
        THEN w
        ELSE Emit(PutChampion(Launch(w, s, direction), s,
                              Resting(c, "skillshot", Rules.skillshot_cooldown_ticks)),
                  Cast(s, "Skillshot", c.at))

CastTargeted(w, s, id) ==
  IF \/ w.champions[s].cooldowns.targeted # 0
     \/ ~Resolves(w, id) \/ ~Enemy(s, id)
     \/ ~Within(w.champions[s].at, EntityAt(w, id), Rules.targeted_range)
    THEN w
    ELSE LET hurt == Hurt(Emit(w, Cast(s, "Targeted", w.champions[s].at)), id,
                          Rules.targeted_damage)
         IN  PutChampion(hurt, s, Resting(hurt.champions[s], "targeted",
                                          Rules.targeted_cooldown_ticks))

Ordered(c, order)     == [c EXCEPT !.order = order]
SetOrder(w, s, order) == PutChampion(w, s, Ordered(w.champions[s], order))

ApplyInput(w, input) ==
  LET s == input.player
      a == input.action
  IN  CASE input.tick # w.tick \/ ~Alive(w, s) -> w
        [] OTHER ->
           CASE a.kind = "Idle"      -> SetOrder(w, s, Idle)
             [] a.kind = "MoveTo"    -> SetOrder(w, s, MoveTo(Clamp(a.to)))
             [] a.kind = "Attack"    -> IF Resolves(w, a.target) /\ Enemy(s, a.target)
                                          THEN SetOrder(w, s, a) ELSE w
             [] a.kind = "Skillshot" -> CastSkillshot(w, s, a.direction)
             [] a.kind = "Targeted"  -> CastTargeted(w, s, a.target)

(* An attack order is an order to move until the target is in range.       *)
Destination(w, s) ==
  LET c == w.champions[s]
  IN  CASE c.order.kind = "MoveTo" -> c.order.to
        [] c.order.kind = "Attack" ->
             IF Resolves(w, c.order.target)
                  /\ ~Within(c.at, EntityAt(w, c.order.target), Rules.attack_range)
               THEN EntityAt(w, c.order.target) ELSE c.at
        [] OTHER -> c.at

Stepped(p, q) ==
  Clamp(IF Within(p, q, Rules.champion_speed) THEN q ELSE p + Sign(q - p) * Rules.champion_speed)

Moved(c, to) ==
  [c EXCEPT !.at = to, !.order = IF @ = MoveTo(to) THEN Idle ELSE @]

MoveChampion(w, s) ==
  IF ~Alive(w, s) THEN w
  ELSE PutChampion(w, s, Moved(w.champions[s], Stepped(w.champions[s].at, Destination(w, s))))

(* first_hit: champions in seat order, then towers in tower order.         *)
Overlapped(w, p) ==
  {s \in Places : /\ SeatTeam[s] # SeatTeam[p.owner] /\ Alive(w, s)
                 /\ Within(p.at, w.champions[s].at, Rules.skillshot_radius + Rules.champion_radius)}
    \cup
  {TowerId(t) : t \in {u \in Towers :
                 /\ TowerTeam[u] # SeatTeam[p.owner] /\ Standing(w, u)
                 /\ Within(p.at, TowerAt[u], Rules.skillshot_radius + Rules.tower_radius)}}

Flown(p) == [p EXCEPT !.at = @ + p.velocity, !.remaining = OneLess(@)]

AdvanceProjectile(w, slot) ==
  IF w.projectiles[slot] = Empty THEN w
  ELSE LET p   == Flown(w.projectiles[slot])
           hit == Overlapped(w, p)
       IN  CASE hit # {} -> PutShot(Hurt(w, Lowest(hit), Rules.skillshot_damage), slot, Empty)
             [] hit = {} /\ (p.remaining = 0 \/ ~Within(p.at, 0, Rules.map_half_extent)) ->
                  PutShot(w, slot, Empty)
             [] OTHER -> PutShot(w, slot, p)

(* lowest_enemy_in_range, seat order for every tower.                      *)
InTowerRange(w, t) ==
  {s \in Places : /\ SeatTeam[s] # TowerTeam[t] /\ Alive(w, s)
                 /\ Within(TowerAt[t], w.champions[s].at, Rules.tower_range)}

Reloading(u) == [u EXCEPT !.cooldown = Rules.tower_cooldown_ticks]

FireTower(w, t) ==
  IF ~Standing(w, t) \/ w.towers[t].cooldown # 0 \/ InTowerRange(w, t) = {} THEN w
  ELSE LET hurt == Hurt(w, Lowest(InTowerRange(w, t)), Rules.tower_damage)
       IN  PutTower(hurt, t, Reloading(hurt.towers[t]))

BasicAttack(w, s) ==
  LET c == w.champions[s]
  IN  IF /\ c.alive /\ c.cooldowns.basic = 0 /\ c.order.kind = "Attack"
         /\ Resolves(w, c.order.target) /\ Enemy(s, c.order.target)
         /\ Within(c.at, EntityAt(w, c.order.target), Rules.attack_range)
        THEN LET hurt == Hurt(w, c.order.target, Rules.attack_damage)
             IN  PutChampion(hurt, s, Resting(hurt.champions[s], "basic",
                                              Rules.attack_cooldown_ticks))
        ELSE w

(* Deaths are told from where each one fell, after every body has been     *)
(* moved to its spawn.  The mutant tells them from there.                  *)
Dying(w) == {s \in Places : Alive(w, s) /\ w.champions[s].hp <= 0}

Body(c, s, tick) ==
  [at |-> SpawnAt[s], alive |-> FALSE, order |-> Idle, cooldowns |-> c.cooldowns,
   respawn_at |-> tick + Rules.respawn_ticks]

Buried(w) ==
  [w EXCEPT !.champions = [s \in Places |->
     IF s \in Dying(w) THEN Body(w.champions[s], s, w.tick) ELSE w.champions[s]]]

DiedAtSpawn(w) ==
  [i \in DOMAIN SeatOrder |-> [who |-> SeatOrder[i], fell |-> SeatOrder[i] \in Dying(w),
                               at  |-> SpawnAt[SeatOrder[i]]]]
Died(w) ==
  [i \in DOMAIN SeatOrder |-> [who |-> SeatOrder[i], fell |-> SeatOrder[i] \in Dying(w),
                               at  |-> w.champions[SeatOrder[i]].at]]

Announce(w, died) == IF died.fell THEN Emit(w, Death(died.who, died.at)) ELSE w

ResolveDeaths(w) == FoldLeft(Announce, Buried(w), Died(w))

TeamsStanding(w) == {TowerTeam[t] : t \in {u \in Towers : Standing(w, u)}}

DecideOutcome(w) ==
  IF w.outcome # InProgress \/ Cardinality(TeamsStanding(w)) > 1 THEN w
  ELSE [w EXCEPT !.outcome =
          Decided(IF TeamsStanding(w) = {} THEN Head(Teams)
                  ELSE CHOOSE t \in TeamsStanding(w) : TRUE, w.tick)]

-----------------------------------------------------------------------------
(* step_with_rules.                                                        *)

Quiet(w) == [w EXCEPT !.events = <<>>]

Later(w) == [w EXCEPT !.tick = @ + 1]

Played(w, inputs) ==
  LET commanded == FoldLeft(ApplyInput, GrantRespawns(TickCooldowns(Quiet(w))), inputs)
      moved     == FoldLeft(MoveChampion, commanded, SeatOrder)
      flown     == FoldLeft(AdvanceProjectile, moved, SlotOrder)
      fired     == FoldLeft(FireTower, flown, TowerOrder)
      fought    == FoldLeft(BasicAttack, fired, SeatOrder)
  IN  Later(DecideOutcome(ResolveDeaths(fought)))

(* A decided match only counts ticks.  The mutant plays on.                *)
StepPlayingOn(w, inputs) == Played(w, inputs)

Step(w, inputs) ==
  IF w.outcome # InProgress THEN Later(Quiet(w)) ELSE Played(w, inputs)

-----------------------------------------------------------------------------
(* What one seat is shown: view_for_with_rules of sim/src/view.rs.         *)

(* What a team sees from: each eye with how far it sees.                   *)
Eyes(w, team) ==
  {<<w.champions[s].at, Rules.champion_vision_radius>> :
     s \in {r \in Places : SeatTeam[r] = team /\ Alive(w, r)}}
    \cup
  {<<TowerAt[t], Rules.tower_vision_radius>> :
     t \in {u \in Towers : TowerTeam[u] = team /\ Standing(w, u)}}

Sees(eyes, point)      == \E eye \in eyes : Within(eye[1], point, eye[2])
CanSee(w, team, point) == Sees(Eyes(w, team), point)

InFlight(w) == {i \in Slots : w.projectiles[i] # Empty}

Sighted(eyes, projectiles) ==
  [i \in {j \in Slots : projectiles[j] # Empty /\ Sees(eyes, projectiles[j].at)} |->
     [id |-> projectiles[i].id, at |-> projectiles[i].at, velocity |-> projectiles[i].velocity]]

(* By handle, since a slot's number tells what else is in the arena.  The  *)
(* mutant goes by slot.                                                    *)
ListedBySlot(sighted) ==
  LET order == SetToSortSeq(DOMAIN sighted, LAMBDA i, j : i < j)
  IN  [n \in DOMAIN order |-> sighted[order[n]]]
Listed(sighted) ==
  LET order == SetToSortSeq(DOMAIN sighted, LAMBDA i, j :
                 IF sighted[i].id = sighted[j].id THEN i < j ELSE sighted[i].id < sighted[j].id)
  IN  [n \in DOMAIN order |-> sighted[order[n]]]

ToldOf(eyes, events) == SelectSeq(events, LAMBDA e : Sees(eyes, e.at))

ViewFor(w, player) ==
  LET eyes == Eyes(w, SeatTeam[player])
      seen == {s \in Places \ {player} : Alive(w, s) /\ Sees(eyes, w.champions[s].at)}
  IN  [tick |-> w.tick, outcome |-> w.outcome,
       own  |-> [f \in DOMAIN w.champions[player] \ {"order"} |-> w.champions[player][f]],
       champions   |-> [s \in seen |-> [at |-> w.champions[s].at, hp |-> w.champions[s].hp]],
       towers      |-> [t \in {u \in Towers : Sees(eyes, TowerAt[u])} |-> w.towers[t].hp],
       projectiles |-> Listed(Sighted(eyes, w.projectiles)),
       events      |-> ToldOf(eyes, w.events)]

-----------------------------------------------------------------------------

(* The slice of a tick, as the authority hands it over: by seat.           *)
Inputs(w) == [tick : {w.tick}, player : Places, action : UNION {Vocabulary[s] : s \in Places}]

Slices(w) ==
  UNION {{q \in [1..n -> {i \in Inputs(w) : i.action \in Vocabulary[i.player]}] :
            \A i, j \in 1..n : i < j => q[i].player <= q[j].player} : n \in 0..PerSlice}

WorldInit == world = NewWorld

PlayTick(inputs) == world.tick < MaxSteps /\ world' = Step(world, inputs)

WorldNext == \E inputs \in Slices(world) : PlayTick(inputs)

WorldSpec == WorldInit /\ [][WorldNext]_world
=============================================================================
