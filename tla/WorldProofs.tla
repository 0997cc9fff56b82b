---------------------------- MODULE WorldProofs ----------------------------
(***************************************************************************)
(* Proofs about the rules of the game (World.tla), for any map, any teams, *)
(* any numbers of seats, towers and slots, any rules and whatever the      *)
(* players do.                                                             *)
(*                                                                         *)
(* A tick is seven folds, and each passes on the world the one before it   *)
(* made: what every operation keeps (Undecided), a fold of it keeps        *)
(* (FoldLemmas.tla). Until the last phase nothing decides, and that phase  *)
(* looks at the towers as the tick leaves them.                            *)
(*                                                                         *)
(* A view is a function of what its team sees from, what it sees there and *)
(* what its own seat holds: two worlds that agree on those give one view   *)
(* (SameToSeat), and what a team sees from is its own.                     *)
(***************************************************************************)
EXTENDS WorldProperties, FiniteSetTheorems, SequenceTheorems, TLAPS

Ground    == -Rules.map_half_extent..Rules.map_half_extent
Order     == [kind : {"Idle"}] \cup [kind : {"MoveTo"}, to : Int] \cup [kind : {"Attack"}, target : Nat]
Cooldowns == [basic : Nat, skillshot : Nat, targeted : Nat]

Living   == [at : Ground, alive : {TRUE}, hp : 0..Rules.champion_max_hp,
             order : Order, cooldowns : Cooldowns]
Dead     == [at : Ground, alive : {FALSE}, order : Order, cooldowns : Cooldowns, respawn_at : Nat]
Champion == Living \cup Dead
Tower    == [hp : 0..Rules.tower_max_hp, cooldown : Nat]
Shot     == [id : PROJECTILE_ID_BASE..ID_MAX, owner : Places, at : Int, velocity : Int, remaining : Nat]
Handle   == Places \cup {TowerId(t) : t \in Towers}
Event    == [kind : {"Cast"}, who : Places, ability : {"Skillshot", "Targeted"}, at : Int]
              \cup [kind : {"Damage"}, who : Handle, amount : Nat, at : Int]
              \cup [kind : {"Death"}, who : Places, at : Int]
Winners  == {TowerTeam[t] : t \in Towers} \cup {Head(Teams)}
Outcome  == {InProgress} \cup {Decided(t, n) : t \in Winners, n \in Nat}

(* Every world the rules make; MAX_EVENTS bounds what is told of a tick.   *)
Worlds ==
  [tick : Nat, next_projectile_id : PROJECTILE_ID_BASE..ID_MAX,
   champions   : [Places -> Champion],
   towers      : [Towers -> Tower],
   projectiles : [Slots -> Shot \cup {Empty}],
   events      : Seq(Event),
   outcome     : Outcome]

Undecided == {w \in Worlds : w.outcome = InProgress}

Ordering == [tick : Int, player : Places, action : Action]
Passing  == [who : Places, fell : BOOLEAN, at : Int]

(* The folds of a tick.                                                    *)
Commands == INSTANCE FoldLemmas WITH Op <- ApplyInput, V <- Undecided, E <- Ordering
Moves    == INSTANCE FoldLemmas WITH Op <- MoveChampion, V <- Undecided, E <- Places
Flights  == INSTANCE FoldLemmas WITH Op <- AdvanceProjectile, V <- Undecided, E <- Slots
Volleys  == INSTANCE FoldLemmas WITH Op <- FireTower, V <- Undecided, E <- Towers
Fights   == INSTANCE FoldLemmas WITH Op <- BasicAttack, V <- Undecided, E <- Places
Deaths   == INSTANCE FoldLemmas WITH Op <- Announce, V <- Undecided, E <- Passing

-----------------------------------------------------------------------------
(* The operations one by one.                                              *)

LEMMA RulesAre ==
  /\ Rules.map_half_extent \in Nat /\ Rules.champion_max_hp \in Nat /\ Rules.champion_speed \in Nat
  /\ Rules.champion_radius \in Nat /\ Rules.respawn_ticks \in Nat /\ Rules.champion_vision_radius \in Nat
  /\ Rules.attack_range \in Nat /\ Rules.attack_damage \in Nat /\ Rules.attack_cooldown_ticks \in Nat
  /\ Rules.skillshot_speed \in Nat /\ Rules.skillshot_radius \in Nat /\ Rules.skillshot_damage \in Nat
  /\ Rules.skillshot_lifetime_ticks \in Nat /\ Rules.skillshot_cooldown_ticks \in Nat
  /\ Rules.targeted_range \in Nat /\ Rules.targeted_damage \in Nat /\ Rules.targeted_cooldown_ticks \in Nat
  /\ Rules.tower_max_hp \in Nat /\ Rules.tower_radius \in Nat /\ Rules.tower_range \in Nat
  /\ Rules.tower_damage \in Nat /\ Rules.tower_cooldown_ticks \in Nat
  /\ Rules.tower_vision_radius \in Nat /\ Rules.min_direction_length \in Nat
BY WorldConstants DEF RulesFields

LEMMA NumberedFromZero ==
  /\ Places \subseteq Nat /\ Towers \subseteq Nat
  /\ \A s \in Places : ~IsTower(s)
  /\ \A t \in Towers : TowerId(t) \in Nat /\ IsTower(TowerId(t)) /\ TowerOf(TowerId(t)) = t
  /\ \A s \in Places : SpawnAt[s] \in Ground
  /\ \A t \in Towers : TowerAt[t] \in Int
<1>1. Places \subseteq Nat /\ Towers \subseteq Nat
  <2>1. Cardinality(DOMAIN SeatTeam) \in Nat /\ Cardinality(DOMAIN TowerTeam) \in Nat
    BY WorldConstants, FS_CardinalityType
  <2> QED
    BY <2>1, WorldConstants DEF Places, Towers
<1>2. \A s \in Places : ~IsTower(s)
  BY <1>1, WorldConstants DEF Places, IsTower
<1>3. \A t \in Towers : TowerId(t) \in Nat /\ IsTower(TowerId(t)) /\ TowerOf(TowerId(t)) = t
  <2> SUFFICES ASSUME NEW t \in Towers
               PROVE  TowerId(t) \in Nat /\ IsTower(TowerId(t)) /\ TowerOf(TowerId(t)) = t
    OBVIOUS
  <2>1. PICK n \in Nat, b \in Nat : n = t /\ b = TOWER_ID_BASE
    BY <1>1, WorldConstants
  <2> QED
    BY <2>1 DEF IsTower, TowerId, TowerOf
<1>4. (\A s \in Places : SpawnAt[s] \in Ground) /\ (\A t \in Towers : TowerAt[t] \in Int)
  BY WorldConstants DEF Places, Towers, Ground
<1> QED
  BY <1>1, <1>2, <1>3, <1>4

LEMMA ClampStays ==
  ASSUME NEW p \in Int
  PROVE  Clamp(p) \in Ground
BY RulesAre DEF Clamp, AtLeast, AtMost, Ground

LEMMA ChampionIs ==
  ASSUME NEW w \in Worlds, NEW s \in Places
  PROVE  /\ w.champions[s] \in Champion
         /\ w.champions[s].at \in Ground /\ w.champions[s].at \in Int
         /\ w.champions[s].order \in Order
         /\ w.champions[s].cooldowns \in Cooldowns
         /\ w.champions[s].alive = TRUE \/ w.champions[s].alive = FALSE
         /\ Alive(w, s) => w.champions[s] \in Living
         /\ ~Alive(w, s) => w.champions[s] \in Dead
<1>1. PICK c \in Champion : c = w.champions[s]
  BY DEF Worlds
<1>2. c.at \in Ground /\ c.order \in Order /\ c.cooldowns \in Cooldowns
  BY DEF Champion, Living, Dead
<1>3. c.at \in Int
  BY <1>2, RulesAre DEF Ground
<1>4. c.alive = TRUE \/ c.alive = FALSE
  BY DEF Champion, Living, Dead
<1>5. (c.alive => c \in Living) /\ (~c.alive => c \in Dead)
  BY DEF Champion, Living, Dead
<1> QED
  BY <1>1, <1>2, <1>3, <1>4, <1>5 DEF Alive

LEMMA PutChampionStays ==
  ASSUME NEW w \in Undecided, NEW s \in Places, NEW c \in Champion
  PROVE  PutChampion(w, s, c) \in Undecided
BY DEF PutChampion, Undecided, Worlds

LEMMA PutTowerStays ==
  ASSUME NEW w \in Undecided, NEW t \in Towers, NEW u \in Tower
  PROVE  PutTower(w, t, u) \in Undecided
BY DEF PutTower, Undecided, Worlds

LEMMA PutShotStays ==
  ASSUME NEW w \in Undecided, NEW i \in Slots, NEW p \in Shot \cup {Empty}
  PROVE  PutShot(w, i, p) \in Undecided
BY DEF PutShot, Undecided, Worlds

LEMMA EmitStays ==
  ASSUME NEW w \in Undecided, NEW e \in Event
  PROVE  /\ Emit(w, e) \in Undecided
         /\ Emit(w, e).champions = w.champions /\ Emit(w, e).towers = w.towers
         /\ Emit(w, e).projectiles = w.projectiles /\ Emit(w, e).tick = w.tick
         /\ Emit(w, e).next_projectile_id = w.next_projectile_id
BY AppendProperties DEF Emit, Undecided, Worlds

(* The fields of a champion and of a tower, one at a time.                 *)
LEMMA ChampionChanges ==
  ASSUME NEW c \in Champion
  PROVE  /\ \A order \in Order : Ordered(c, order) \in Champion
         /\ \A to \in Ground : Moved(c, to) \in Champion
         /\ \A a \in {"basic", "skillshot", "targeted"}, n \in Nat : Resting(c, a, n) \in Champion
         /\ \A n \in Nat : c.alive => Wounded(c, n) \in Champion
         /\ Cooler(c) \in Champion
<1>1. ASSUME NEW order \in Order PROVE Ordered(c, order) \in Champion
  BY DEF Ordered, Champion, Living, Dead
<1>2. ASSUME NEW to \in Ground PROVE Moved(c, to) \in Champion
  <2>1. PICK order \in Order : order = IF c.order = MoveTo(to) THEN Idle ELSE c.order
    BY DEF Champion, Living, Dead, Order, Idle
  <2>2. Moved(c, to) = [c EXCEPT !.at = to, !.order = order]
    BY <2>1 DEF Moved
  <2> QED
    BY <2>2 DEF Champion, Living, Dead
<1>3. ASSUME NEW a \in {"basic", "skillshot", "targeted"}, NEW n \in Nat
      PROVE  Resting(c, a, n) \in Champion
  <2>1. PICK cooldowns \in Cooldowns : cooldowns = [c.cooldowns EXCEPT ![a] = n]
    BY DEF Champion, Living, Dead, Cooldowns
  <2>2. Resting(c, a, n) = [c EXCEPT !.cooldowns = cooldowns]
    BY <2>1, Zenon DEF Resting
  <2> QED
    BY <2>2 DEF Champion, Living, Dead
<1>4. ASSUME NEW n \in Nat, c.alive PROVE Wounded(c, n) \in Champion
  <2>1. c \in Living /\ c.hp \in 0..Rules.champion_max_hp
    BY <1>4 DEF Champion, Living, Dead
  <2>2. AtLeast(c.hp - n, 0) \in 0..Rules.champion_max_hp
    BY <2>1, RulesAre DEF AtLeast
  <2> QED
    BY <2>1, <2>2 DEF Wounded, Champion, Living
<1>5. Cooler(c) \in Champion
  <2>1. c.cooldowns \in Cooldowns
    BY DEF Champion, Living, Dead
  <2>2. PICK cooldowns \in Cooldowns :
          cooldowns = [a \in DOMAIN c.cooldowns |-> OneLess(c.cooldowns[a])]
    <3>1. \A n \in Nat : OneLess(n) \in Nat
      BY DEF OneLess, AtLeast
    <3>2. DOMAIN c.cooldowns = {"basic", "skillshot", "targeted"}
          /\ \A a \in DOMAIN c.cooldowns : c.cooldowns[a] \in Nat
      BY <2>1 DEF Cooldowns
    <3> QED
      BY <3>1, <3>2 DEF Cooldowns
  <2>3. Cooler(c) = [c EXCEPT !.cooldowns = cooldowns]
    BY <2>2 DEF Cooler
  <2> QED
    BY <2>3 DEF Champion, Living, Dead
<1> QED
  BY <1>1, <1>2, <1>3, <1>4, <1>5

LEMMA TowerChanges ==
  ASSUME NEW u \in Tower
  PROVE  /\ \A n \in Nat : WoundedTower(u, n) \in Tower
         /\ Reloading(u) \in Tower
         /\ CoolerTower(u) \in Tower
BY RulesAre DEF Tower, WoundedTower, Reloading, CoolerTower, AtLeast, OneLess

LEMMA FreshStays ==
  ASSUME NEW s \in Places
  PROVE  Fresh(s) \in Champion
BY NumberedFromZero, RulesAre DEF Fresh, Champion, Living, Rested, Cooldowns, Idle, Order

(* What is told of a hit, and what a hit does.                             *)
LEMMA HurtStays ==
  ASSUME NEW w \in Undecided, NEW id \in Handle, NEW amount \in Nat
  PROVE  Hurt(w, id, amount) \in Undecided
<1> DEFINE told == Emit(w, Damage(id, amount, EntityAt(w, id)))
<1>1. EntityAt(w, id) \in Int
  <2>1. CASE id \in Places
    <3>1. w.champions[id].at \in Int /\ ~IsTower(id)
      BY <2>1, NumberedFromZero, ChampionIs DEF Undecided
    <3> QED
      BY <3>1 DEF EntityAt
  <2>2. CASE id \notin Places
    BY <2>2, NumberedFromZero DEF Handle, EntityAt
  <2> QED
    BY <2>1, <2>2
<1>2. Damage(id, amount, EntityAt(w, id)) \in Event
  BY <1>1 DEF Damage, Event
<1>3. told \in Undecided /\ told.champions = w.champions /\ told.towers = w.towers
  BY <1>2, EmitStays
<1> HIDE DEF told
<1>4. CASE IsTower(id)
  <2>1. TowerOf(id) \in Towers
    BY <1>4, NumberedFromZero DEF Handle
  <2>2. told.towers[TowerOf(id)] \in Tower
    BY <1>3, <2>1 DEF Undecided, Worlds
  <2>3. WoundedTower(told.towers[TowerOf(id)], amount) \in Tower
    BY <2>2, TowerChanges
  <2>4. Hurt(w, id, amount) = PutTower(told, TowerOf(id), WoundedTower(told.towers[TowerOf(id)], amount))
    BY <1>4 DEF Hurt, told
  <2> QED
    BY <1>3, <2>1, <2>3, <2>4, PutTowerStays
<1>5. CASE ~IsTower(id) /\ Alive(w, id)
  <2>1. id \in Places
    BY <1>5, NumberedFromZero DEF Handle
  <2>2. told.champions[id] \in Champion /\ told.champions[id].alive
    BY <1>3, <1>5, <2>1 DEF Undecided, Worlds, Alive
  <2>3. Wounded(told.champions[id], amount) \in Champion
    BY <2>2, ChampionChanges
  <2>4. Hurt(w, id, amount) = PutChampion(told, id, Wounded(told.champions[id], amount))
    BY <1>5 DEF Hurt, told
  <2> QED
    BY <1>3, <2>1, <2>3, <2>4, PutChampionStays
<1>6. CASE ~IsTower(id) /\ ~Alive(w, id)
  BY <1>3, <1>6 DEF Hurt, told
<1> QED
  BY <1>4, <1>5, <1>6

LEMMA HandleIs ==
  ASSUME NEW w \in Undecided, NEW id \in Nat, Resolves(w, id)
  PROVE  id \in Handle /\ EntityAt(w, id) \in Int
<1>1. CASE id \in Places
  <2>1. w.champions[id].at \in Int /\ ~IsTower(id)
    BY <1>1, NumberedFromZero, ChampionIs DEF Undecided
  <2> QED
    BY <1>1, <2>1 DEF EntityAt, Handle
<1>2. CASE id \notin Places
  <2>1. IsTower(id) /\ TowerOf(id) \in Towers
    BY <1>2 DEF Resolves
  <2>2. id = TowerId(TowerOf(id))
    BY WorldConstants DEF TowerId, TowerOf
  <2> QED
    BY <2>1, <2>2, NumberedFromZero DEF EntityAt, Handle
<1> QED
  BY <1>1, <1>2
-----------------------------------------------------------------------------
(* The phases of a tick.                                                   *)

LEMMA LaunchStays ==
  ASSUME NEW w \in Undecided, NEW s \in Places, NEW direction \in Int, FreeSlots(w) # {}
  PROVE  Launch(w, s, direction) \in Undecided
<1> DEFINE slot == Lowest(FreeSlots(w))
           shot == Launched(w, s, direction)
<1>1. slot \in Slots
  <2>1. FreeSlots(w) \in SUBSET Nat /\ FreeSlots(w) \subseteq Slots
    BY DEF FreeSlots, Slots
  <2>2. \E i \in FreeSlots(w) : \A j \in FreeSlots(w) : i <= j
    BY <2>1, Commands!LeastNumber
  <2> QED
    BY <2>1, <2>2 DEF Lowest
<1>2. shot \in Shot
  <2>1. Sign(direction) * Rules.skillshot_speed \in Int
    BY RulesAre DEF Sign
  <2>2. w.next_projectile_id \in PROJECTILE_ID_BASE..ID_MAX /\ w.champions[s].at \in Int
    BY ChampionIs DEF Undecided, Worlds
  <2> QED
    BY <2>1, <2>2, RulesAre DEF Launched, Shot
<1>3. PutShot(w, slot, shot) \in Undecided
  BY <1>1, <1>2, PutShotStays
<1>4. NextId(w.next_projectile_id) \in PROJECTILE_ID_BASE..ID_MAX
  BY WorldConstants DEF NextId, Undecided, Worlds
<1>5. PICK v \in Undecided, id \in PROJECTILE_ID_BASE..ID_MAX :
        v = PutShot(w, slot, shot) /\ id = NextId(w.next_projectile_id)
  BY <1>3, <1>4
<1>6. Launch(w, s, direction) = [v EXCEPT !.next_projectile_id = id]
  BY <1>5 DEF Launch
<1> QED
  BY <1>6 DEF Undecided, Worlds

LEMMA CastSkillshotStays ==
  ASSUME NEW w \in Undecided, NEW s \in Places, NEW direction \in Int
  PROVE  CastSkillshot(w, s, direction) \in Undecided
<1> DEFINE c     == w.champions[s]
           cast  == Launch(w, s, direction)
           cool  == Resting(c, "skillshot", Rules.skillshot_cooldown_ticks)
           told  == Cast(s, "Skillshot", c.at)
<1> SUFFICES ASSUME FreeSlots(w) # {} PROVE Emit(PutChampion(cast, s, cool), told) \in Undecided
  BY DEF CastSkillshot
<1>1. cool \in Champion /\ c.at \in Int
  BY ChampionIs, ChampionChanges, RulesAre DEF Undecided
<1>2. told \in Event
  BY <1>1 DEF Cast, Event
<1>3. cast \in Undecided
  BY LaunchStays
<1> HIDE DEF cast, cool, told
<1> QED
  BY <1>1, <1>2, <1>3, PutChampionStays, EmitStays

LEMMA CastTargetedStays ==
  ASSUME NEW w \in Undecided, NEW s \in Places, NEW id \in Nat
  PROVE  CastTargeted(w, s, id) \in Undecided
<1> DEFINE told == Emit(w, Cast(s, "Targeted", w.champions[s].at))
           hurt == Hurt(told, id, Rules.targeted_damage)
<1> SUFFICES ASSUME Resolves(w, id)
             PROVE  PutChampion(hurt, s, Resting(hurt.champions[s], "targeted",
                                                 Rules.targeted_cooldown_ticks)) \in Undecided
  BY DEF CastTargeted
<1>1. w.champions[s].at \in Int
  BY ChampionIs DEF Undecided
<1>2. Cast(s, "Targeted", w.champions[s].at) \in Event
  BY <1>1 DEF Cast, Event
<1>3. told \in Undecided
  BY <1>2, EmitStays
<1>4. hurt \in Undecided
  BY <1>3, HandleIs, HurtStays, RulesAre
<1> HIDE DEF hurt
<1>5. Resting(hurt.champions[s], "targeted", Rules.targeted_cooldown_ticks) \in Champion
  BY <1>4, ChampionIs, ChampionChanges, RulesAre DEF Undecided
<1> QED
  BY <1>4, <1>5, PutChampionStays

LEMMA SetOrderStays ==
  ASSUME NEW w \in Undecided, NEW s \in Places, NEW order \in Order
  PROVE  SetOrder(w, s, order) \in Undecided
BY ChampionIs, ChampionChanges, PutChampionStays DEF SetOrder, Undecided

LEMMA ApplyInputStays ==
  ASSUME NEW w \in Undecided, NEW input \in Ordering
  PROVE  ApplyInput(w, input) \in Undecided
<1> DEFINE s == input.player  a == input.action
<1>1. s \in Places /\ a \in Action
  BY DEF Ordering
<1> SUFFICES ASSUME ~(input.tick # w.tick \/ ~Alive(w, s))
             PROVE  ApplyInput(w, input) \in Undecided
  BY DEF ApplyInput
<1>2. CASE a.kind = "Idle"
  <2>1. Idle \in Order
    BY DEF Idle, Order
  <2> QED
    BY <1>1, <1>2, <2>1, SetOrderStays DEF ApplyInput
<1>3. CASE a.kind = "MoveTo"
  <2>1. a.to \in Int
    BY <1>1, <1>3 DEF Action
  <2>2. MoveTo(Clamp(a.to)) \in Order
    BY <2>1, ClampStays, RulesAre DEF MoveTo, Order, Ground
  <2> QED
    BY <1>1, <1>3, <2>2, SetOrderStays DEF ApplyInput
<1>4. CASE a.kind = "Attack"
  <2>1. a \in Order
    BY <1>1, <1>4 DEF Action, Order
  <2> QED
    BY <1>1, <1>4, <2>1, SetOrderStays DEF ApplyInput
<1>5. CASE a.kind = "Skillshot"
  <2>1. a.direction \in Int
    BY <1>1, <1>5 DEF Action
  <2> QED
    BY <1>1, <1>5, <2>1, CastSkillshotStays DEF ApplyInput
<1>6. CASE a.kind = "Targeted"
  <2>1. a.target \in Nat
    BY <1>1, <1>6 DEF Action
  <2> QED
    BY <1>1, <1>6, <2>1, CastTargetedStays DEF ApplyInput
<1>7. a.kind \in {"Idle", "MoveTo", "Attack", "Skillshot", "Targeted"}
  BY <1>1 DEF Action
<1> QED
  BY <1>2, <1>3, <1>4, <1>5, <1>6, <1>7
LEMMA SteppedStays ==
  ASSUME NEW p \in Int, NEW q \in Int
  PROVE  Stepped(p, q) \in Ground
<1>1. Sign(q - p) \in Int /\ Sign(q - p) * Rules.champion_speed \in Int
  BY RulesAre DEF Sign
<1>2. p + Sign(q - p) * Rules.champion_speed \in Int
  BY <1>1
<1> QED
  BY <1>2, ClampStays DEF Stepped

LEMMA DestinationIs ==
  ASSUME NEW w \in Undecided, NEW s \in Places
  PROVE  Destination(w, s) \in Int
<1> DEFINE c == w.champions[s]
<1>1. c \in Champion /\ c.at \in Int /\ c.order \in Order
  BY ChampionIs DEF Undecided
<1>2. CASE c.order.kind = "MoveTo"
  BY <1>1, <1>2 DEF Order, Destination
<1>3. CASE c.order.kind = "Attack"
  <2>1. c.order.target \in Nat
    BY <1>1, <1>3 DEF Order
  <2>2. Resolves(w, c.order.target) => EntityAt(w, c.order.target) \in Int
    BY <2>1, HandleIs
  <2> QED
    BY <1>1, <1>3, <2>2 DEF Destination
<1>4. CASE c.order.kind \notin {"MoveTo", "Attack"}
  BY <1>1, <1>4 DEF Destination
<1> QED
  BY <1>2, <1>3, <1>4

LEMMA MoveChampionStays ==
  ASSUME NEW w \in Undecided, NEW s \in Places
  PROVE  MoveChampion(w, s) \in Undecided
<1> DEFINE c == w.champions[s]
<1>1. c \in Champion /\ c.at \in Int
  BY ChampionIs DEF Undecided
<1>2. Stepped(c.at, Destination(w, s)) \in Ground
  BY <1>1, DestinationIs, SteppedStays
<1>3. Moved(c, Stepped(c.at, Destination(w, s))) \in Champion
  BY <1>1, <1>2, ChampionChanges
<1> QED
  BY <1>3, PutChampionStays DEF MoveChampion

(* The first of a few handles is one of them.                              *)
LEMMA LowestIs ==
  ASSUME NEW S \in SUBSET Nat, S # {}
  PROVE  Lowest(S) \in S
<1>1. \E i \in S : \A j \in S : i <= j
  BY Commands!LeastNumber
<1> QED
  BY <1>1 DEF Lowest

LEMMA HandlesAreNumbers == Handle \subseteq Nat /\ Places \subseteq Handle
BY NumberedFromZero DEF Handle

LEMMA AdvanceProjectileStays ==
  ASSUME NEW w \in Undecided, NEW slot \in Slots
  PROVE  AdvanceProjectile(w, slot) \in Undecided
<1> SUFFICES ASSUME w.projectiles[slot] # Empty
             PROVE  AdvanceProjectile(w, slot) \in Undecided
  BY DEF AdvanceProjectile
<1>1. PICK p : p = Flown(w.projectiles[slot])
  OBVIOUS
<1>2. p \in Shot
  <2>1. PICK q \in Shot : q = w.projectiles[slot]
    BY DEF Undecided, Worlds
  <2>2. PICK n \in Nat : n = OneLess(q.remaining)
    BY DEF Shot, OneLess, AtLeast
  <2>3. PICK a \in Int : a = q.at + q.velocity
    BY DEF Shot
  <2>4. p = [q EXCEPT !.at = a, !.remaining = n]
    BY <1>1, <2>1, <2>2, <2>3 DEF Flown, Shot, OneLess
  <2> QED
    BY <2>4 DEF Shot
<1>3. CASE Overlapped(w, p) # {}
  <2>1. Overlapped(w, p) \subseteq Handle
    BY DEF Overlapped, Handle
  <2>2. Lowest(Overlapped(w, p)) \in Handle
    BY <1>3, <2>1, LowestIs, HandlesAreNumbers
  <2>3. Hurt(w, Lowest(Overlapped(w, p)), Rules.skillshot_damage) \in Undecided
    BY <2>2, HurtStays, RulesAre
  <2>4. AdvanceProjectile(w, slot) =
          PutShot(Hurt(w, Lowest(Overlapped(w, p)), Rules.skillshot_damage), slot, Empty)
    BY <1>1, <1>3 DEF AdvanceProjectile
  <2> QED
    BY <2>3, <2>4, PutShotStays
<1>4. CASE Overlapped(w, p) = {}
  <2>1. AdvanceProjectile(w, slot) = PutShot(w, slot, Empty) \/ AdvanceProjectile(w, slot) = PutShot(w, slot, p)
    BY <1>1, <1>4 DEF AdvanceProjectile
  <2> QED
    BY <1>2, <2>1, PutShotStays
<1> QED
  BY <1>3, <1>4

LEMMA FireTowerStays ==
  ASSUME NEW w \in Undecided, NEW t \in Towers
  PROVE  FireTower(w, t) \in Undecided
<1> DEFINE hurt == Hurt(w, Lowest(InTowerRange(w, t)), Rules.tower_damage)
<1> SUFFICES ASSUME InTowerRange(w, t) # {}
             PROVE  PutTower(hurt, t, Reloading(hurt.towers[t])) \in Undecided
  BY DEF FireTower
<1>1. InTowerRange(w, t) \subseteq Handle
  BY HandlesAreNumbers DEF InTowerRange
<1>2. Lowest(InTowerRange(w, t)) \in Handle
  BY <1>1, LowestIs, HandlesAreNumbers
<1>3. hurt \in Undecided
  BY <1>2, HurtStays, RulesAre
<1> HIDE DEF hurt
<1>4. Reloading(hurt.towers[t]) \in Tower
  BY <1>3, TowerChanges DEF Undecided, Worlds
<1> QED
  BY <1>3, <1>4, PutTowerStays

LEMMA BasicAttackStays ==
  ASSUME NEW w \in Undecided, NEW s \in Places
  PROVE  BasicAttack(w, s) \in Undecided
<1> DEFINE c    == w.champions[s]
           hurt == Hurt(w, c.order.target, Rules.attack_damage)
<1> SUFFICES ASSUME c.order.kind = "Attack", Resolves(w, c.order.target)
             PROVE  PutChampion(hurt, s, Resting(hurt.champions[s], "basic",
                                                 Rules.attack_cooldown_ticks)) \in Undecided
  BY DEF BasicAttack
<1>1. c.order \in Order
  BY ChampionIs DEF Undecided
<1>2. c.order.target \in Nat
  BY <1>1 DEF Order
<1>3. hurt \in Undecided
  BY <1>2, HandleIs, HurtStays, RulesAre
<1> HIDE DEF hurt
<1>4. Resting(hurt.champions[s], "basic", Rules.attack_cooldown_ticks) \in Champion
  BY <1>3, ChampionIs, ChampionChanges, RulesAre DEF Undecided
<1> QED
  BY <1>3, <1>4, PutChampionStays

LEMMA AnnounceStays ==
  ASSUME NEW w \in Undecided, NEW died \in Passing
  PROVE  Announce(w, died) \in Undecided /\ Announce(w, died).towers = w.towers
<1>1. Death(died.who, died.at) \in Event
  BY DEF Passing, Death, Event
<1> QED
  BY <1>1, EmitStays DEF Announce
(* The phases that look at everybody at once.                              *)
LEMMA QuietStays ==
  ASSUME NEW w \in Undecided
  PROVE  Quiet(w) \in Undecided
BY EmptySeq DEF Quiet, Undecided, Worlds

LEMMA TickCooldownsStays ==
  ASSUME NEW w \in Undecided
  PROVE  TickCooldowns(w) \in Undecided
<1>1. PICK cs : cs = [s \in Places |-> Cooler(w.champions[s])]
  OBVIOUS
<1>2. PICK ts : ts = [t \in Towers |-> CoolerTower(w.towers[t])]
  OBVIOUS
<1>3. cs \in [Places -> Champion]
  BY <1>1, ChampionIs, ChampionChanges DEF Undecided
<1>4. ts \in [Towers -> Tower]
  BY <1>2, TowerChanges DEF Undecided, Worlds
<1>5. TickCooldowns(w) = [w EXCEPT !.champions = cs, !.towers = ts]
  BY <1>1, <1>2 DEF TickCooldowns
<1> QED
  BY <1>3, <1>4, <1>5 DEF Undecided, Worlds

LEMMA ChampionsStay ==
  ASSUME NEW w \in Undecided, NEW cs \in [Places -> Champion]
  PROVE  [w EXCEPT !.champions = cs] \in Undecided
BY DEF Undecided, Worlds

LEMMA GrantRespawnsStays ==
  ASSUME NEW w \in Undecided
  PROVE  GrantRespawns(w) \in Undecided
<1>1. PICK cs : cs = [s \in Places |-> IF ~Alive(w, s) /\ w.tick >= w.champions[s].respawn_at
                                      THEN Fresh(s) ELSE w.champions[s]]
  OBVIOUS
<1>2. cs \in [Places -> Champion]
  BY <1>1, ChampionIs, FreshStays DEF Undecided
<1> QED
  BY <1>1, <1>2, ChampionsStay DEF GrantRespawns

LEMMA BuriedStays ==
  ASSUME NEW w \in Undecided
  PROVE  Buried(w) \in Undecided
<1>1. PICK cs : cs = [s \in Places |-> IF s \in Dying(w) THEN Body(w.champions[s], s, w.tick)
                                      ELSE w.champions[s]]
  OBVIOUS
<1>2. ASSUME NEW s \in Places PROVE Body(w.champions[s], s, w.tick) \in Champion
  <2>1. w.tick + Rules.respawn_ticks \in Nat
    <3>1. w.tick \in Nat
      BY DEF Undecided, Worlds
    <3> QED
      BY <3>1, RulesAre
  <2>2. Idle \in Order /\ SpawnAt[s] \in Ground /\ w.champions[s].cooldowns \in Cooldowns
    BY NumberedFromZero, ChampionIs DEF Idle, Order, Undecided
  <2> QED
    BY <2>1, <2>2 DEF Body, Champion, Dead
<1>3. cs \in [Places -> Champion]
  BY <1>1, <1>2, ChampionIs DEF Undecided
<1> QED
  BY <1>1, <1>3, ChampionsStay DEF Buried

(* Where the folds go along.                                               *)
LEMMA OrdersAre ==
  /\ SeatOrder \in Seq(Places) /\ TowerOrder \in Seq(Towers) /\ SlotOrder \in Seq(Slots)
  /\ \A i \in DOMAIN SeatOrder : SeatOrder[i] \in Places
<1>1. Cardinality(Places) \in Nat /\ Cardinality(Towers) \in Nat
  BY WorldConstants, FS_CardinalityType DEF Places, Towers
<1>2. SeatOrder \in [1..Cardinality(Places) -> Places]
  BY <1>1, WorldConstants DEF SeatOrder, Places
<1>3. TowerOrder \in [1..Cardinality(Towers) -> Towers]
  BY <1>1, WorldConstants DEF TowerOrder, Towers
<1>4. SlotOrder \in [1..MAX_PROJECTILES -> Slots]
  BY DEF SlotOrder, Slots
<1>5. SeatOrder \in Seq(Places) /\ \A i \in DOMAIN SeatOrder : SeatOrder[i] \in Places
  BY <1>1, <1>2, SeqDef
<1>6. TowerOrder \in Seq(Towers)
  BY <1>1, <1>3, SeqDef
<1>7. SlotOrder \in Seq(Slots)
  BY <1>4, SeqDef, WorldConstants
<1> QED
  BY <1>5, <1>6, <1>7

LEMMA DiedIs ==
  ASSUME NEW w \in Undecided
  PROVE  Died(w) \in Seq(Passing)
<1>1. Cardinality(Places) \in Nat
  BY WorldConstants, FS_CardinalityType DEF Places
<1>2. DOMAIN SeatOrder = 1..Cardinality(Places)
  BY DEF SeatOrder
<1>3. ASSUME NEW i \in DOMAIN SeatOrder
      PROVE  [who |-> SeatOrder[i], fell |-> SeatOrder[i] \in Dying(w),
              at |-> w.champions[SeatOrder[i]].at] \in Passing
  <2>1. PICK s \in Places : s = SeatOrder[i]
    BY OrdersAre
  <2>2. w.champions[s].at \in Int
    BY ChampionIs DEF Undecided
  <2>3. (s \in Dying(w)) \in BOOLEAN
    OBVIOUS
  <2> QED
    BY <2>1, <2>2, <2>3 DEF Passing
<1>4. Died(w) \in [1..Cardinality(Places) -> Passing]
  BY <1>2, <1>3 DEF Died
<1> QED
  BY <1>1, <1>4, SeqDef

(* A fold of what keeps a world undecided keeps it undecided.              *)
LEMMA PhasesStay ==
  ASSUME NEW w \in Undecided
  PROVE  /\ \A inputs \in Seq(Ordering) : FoldLeft(ApplyInput, w, inputs) \in Undecided
         /\ FoldLeft(MoveChampion, w, SeatOrder) \in Undecided
         /\ FoldLeft(AdvanceProjectile, w, SlotOrder) \in Undecided
         /\ FoldLeft(FireTower, w, TowerOrder) \in Undecided
         /\ FoldLeft(BasicAttack, w, SeatOrder) \in Undecided
         /\ ResolveDeaths(w) \in Undecided
<1>1. ASSUME NEW inputs \in Seq(Ordering) PROVE FoldLeft(ApplyInput, w, inputs) \in Undecided
  <2>1. FoldLeft(ApplyInput, w, inputs) = Commands!Folded(w, inputs)
    BY DEF FoldLeft, MapThenFoldSet, Max, Commands!Folded, Commands!Greatest
  <2>2. PICK run \in [0..Len(inputs) -> Undecided] : Commands!Folded(w, inputs) = run[Len(inputs)]
    BY ApplyInputStays, Commands!FoldRuns
  <2> QED
    BY <2>1, <2>2, LenProperties
<1>2. FoldLeft(MoveChampion, w, SeatOrder) \in Undecided
  <2>1. FoldLeft(MoveChampion, w, SeatOrder) = Moves!Folded(w, SeatOrder)
    BY DEF FoldLeft, MapThenFoldSet, Max, Moves!Folded, Moves!Greatest
  <2>2. PICK run \in [0..Len(SeatOrder) -> Undecided] : Moves!Folded(w, SeatOrder) = run[Len(SeatOrder)]
    BY OrdersAre, MoveChampionStays, Moves!FoldRuns
  <2> QED
    BY <2>1, <2>2, OrdersAre, LenProperties, SMTT(40)
<1>3. FoldLeft(AdvanceProjectile, w, SlotOrder) \in Undecided
  <2>1. FoldLeft(AdvanceProjectile, w, SlotOrder) = Flights!Folded(w, SlotOrder)
    BY DEF FoldLeft, MapThenFoldSet, Max, Flights!Folded, Flights!Greatest
  <2>2. PICK run \in [0..Len(SlotOrder) -> Undecided] : Flights!Folded(w, SlotOrder) = run[Len(SlotOrder)]
    BY OrdersAre, AdvanceProjectileStays, Flights!FoldRuns
  <2> QED
    BY <2>1, <2>2, OrdersAre, LenProperties
<1>4. FoldLeft(FireTower, w, TowerOrder) \in Undecided
  <2>1. FoldLeft(FireTower, w, TowerOrder) = Volleys!Folded(w, TowerOrder)
    BY DEF FoldLeft, MapThenFoldSet, Max, Volleys!Folded, Volleys!Greatest
  <2>2. PICK run \in [0..Len(TowerOrder) -> Undecided] : Volleys!Folded(w, TowerOrder) = run[Len(TowerOrder)]
    BY OrdersAre, FireTowerStays, Volleys!FoldRuns
  <2> QED
    BY <2>1, <2>2, OrdersAre, LenProperties
<1>5. FoldLeft(BasicAttack, w, SeatOrder) \in Undecided
  <2>1. FoldLeft(BasicAttack, w, SeatOrder) = Fights!Folded(w, SeatOrder)
    BY DEF FoldLeft, MapThenFoldSet, Max, Fights!Folded, Fights!Greatest
  <2>2. PICK run \in [0..Len(SeatOrder) -> Undecided] : Fights!Folded(w, SeatOrder) = run[Len(SeatOrder)]
    BY OrdersAre, BasicAttackStays, Fights!FoldRuns
  <2> QED
    BY <2>1, <2>2, OrdersAre, LenProperties, SMTT(40)
<1>6. ResolveDeaths(w) \in Undecided
  <2>1. FoldLeft(Announce, Buried(w), Died(w)) = Deaths!Folded(Buried(w), Died(w))
    BY DEF FoldLeft, MapThenFoldSet, Max, Deaths!Folded, Deaths!Greatest
  <2>2. Buried(w) \in Undecided /\ Died(w) \in Seq(Passing)
    BY BuriedStays, DiedIs
  <2>3. PICK run \in [0..Len(Died(w)) -> Undecided] : Deaths!Folded(Buried(w), Died(w)) = run[Len(Died(w))]
    BY <2>2, AnnounceStays, Deaths!FoldRuns
  <2> QED
    BY <2>1, <2>2, <2>3, LenProperties DEF ResolveDeaths
<1> QED
  BY <1>1, <1>2, <1>3, <1>4, <1>5, <1>6
-----------------------------------------------------------------------------
(* What every tick leaves.                                                 *)

(* WinnerStands, of any world.                                             *)
Stands(w) ==
  /\ w.outcome # InProgress <=> Cardinality(TeamsStanding(w)) <= 1
  /\ w.outcome # InProgress =>
       \/ TeamsStanding(w) = {w.outcome.winner}
       \/ TeamsStanding(w) = {} /\ w.outcome.winner = Head(Teams)

LEMMA TeamsAre ==
  ASSUME NEW w \in Worlds
  PROVE  /\ TeamsStanding(w) \subseteq Winners /\ IsFiniteSet(TeamsStanding(w))
         /\ Cardinality(TeamsStanding(w)) \in Nat
         /\ Cardinality(TeamsStanding(w)) <= 1 <=>
              TeamsStanding(w) = {} \/ \E t \in Winners : TeamsStanding(w) = {t}
<1> DEFINE S == TeamsStanding(w)
<1>1. S \subseteq {TowerTeam[t] : t \in Towers} /\ S \subseteq Winners
  BY DEF TeamsStanding, Winners
<1>2. IsFiniteSet({TowerTeam[t] : t \in Towers})
  <2>1. PICK f : f = [t \in Towers |-> TowerTeam[t]]
    OBVIOUS
  <2>2. f \in Surjection(Towers, {TowerTeam[t] : t \in Towers})
    BY <2>1 DEF Surjection
  <2> QED
    BY <2>2, WorldConstants, FS_Surjection DEF Towers
<1>3. IsFiniteSet(S) /\ Cardinality(S) \in Nat
  BY <1>1, <1>2, FS_Subset, FS_CardinalityType
<1> HIDE DEF S
<1>4. Cardinality(S) <= 1 <=> Cardinality(S) = 0 \/ Cardinality(S) = 1
  BY <1>3
<1>5. Cardinality(S) = 0 <=> S = {}
  BY <1>3, FS_EmptySet
<1>6. Cardinality(S) = 1 <=> \E t : S = {t}
  BY <1>3, FS_Singleton
<1>7. (\E t : S = {t}) <=> \E t \in Winners : S = {t}
  BY <1>1 DEF S
<1>8. Cardinality(S) <= 1 <=> S = {} \/ \E t \in Winners : S = {t}
  BY <1>4, <1>5, <1>6, <1>7
<1> QED
  BY <1>1, <1>3, <1>8 DEF S

LEMMA LaterStays ==
  ASSUME NEW w \in Worlds
  PROVE  /\ Later(w) \in Worlds /\ TeamsStanding(Later(w)) = TeamsStanding(w)
         /\ Later(w).outcome = w.outcome
<1>1. Later(w) \in Worlds /\ Later(w).towers = w.towers /\ Later(w).outcome = w.outcome
  BY DEF Later, Worlds
<1> QED
  BY <1>1 DEF TeamsStanding, Standing

LEMMA DecideOutcomeStays ==
  ASSUME NEW w \in Undecided
  PROVE  DecideOutcome(w) \in Worlds /\ Stands(DecideOutcome(w))
<1> DEFINE S == TeamsStanding(w)
<1>0. w \in Worlds /\ w.outcome = InProgress
  BY DEF Undecided
<1>1. CASE Cardinality(S) > 1
  <2>1. DecideOutcome(w) = w
    BY <1>1 DEF DecideOutcome
  <2> QED
    BY <1>0, <1>1, <2>1, TeamsAre DEF Stands
<1>2. CASE ~(Cardinality(S) > 1)
  <2>1. PICK t : t = IF S = {} THEN Head(Teams) ELSE CHOOSE u \in S : TRUE
    OBVIOUS
  <2>2. Cardinality(S) <= 1 /\ (S = {} \/ \E u \in Winners : S = {u})
    BY <1>0, <1>2, TeamsAre
  <2>3. t \in Winners /\ (S = {t} \/ (S = {} /\ t = Head(Teams)))
    <3> HIDE DEF S
    <3>1. CASE S = {}
      BY <2>1, <3>1 DEF Winners
    <3>2. CASE S # {}
      <4>1. PICK u \in Winners : S = {u}
        BY <2>2, <3>2
      <4>2. t = CHOOSE x \in S : TRUE
        BY <2>1, <3>2
      <4>3. t \in S
        BY <3>2, <4>2
      <4>4. t = u
        BY <4>1, <4>3
      <4> QED
        BY <4>1, <4>4
    <3> QED
      BY <3>1, <3>2
  <2>4. PICK o \in Outcome : o = Decided(t, w.tick)
    BY <2>3 DEF Outcome, Undecided, Worlds
  <2>5. o # InProgress /\ o.winner = t
    BY <2>4 DEF Decided, InProgress
  <2>6. DecideOutcome(w) = [w EXCEPT !.outcome = o]
    BY <1>0, <1>2, <2>1, <2>4 DEF DecideOutcome
  <2>7. PICK v \in Worlds : v = DecideOutcome(w) /\ v.outcome = o /\ v.towers = w.towers
    BY <1>0, <2>6, SMTT(40) DEF Worlds
  <2>8. TeamsStanding(v) = S
    BY <2>7 DEF TeamsStanding, Standing
  <2> QED
    BY <2>2, <2>3, <2>5, <2>7, <2>8 DEF Stands
<1> QED
  BY <1>1, <1>2

LEMMA StepStays ==
  ASSUME NEW w \in Worlds, NEW inputs \in Seq(Ordering), Stands(w)
  PROVE  Step(w, inputs) \in Worlds /\ Stands(Step(w, inputs))
<1>1. CASE w.outcome = InProgress
  <2>1. w \in Undecided
    BY <1>1 DEF Undecided
  <2>2. PICK a \in Undecided : a = GrantRespawns(TickCooldowns(Quiet(w)))
    BY <2>1, QuietStays, TickCooldownsStays, GrantRespawnsStays
  <2>3. PICK b \in Undecided : b = FoldLeft(ApplyInput, a, inputs)
    BY PhasesStay
  <2>4. PICK c \in Undecided : c = FoldLeft(MoveChampion, b, SeatOrder)
    BY PhasesStay
  <2>5. PICK d \in Undecided : d = FoldLeft(AdvanceProjectile, c, SlotOrder)
    BY PhasesStay
  <2>6. PICK e \in Undecided : e = FoldLeft(FireTower, d, TowerOrder)
    BY PhasesStay
  <2>7. PICK f \in Undecided : f = FoldLeft(BasicAttack, e, SeatOrder)
    BY PhasesStay
  <2>8. PICK g \in Worlds : g = DecideOutcome(ResolveDeaths(f)) /\ Stands(g)
    BY PhasesStay, DecideOutcomeStays
  <2>9. Step(w, inputs) = Later(g)
    BY <1>1, <2>2, <2>3, <2>4, <2>5, <2>6, <2>7, <2>8 DEF Step, Played
  <2>10. Later(g) \in Worlds /\ TeamsStanding(Later(g)) = TeamsStanding(g) /\ Later(g).outcome = g.outcome
    BY LaterStays
  <2> QED
    BY <2>8, <2>9, <2>10 DEF Stands
<1>2. CASE w.outcome # InProgress
  <2>1. PICK v \in Worlds : v = Quiet(w) /\ v.towers = w.towers /\ v.outcome = w.outcome
    <3>1. <<>> \in Seq(Event)
      BY EmptySeq
    <3>2. Quiet(w) \in Worlds
      BY <3>1 DEF Quiet, Worlds
    <3>3. Quiet(w).towers = w.towers /\ Quiet(w).outcome = w.outcome
      BY DEF Quiet, Worlds
    <3> QED
      BY <3>2, <3>3
  <2>2. TeamsStanding(v) = TeamsStanding(w)
    BY <2>1 DEF TeamsStanding, Standing
  <2>3. Step(w, inputs) = Later(v)
    BY <1>2, <2>1 DEF Step
  <2>4. Later(v) \in Worlds /\ TeamsStanding(Later(v)) = TeamsStanding(v) /\ Later(v).outcome = v.outcome
    BY LaterStays
  <2> QED
    BY <2>1, <2>2, <2>3, <2>4 DEF Stands
<1> QED
  BY <1>1, <1>2

LEMMA SlicesAre ==
  ASSUME NEW w \in Worlds, NEW inputs \in Slices(w)
  PROVE  inputs \in Seq(Ordering)
<1>1. PICK n \in 0..PerSlice : inputs \in [1..n -> {i \in Inputs(w) : i.action \in Vocabulary[i.player]}]
  BY DEF Slices
<1>2. n \in Nat
  BY <1>1
<1>3. ASSUME NEW i \in Inputs(w), i.action \in Vocabulary[i.player] PROVE i \in Ordering
  <2>1. i.player \in Places /\ i.tick = w.tick /\ w.tick \in Int
    BY DEF Inputs, Worlds
  <2>2. i.action \in Action
    BY <1>3, <2>1, WorldConstants DEF Places
  <2> QED
    BY <2>1, <2>2 DEF Inputs, Ordering
<1>4. inputs \in [1..n -> Ordering]
  BY <1>1, <1>3
<1> QED
  BY <1>2, <1>4, SeqDef

LEMMA NewWorldIs == NewWorld \in Worlds /\ Stands(NewWorld)
<1>1. NewWorld.champions \in [Places -> Champion]
  BY FreshStays DEF NewWorld
<1>2. [hp |-> Rules.tower_max_hp, cooldown |-> 0] \in Tower
  BY RulesAre DEF Tower
<1>3. NewWorld.towers \in [Towers -> Tower] /\ NewWorld.projectiles \in [Slots -> Shot \cup {Empty}]
  BY <1>2 DEF NewWorld
<1>4. NewWorld.next_projectile_id \in PROJECTILE_ID_BASE..ID_MAX /\ NewWorld.events \in Seq(Event)
      /\ NewWorld.tick \in Nat /\ NewWorld.outcome = InProgress /\ InProgress \in Outcome
  BY WorldConstants, EmptySeq DEF NewWorld, Outcome
<1>5. NewWorld \in Worlds
  BY <1>1, <1>3, <1>4 DEF NewWorld, Worlds
<1>6. \A t \in Towers : Standing(NewWorld, t)
  BY WorldConstants DEF NewWorld, Standing
<1>7. TeamsStanding(NewWorld) = {TowerTeam[t] : t \in Towers}
  BY <1>6 DEF TeamsStanding
<1>8. PICK t \in Towers, u \in Towers : TowerTeam[t] # TowerTeam[u]
  BY WorldConstants DEF Towers
<1>9. ~(Cardinality(TeamsStanding(NewWorld)) <= 1)
  BY <1>5, <1>7, <1>8, TeamsAre
<1> QED
  BY <1>4, <1>5, <1>9 DEF Stands

WorldInv == world \in Worlds /\ Stands(world)

LEMMA WorldHolds == WorldSpec => []WorldInv
<1>1. WorldInit => WorldInv
  BY NewWorldIs DEF WorldInit, WorldInv
<1>2. WorldInv /\ [WorldNext]_world => WorldInv'
  BY SlicesAre, StepStays DEF WorldInv, WorldNext, PlayTick
<1> QED
  BY <1>1, <1>2, PTL DEF WorldSpec

(* Whatever the players do, every body stays on the map, every counter in  *)
(* its range, and every handle names somebody (step.rs, every phase).      *)
THEOREM WorldIsSound == WorldSpec => [](world \in Worlds)
<1>1. WorldInv => world \in Worlds
  BY DEF WorldInv
<1> QED
  BY <1>1, WorldHolds, PTL

(* A match is decided exactly when at most one team has a tower left, in   *)
(* the tick that makes it so, and the winner is that team for good.        *)
(* step.rs: decide_outcome().                                              *)
THEOREM TheWinnerStands == WorldSpec => []WinnerStands
<1>1. WorldInv => WinnerStands
  BY DEF WorldInv, Stands, WinnerStands
<1> QED
  BY <1>1, WorldHolds, PTL
-----------------------------------------------------------------------------
(* What a seat is shown.                                                   *)

(* Two worlds that agree on what a seat's team sees from, on what it sees  *)
(* there, and on the seat itself.                                          *)
SeenBy(w, player) ==
  {s \in Places \ {player} :
     Alive(w, s) /\ Sees(Eyes(w, SeatTeam[player]), w.champions[s].at)}

SameToSeat(v, w, player) ==
  LET eyes == Eyes(w, SeatTeam[player])
  IN  /\ Eyes(v, SeatTeam[player]) = eyes
      /\ v.tick = w.tick /\ v.outcome = w.outcome
      /\ v.champions[player] = w.champions[player]
      /\ SeenBy(v, player) = SeenBy(w, player)
      /\ \A s \in SeenBy(w, player) : /\ v.champions[s].at = w.champions[s].at
                                      /\ v.champions[s].hp = w.champions[s].hp
      /\ \A t \in Towers : Sees(eyes, TowerAt[t]) => v.towers[t].hp = w.towers[t].hp
      /\ Sighted(eyes, v.projectiles) = Sighted(eyes, w.projectiles)
      /\ ToldOf(eyes, v.events) = ToldOf(eyes, w.events)

LEMMA SameView ==
  ASSUME NEW v, NEW w, NEW player, SameToSeat(v, w, player)
  PROVE  ViewFor(v, player) = ViewFor(w, player)
<1>1. PICK eyes : eyes = Eyes(w, SeatTeam[player]) /\ eyes = Eyes(v, SeatTeam[player])
  BY DEF SameToSeat
<1>2. PICK seen : seen = SeenBy(w, player) /\ seen = SeenBy(v, player)
  BY DEF SameToSeat
<1> DEFINE own(u)       == [f \in DOMAIN u.champions[player] \ {"order"} |-> u.champions[player][f]]
           champions(u) == [s \in seen |-> [at |-> u.champions[s].at, hp |-> u.champions[s].hp]]
           towers(u)    == [t \in {x \in Towers : Sees(eyes, TowerAt[x])} |-> u.towers[t].hp]
           shots(u)     == Listed(Sighted(eyes, u.projectiles))
           told(u)      == ToldOf(eyes, u.events)
           all(u)       == [tick |-> u.tick, outcome |-> u.outcome, own |-> own(u), champions |-> champions(u),
                            towers |-> towers(u), projectiles |-> shots(u), events |-> told(u)]
<1>3. champions(v) = champions(w)
  BY <1>2 DEF SameToSeat
<1>4. towers(v) = towers(w)
  BY <1>1 DEF SameToSeat
<1>5. shots(v) = shots(w) /\ told(v) = told(w) /\ v.tick = w.tick /\ v.outcome = w.outcome /\ own(v) = own(w)
  BY <1>1 DEF SameToSeat
<1>6. seen = {s \in Places \ {player} : Alive(w, s) /\ Sees(eyes, w.champions[s].at)}
      /\ seen = {s \in Places \ {player} : Alive(v, s) /\ Sees(eyes, v.champions[s].at)}
  BY <1>1, <1>2 DEF SeenBy
<1>7. ViewFor(v, player) = all(v)
  BY <1>1, <1>6 DEF ViewFor
<1>8. ViewFor(w, player) = all(w)
  BY <1>1, <1>6 DEF ViewFor
<1> HIDE DEF own, champions, towers, shots, told
<1> QED
  BY <1>3, <1>4, <1>5, <1>7, <1>8
(* A champion of another team is not among a team's eyes.                  *)
LEMMA EnemyIsNoEye ==
  ASSUME NEW w \in Worlds, NEW s \in Places, NEW team, SeatTeam[s] # team, NEW c
  PROVE  /\ Eyes(PutChampion(w, s, c), team) = Eyes(w, team)
         /\ PutChampion(w, s, c).champions[s] = c
         /\ \A r \in Places : r # s => PutChampion(w, s, c).champions[r] = w.champions[r]
         /\ PutChampion(w, s, c).towers = w.towers /\ PutChampion(w, s, c).projectiles = w.projectiles
         /\ PutChampion(w, s, c).events = w.events /\ PutChampion(w, s, c).tick = w.tick
         /\ PutChampion(w, s, c).outcome = w.outcome
<1>1. PICK v : v = PutChampion(w, s, c)
  OBVIOUS
<1>2. /\ v.champions[s] = c /\ \A r \in Places : r # s => v.champions[r] = w.champions[r]
      /\ v.towers = w.towers /\ v.projectiles = w.projectiles /\ v.events = w.events
      /\ v.tick = w.tick /\ v.outcome = w.outcome
  <2>1. PICK cs : cs = [w.champions EXCEPT ![s] = c]
    OBVIOUS
  <2>2. v = [w EXCEPT !.champions = cs]
    BY <1>1, <2>1 DEF PutChampion
  <2>3. cs[s] = c /\ \A r \in Places : r # s => cs[r] = w.champions[r]
    BY <2>1 DEF Worlds
  <2>4. v.champions = cs /\ v.towers = w.towers /\ v.projectiles = w.projectiles /\ v.events = w.events
        /\ v.tick = w.tick /\ v.outcome = w.outcome
    BY <2>2 DEF Worlds
  <2> QED
    BY <2>3, <2>4
<1>3. {<<v.champions[r].at, Rules.champion_vision_radius>> :
         r \in {q \in Places : SeatTeam[q] = team /\ Alive(v, q)}}
        = {<<w.champions[r].at, Rules.champion_vision_radius>> :
             r \in {q \in Places : SeatTeam[q] = team /\ Alive(w, q)}}
  BY <1>2 DEF Alive
<1>4. {u \in Towers : TowerTeam[u] = team /\ Standing(v, u)}
        = {u \in Towers : TowerTeam[u] = team /\ Standing(w, u)}
  BY <1>2 DEF Standing
<1>5. Eyes(v, team) = Eyes(w, team)
  BY <1>3, <1>4 DEF Eyes
<1> QED
  BY <1>1, <1>2, <1>5

(* An enemy that differs in what is not shown of it.                       *)
LEMMA AnotherIsTheSame ==
  ASSUME NEW w \in Worlds, NEW s \in Places, NEW player \in Places, NEW c,
         SeatTeam[s] # SeatTeam[player],
         \/ /\ c.alive = w.champions[s].alive /\ c.at = w.champions[s].at
            /\ c.alive => c.hp = w.champions[s].hp
         \/ /\ Alive(w, s) => ~CanSee(w, SeatTeam[player], w.champions[s].at)
            /\ c.alive => ~CanSee(w, SeatTeam[player], c.at)
  PROVE  ViewFor(PutChampion(w, s, c), player) = ViewFor(w, player)
<1>1. PICK v : v = PutChampion(w, s, c)
  OBVIOUS
<1>2. /\ Eyes(v, SeatTeam[player]) = Eyes(w, SeatTeam[player])
      /\ v.champions[s] = c /\ \A r \in Places : r # s => v.champions[r] = w.champions[r]
      /\ v.towers = w.towers /\ v.projectiles = w.projectiles /\ v.events = w.events
      /\ v.tick = w.tick /\ v.outcome = w.outcome /\ player # s
  BY <1>1, EnemyIsNoEye, SMTT(40)
<1>3. PICK eyes : eyes = Eyes(w, SeatTeam[player])
  OBVIOUS
<1>4. \A r \in Places \ {player} :
        (Alive(v, r) /\ Sees(eyes, v.champions[r].at)) <=> (Alive(w, r) /\ Sees(eyes, w.champions[r].at))
  <2>1. ASSUME NEW r \in Places, r # s
        PROVE  Alive(v, r) = Alive(w, r) /\ v.champions[r] = w.champions[r]
    BY <1>2, <2>1 DEF Alive
  <2>2. (Alive(v, s) /\ Sees(eyes, v.champions[s].at)) <=> (Alive(w, s) /\ Sees(eyes, w.champions[s].at))
    BY <1>2, <1>3 DEF Alive, CanSee
  <2> QED
    BY <2>1, <2>2
<1>5. SeenBy(v, player) = SeenBy(w, player)
  BY <1>2, <1>3, <1>4 DEF SeenBy
<1>6. \A r \in SeenBy(w, player) : v.champions[r].at = w.champions[r].at /\ v.champions[r].hp = w.champions[r].hp
  BY <1>2 DEF SeenBy, CanSee, Alive
<1>7. SameToSeat(v, w, player)
  BY <1>2, <1>5, <1>6 DEF SameToSeat
<1> QED
  BY <1>1, <1>7, SameView

(* Whatever the match: no view tells of an enemy out of sight where it is  *)
(* or how it fares, nor of any enemy what it intends.  view.rs:            *)
(* view_for_with_rules(), "What a client cannot see, it does not receive". *)
THEOREM FogHidesEnemies == WorldSpec => []EnemiesAreHidden
<1>1. WorldInv => EnemiesAreHidden
  <2> SUFFICES ASSUME world \in Worlds, NEW player \in Places,
                      NEW other \in AnotherEnemy(world, SeatTeam[player])
               PROVE  ViewFor(other, player) = ViewFor(world, player)
    BY DEF WorldInv, EnemiesAreHidden, ShownTheSame
  <2> DEFINE team == SeatTeam[player]
  <2>1. CASE \E s \in Places : SeatTeam[s] # team /\ other = PutChampion(world, s, Scheming(world.champions[s]))
    <3>1. PICK s \in Places : SeatTeam[s] # team /\ other = PutChampion(world, s, Scheming(world.champions[s]))
      BY <2>1
    <3>2. PICK c \in Champion : c = world.champions[s]
      BY ChampionIs
    <3>3. Scheming(c).alive = c.alive /\ Scheming(c).at = c.at /\ (c.alive => Scheming(c).hp = c.hp)
      <4>0. MoveTo(0) \in Order
        BY DEF MoveTo, Order
      <4>1. PICK d \in Champion : d = Ordered(c, MoveTo(0)) /\ d.alive = c.alive /\ d.at = c.at
                                    /\ (c.alive => d.hp = c.hp)
        <5>1. PICK d \in Champion : d = Ordered(c, MoveTo(0))
          BY <4>0, ChampionChanges
        <5>2. CASE c \in Living
          BY <5>1, <5>2 DEF Ordered, Living
        <5>3. CASE c \in Dead
          BY <5>1, <5>3 DEF Ordered, Dead
        <5> QED
          BY <5>1, <5>2, <5>3 DEF Champion
      <4>2. PICK cooldowns : cooldowns = [d.cooldowns EXCEPT !["targeted"] = 9]
        OBVIOUS
      <4>3. Scheming(c) = [d EXCEPT !.cooldowns = cooldowns]
        BY <4>1, <4>2, Zenon DEF Scheming, Resting
      <4>4. CASE d \in Living
        BY <4>1, <4>3, <4>4 DEF Living
      <4>5. CASE d \in Dead
        BY <4>1, <4>3, <4>5 DEF Dead
      <4> QED
        BY <4>4, <4>5 DEF Champion
    <3> QED
      BY <3>1, <3>2, <3>3, AnotherIsTheSame
  <2>2. CASE \E s \in Places, p \in UnseenPoints(world, team) :
               Hidden(world, team, s) /\ other = PutChampion(world, s, Elsewhere(s, p))
    <3>1. PICK s \in Places, p \in UnseenPoints(world, team) :
            Hidden(world, team, s) /\ other = PutChampion(world, s, Elsewhere(s, p))
      BY <2>2
    <3>2. SeatTeam[s] # team /\ (Alive(world, s) => ~CanSee(world, team, world.champions[s].at))
      BY <3>1 DEF Hidden
    <3>3. Elsewhere(s, p).at = p
      BY DEF Elsewhere, Fresh
    <3>4. ~CanSee(world, team, p)
      BY <3>1 DEF UnseenPoints
    <3> QED
      BY <3>1, <3>2, <3>3, <3>4, AnotherIsTheSame
  <2> QED
    BY <2>1, <2>2 DEF AnotherEnemy
<1> QED
  BY <1>1, WorldHolds, PTL
(* A world with another arena shows a seat the same, if it shows the same  *)
(* shots.                                                                  *)
LEMMA ArenaIsAsSighted ==
  ASSUME NEW w \in Worlds, NEW ps, NEW player,
         Sighted(Eyes(w, SeatTeam[player]), ps) = Sighted(Eyes(w, SeatTeam[player]), w.projectiles)
  PROVE  ViewFor([w EXCEPT !.projectiles = ps], player) = ViewFor(w, player)
<1>1. PICK v : v = [w EXCEPT !.projectiles = ps]
  OBVIOUS
<1>2. /\ v.champions = w.champions /\ v.towers = w.towers /\ v.projectiles = ps
      /\ v.events = w.events /\ v.tick = w.tick /\ v.outcome = w.outcome
  BY <1>1 DEF Worlds
<1>3. Eyes(v, SeatTeam[player]) = Eyes(w, SeatTeam[player])
  BY <1>2 DEF Eyes, Alive, Standing
<1>4. SeenBy(v, player) = SeenBy(w, player)
  BY <1>2, <1>3 DEF SeenBy, Alive
<1>5. SameToSeat(v, w, player)
  BY <1>2, <1>3, <1>4 DEF SameToSeat
<1> QED
  BY <1>1, <1>5, SameView

(* Whatever the match: no view tells of a shot out of sight, nor whose any *)
(* shot is or how long it has left (view.rs: EntityView::Projectile).      *)
THEOREM FogHidesTheArena == WorldSpec => []ArenaIsHidden
<1>1. WorldInv => ArenaIsHidden
  <2> SUFFICES ASSUME world \in Worlds, NEW player \in Places,
                      NEW other \in AnotherArena(world, SeatTeam[player])
               PROVE  ViewFor(other, player) = ViewFor(world, player)
    BY DEF WorldInv, ArenaIsHidden, ShownTheSame
  <2>1. PICK eyes : eyes = Eyes(world, SeatTeam[player])
    OBVIOUS
  <2>2. PICK ps \in [Slots -> Shot \cup {Empty}] : ps = world.projectiles
    BY DEF Worlds
  <2>3. CASE other = Forgetting(world, SeatTeam[player])
    <3>1. PICK qs : qs = [i \in Slots |-> IF ps[i] # Empty /\ Sees(eyes, ps[i].at) THEN ps[i] ELSE Empty]
      OBVIOUS
    <3>2. other = [world EXCEPT !.projectiles = qs]
      BY <2>1, <2>2, <2>3, <3>1 DEF Forgetting
    <3>3. {i \in Slots : qs[i] # Empty /\ Sees(eyes, qs[i].at)}
            = {i \in Slots : ps[i] # Empty /\ Sees(eyes, ps[i].at)}
      BY <3>1
    <3>4. \A i \in Slots : ps[i] # Empty /\ Sees(eyes, ps[i].at) => qs[i] = ps[i]
      BY <3>1
    <3>5. Sighted(eyes, qs) = Sighted(eyes, ps)
      BY <3>3, <3>4 DEF Sighted
    <3> QED
      BY <2>1, <2>2, <3>2, <3>5, ArenaIsAsSighted
  <2>4. CASE other = [world EXCEPT !.projectiles = [i \in Slots |-> Disowned(world.projectiles[i])]]
    <3>1. PICK qs : qs = [i \in Slots |-> Disowned(ps[i])]
      OBVIOUS
    <3>2. other = [world EXCEPT !.projectiles = qs]
      BY <2>2, <2>4, <3>1
    <3>3. ASSUME NEW i \in Slots, ps[i] # Empty
          PROVE  qs[i] # Empty /\ qs[i].id = ps[i].id /\ qs[i].at = ps[i].at /\ qs[i].velocity = ps[i].velocity
      <4>1. PICK p \in Shot : p = ps[i]
        BY <3>3
      <4>2. qs[i] = [p EXCEPT !.owner = 0, !.remaining = 1]
        BY <3>1, <3>3, <4>1 DEF Disowned
      <4>3. qs[i].id = p.id /\ qs[i].at = p.at /\ qs[i].velocity = p.velocity
        BY <4>2 DEF Shot
      <4>4. "id" \in DOMAIN qs[i] /\ "id" \notin DOMAIN Empty
        BY <4>2 DEF Shot, Empty
      <4> QED
        BY <4>1, <4>3, <4>4
    <3>4. \A i \in Slots : ps[i] = Empty => qs[i] = Empty
      BY <3>1 DEF Disowned
    <3>5. {i \in Slots : qs[i] # Empty /\ Sees(eyes, qs[i].at)}
            = {i \in Slots : ps[i] # Empty /\ Sees(eyes, ps[i].at)}
      BY <3>3, <3>4
    <3>6. Sighted(eyes, qs) = Sighted(eyes, ps)
      BY <3>3, <3>5 DEF Sighted
    <3> QED
      BY <2>1, <2>2, <3>2, <3>6, ArenaIsAsSighted
  <2> QED
    BY <2>3, <2>4 DEF AnotherArena
<1> QED
  BY <1>1, WorldHolds, PTL

-----------------------------------------------------------------------------
(* What the events of a tick say of it.                                    *)

Costs == INSTANCE FoldLemmas WITH Op <- Taking, V <- [Handle -> Nat], E <- Event

(* From v to w nobody is hurt and nothing is told; nobody stirs.           *)
Unharmed(v, w) ==
  /\ w.events = v.events
  /\ \A s \in Places : /\ Alive(w, s) <=> Alive(v, s)
                       /\ Alive(v, s) => w.champions[s].hp = v.champions[s].hp
  /\ \A t \in Towers : w.towers[t].hp = v.towers[t].hp
Still(v, w) == \A s \in Places : w.champions[s].at = v.champions[s].at

(* What has been told so far is what became of everybody since a, if there *)
(* was room to tell it.                                                    *)
Accounts(a, w) ==
  /\ \A s \in Places :
       /\ Alive(w, s) <=> Alive(a, s)
       /\ Alive(a, s) => w.champions[s].hp = AtLeast(a.champions[s].hp - Amounts(w.events)[s], 0)
       /\ ~Alive(a, s) => Amounts(w.events)[s] = 0
  /\ \A t \in Towers : w.towers[t].hp = AtLeast(a.towers[t].hp - Amounts(w.events)[TowerId(t)], 0)
  /\ \A i \in DOMAIN w.events : w.events[i].kind # "Death"
Tally(a, w) == Len(w.events) < MAX_EVENTS => Accounts(a, w)

LEMMA TakingIs ==
  ASSUME NEW taken \in [Handle -> Nat], NEW e \in Event
  PROVE  /\ Taking(taken, e) \in [Handle -> Nat]
         /\ e.kind # "Damage" => Taking(taken, e) = taken
         /\ e.kind = "Damage" =>
              /\ e.who \in Handle /\ e.amount \in Nat
              /\ Taking(taken, e)[e.who] = taken[e.who] + e.amount
              /\ \A id \in Handle : id # e.who => Taking(taken, e)[id] = taken[id]
<1>1. CASE e.kind # "Damage"
  BY <1>1 DEF Taking
<1>2. CASE e.kind = "Damage"
  <2>1. e.who \in Handle /\ e.amount \in Nat
    BY <1>2 DEF Event
  <2>2. Taking(taken, e) = [taken EXCEPT ![e.who] = taken[e.who] + e.amount]
    BY <1>2 DEF Taking
  <2> QED
    BY <1>2, <2>1, <2>2
<1> QED
  BY <1>1, <1>2

LEMMA AmountsAre ==
  ASSUME NEW q \in Seq(Event)
  PROVE  /\ Amounts(q) \in [Handle -> Nat]
         /\ \A e \in Event : Amounts(Append(q, e)) = Taking(Amounts(q), e)
<1>1. Untouched \in [Handle -> Nat]
  BY DEF Untouched, Handle
<1>2. \A v \in [Handle -> Nat], e \in Event : Taking(v, e) \in [Handle -> Nat]
  BY TakingIs
<1>3. \A s : Amounts(s) = Costs!Folded(Untouched, s)
  BY DEF Amounts, FoldLeft, MapThenFoldSet, Max, Costs!Folded, Costs!Greatest
<1>4. /\ Costs!Folded(Untouched, q) \in [Handle -> Nat]
      /\ \A e \in Event : Costs!Folded(Untouched, Append(q, e)) = Taking(Costs!Folded(Untouched, q), e)
  <2>1. ASSUME NEW e \in Event
        PROVE  /\ Costs!Folded(Untouched, q) \in [Handle -> Nat]
               /\ Costs!Folded(Untouched, Append(q, e)) = Taking(Costs!Folded(Untouched, q), e)
    BY <1>1, <1>2, Costs!FoldAppends
  <2>2. PICK run \in [0..Len(q) -> [Handle -> Nat]] : Costs!Folded(Untouched, q) = run[Len(q)]
    BY <1>1, <1>2, Costs!FoldRuns
  <2> QED
    BY <2>1, <2>2, LenProperties
<1> QED
  BY <1>3, <1>4

LEMMA NothingCosts == Amounts(<<>>) = Untouched
<1>1. Untouched \in [Handle -> Nat]
  BY DEF Untouched, Handle
<1>2. \A v \in [Handle -> Nat], e \in Event : Taking(v, e) \in [Handle -> Nat]
  BY TakingIs
<1>3. Amounts(<<>>) = Costs!Folded(Untouched, <<>>)
  BY DEF Amounts, FoldLeft, MapThenFoldSet, Max, Costs!Folded, Costs!Greatest
<1> QED
  BY <1>1, <1>2, <1>3, Costs!FoldOfNothing

LEMMA UnharmedTells ==
  ASSUME NEW a, NEW v, NEW w, Unharmed(v, w), Tally(a, v)
  PROVE  Tally(a, w)
BY DEF Unharmed, Tally, Accounts

LEMMA EmitGrows ==
  ASSUME NEW w \in Undecided, NEW e \in Event, Len(Emit(w, e).events) < MAX_EVENTS
  PROVE  /\ Len(w.events) < MAX_EVENTS
         /\ w.events \in Seq(Event) /\ Emit(w, e).events = Append(w.events, e)
<1>1. w.events \in Seq(Event)
  BY DEF Undecided, Worlds
<1>2. Len(w.events) < MAX_EVENTS
  BY DEF Emit
<1> QED
  BY <1>1, <1>2 DEF Emit, Undecided, Worlds

LEMMA EmitTells ==
  ASSUME NEW a, NEW w \in Undecided, NEW e \in Event, e.kind = "Cast", Tally(a, w)
  PROVE  Tally(a, Emit(w, e))
<1> SUFFICES ASSUME Len(Emit(w, e).events) < MAX_EVENTS
             PROVE  Accounts(a, Emit(w, e))
  BY DEF Tally
<1>1. PICK v : v = Emit(w, e)
  OBVIOUS
<1>2. /\ v.champions = w.champions /\ v.towers = w.towers
      /\ w.events \in Seq(Event) /\ v.events = Append(w.events, e) /\ Accounts(a, w)
  BY <1>1, EmitStays, EmitGrows DEF Tally
<1>3. Amounts(v.events) = Amounts(w.events)
  BY <1>2, AmountsAre, TakingIs
<1>4. \A i \in DOMAIN v.events : v.events[i].kind # "Death"
  <2>1. \A i \in 1..Len(w.events) : w.events[i].kind # "Death"
    BY <1>2, LenProperties DEF Accounts
  <2> QED
    BY <1>2, <2>1, AppendProperties
<1> QED
  BY <1>1, <1>2, <1>3, <1>4 DEF Accounts, Alive

LEMMA AtLeastTwice ==
  ASSUME NEW x \in Int, NEW n \in Nat, NEW m \in Nat
  PROVE  AtLeast(AtLeast(x - n, 0) - m, 0) = AtLeast(x - (n + m), 0)
BY DEF AtLeast

(* A hit is told of whom it hits and for what it takes.                    *)
LEMMA HurtIs ==
  ASSUME NEW w \in Undecided, NEW id \in Handle, NEW amount \in Nat,
         id \in Places => Alive(w, id),
         NEW v, v = Hurt(w, id, amount)
  PROVE  /\ Len(v.events) < MAX_EVENTS =>
              \E e \in Event :
                /\ e.kind = "Damage" /\ e.who = id /\ e.amount = amount
                /\ Len(w.events) < MAX_EVENTS /\ v.events = Append(w.events, e)
         /\ \A s \in Places : /\ Alive(v, s) <=> Alive(w, s)
                              /\ v.champions[s].at = w.champions[s].at
         /\ \A s \in Places : Alive(w, s) => 
              v.champions[s].hp = IF s = id THEN AtLeast(w.champions[s].hp - amount, 0) ELSE w.champions[s].hp
         /\ \A t \in Towers : v.towers[t].hp =
              IF TowerId(t) = id THEN AtLeast(w.towers[t].hp - amount, 0) ELSE w.towers[t].hp
<1>1. PICK e : e = Damage(id, amount, EntityAt(w, id))
  OBVIOUS
<1>2. EntityAt(w, id) \in Int
  <2>1. CASE id \in Places
    <3>1. w.champions[id].at \in Int /\ ~IsTower(id)
      BY <2>1, NumberedFromZero, ChampionIs DEF Undecided
    <3> QED
      BY <3>1 DEF EntityAt
  <2>2. CASE id \notin Places
    BY <2>2, NumberedFromZero DEF Handle, EntityAt
  <2> QED
    BY <2>1, <2>2
<1>3. e \in Event /\ e.kind = "Damage" /\ e.who = id /\ e.amount = amount
  BY <1>1, <1>2 DEF Damage, Event
<1>4. PICK told \in Undecided : told = Emit(w, e) /\ told.champions = w.champions /\ told.towers = w.towers
  BY <1>3, EmitStays
<1>5. Len(told.events) < MAX_EVENTS => Len(w.events) < MAX_EVENTS /\ told.events = Append(w.events, e)
  BY <1>3, <1>4, EmitGrows
<1>6. CASE IsTower(id)
  <2>1. PICK t \in Towers : t = TowerOf(id) /\ id = TowerId(t)
    BY <1>6, NumberedFromZero DEF Handle
  <2>2. v = PutTower(told, t, WoundedTower(told.towers[t], amount))
    BY <1>1, <1>4, <1>6, <2>1 DEF Hurt
  <2>3. /\ v.events = told.events /\ v.champions = w.champions
        /\ v.towers = [w.towers EXCEPT ![t] = WoundedTower(w.towers[t], amount)]
    BY <1>4, <2>2 DEF PutTower, Undecided, Worlds
  <2>4. \A s \in Places : s # id
    BY <1>6, NumberedFromZero
  <2>5. ASSUME NEW u \in Towers
        PROVE  v.towers[u].hp = IF TowerId(u) = id THEN AtLeast(w.towers[u].hp - amount, 0) ELSE w.towers[u].hp
    <3>1. TowerId(u) = id <=> u = t
      BY <2>1, NumberedFromZero
    <3>2. PICK x \in Tower : x = w.towers[t]
      BY DEF Undecided, Worlds
    <3>3. WoundedTower(x, amount).hp = AtLeast(x.hp - amount, 0)
      BY <3>2 DEF WoundedTower, Tower
    <3>4. w.towers \in [Towers -> Tower]
      BY DEF Undecided, Worlds
    <3> QED
      BY <2>3, <3>1, <3>2, <3>3, <3>4
  <2> QED
    BY <1>3, <1>5, <2>3, <2>4, <2>5 DEF Alive
<1>7. CASE ~IsTower(id)
  <2>1. id \in Places /\ Alive(w, id)
    BY <1>7, NumberedFromZero DEF Handle
  <2>2. v = PutChampion(told, id, Wounded(told.champions[id], amount))
    BY <1>1, <1>4, <1>7, <2>1 DEF Hurt
  <2>3. /\ v.events = told.events /\ v.towers = w.towers
        /\ v.champions = [w.champions EXCEPT ![id] = Wounded(w.champions[id], amount)]
    BY <1>4, <2>2 DEF PutChampion, Undecided, Worlds
  <2>4. \A u \in Towers : TowerId(u) # id
    BY <1>7, NumberedFromZero
  <2>5. PICK c \in Living : c = w.champions[id]
    BY <2>1, ChampionIs DEF Undecided
  <2>6. PICK d : d = Wounded(c, amount) /\ d.hp = AtLeast(c.hp - amount, 0) /\ d.at = c.at /\ d.alive = TRUE
    <3>1. PICK hp : hp = AtLeast(c.hp - amount, 0)
      OBVIOUS
    <3>2. PICK d : d = [c EXCEPT !.hp = hp]
      OBVIOUS
    <3>3. d.hp = hp /\ d.at = c.at /\ d.alive = TRUE
      BY <3>2 DEF Living
    <3> QED
      BY <3>1, <3>2, <3>3 DEF Wounded
  <2>7. w.champions \in [Places -> Champion]
    BY DEF Undecided, Worlds
  <2>8. \A s \in Places : v.champions[s] = IF s = id THEN d ELSE w.champions[s]
    BY <2>3, <2>5, <2>6, <2>7
  <2>9. c.alive = TRUE
    BY <2>5 DEF Living
  <2>10. \A s \in Places : (Alive(v, s) <=> Alive(w, s)) /\ v.champions[s].at = w.champions[s].at
    BY <2>1, <2>5, <2>6, <2>8 DEF Alive
  <2> QED
    BY <1>3, <1>5, <2>3, <2>4, <2>5, <2>6, <2>8, <2>10
<1> QED
  BY <1>6, <1>7

LEMMA HurtTells ==
  ASSUME NEW a \in Worlds, NEW w \in Undecided, NEW id \in Handle, NEW amount \in Nat,
         id \in Places => Alive(w, id), Tally(a, w),
         NEW v, v = Hurt(w, id, amount)
  PROVE  Tally(a, v) /\ Still(w, v)
<1>1. Still(w, v)
  BY HurtIs DEF Still
<1> SUFFICES ASSUME Len(v.events) < MAX_EVENTS
             PROVE  Accounts(a, v)
  BY <1>1 DEF Tally
<1>2. PICK e \in Event : /\ e.kind = "Damage" /\ e.who = id /\ e.amount = amount
                         /\ Len(w.events) < MAX_EVENTS /\ v.events = Append(w.events, e)
  BY HurtIs
<1>3. Accounts(a, w) /\ w.events \in Seq(Event)
  BY <1>2 DEF Tally, Undecided, Worlds
<1>4. PICK n \in [Handle -> Nat] : n = Amounts(w.events)
  BY <1>3, AmountsAre
<1>5. PICK m \in [Handle -> Nat] : /\ m = Amounts(v.events) /\ m[id] = n[id] + amount
                                   /\ \A h \in Handle : h # id => m[h] = n[h]
  BY <1>2, <1>3, <1>4, AmountsAre, TakingIs
<1>6. ASSUME NEW s \in Places
      PROVE  /\ Alive(v, s) <=> Alive(a, s)
             /\ Alive(a, s) => v.champions[s].hp = AtLeast(a.champions[s].hp - m[s], 0)
             /\ ~Alive(a, s) => m[s] = 0
  <2>1. s \in Handle /\ n[s] \in Nat
    BY HandlesAreNumbers
  <2>2. /\ Alive(w, s) <=> Alive(a, s)
        /\ Alive(a, s) => w.champions[s].hp = AtLeast(a.champions[s].hp - n[s], 0)
        /\ ~Alive(a, s) => n[s] = 0
    BY <1>3, <1>4 DEF Accounts
  <2>3. /\ Alive(v, s) <=> Alive(w, s)
        /\ Alive(w, s) => 
              v.champions[s].hp = IF s = id THEN AtLeast(w.champions[s].hp - amount, 0) ELSE w.champions[s].hp
    BY HurtIs
  <2>4. ASSUME Alive(a, s) PROVE a.champions[s].hp \in Int
    <3>1. PICK c \in Living : c = a.champions[s]
      BY <2>4, ChampionIs
    <3>2. c.hp \in 0..Rules.champion_max_hp
      BY DEF Living
    <3>3. PICK most \in Nat : most = Rules.champion_max_hp
      BY RulesAre
    <3>4. c.hp \in Int
      BY <3>2, <3>3
    <3> QED
      BY <3>1, <3>4
  <2>5. CASE s = id
    <3>1. Alive(a, s)
      BY <2>2, <2>5
    <3>2. PICK x \in Int : x = a.champions[s].hp
      BY <2>4, <3>1
    <3>3. v.champions[s].hp = AtLeast(AtLeast(x - n[s], 0) - amount, 0)
      BY <2>2, <2>3, <2>5, <3>1, <3>2
    <3> QED
      BY <1>5, <2>1, <2>2, <2>3, <2>5, <3>1, <3>2, <3>3, AtLeastTwice, SMTT(40)
  <2>6. CASE s # id
    BY <1>5, <2>1, <2>2, <2>3, <2>6
  <2> QED
    BY <2>5, <2>6
<1>7. ASSUME NEW t \in Towers
      PROVE  v.towers[t].hp = AtLeast(a.towers[t].hp - m[TowerId(t)], 0)
  <2>1. TowerId(t) \in Handle /\ n[TowerId(t)] \in Nat
    BY DEF Handle
  <2>2. w.towers[t].hp = AtLeast(a.towers[t].hp - n[TowerId(t)], 0)
    BY <1>3, <1>4 DEF Accounts
  <2>3. v.towers[t].hp = IF TowerId(t) = id THEN AtLeast(w.towers[t].hp - amount, 0) ELSE w.towers[t].hp
    BY HurtIs
  <2>4. PICK x \in Int : x = a.towers[t].hp
    BY RulesAre DEF Worlds, Tower
  <2>5. CASE TowerId(t) = id
    <3>1. v.towers[t].hp = AtLeast(AtLeast(x - n[id], 0) - amount, 0)
      BY <2>2, <2>3, <2>4, <2>5
    <3>2. v.towers[t].hp = AtLeast(x - (n[id] + amount), 0)
      BY <2>1, <2>5, <3>1, AtLeastTwice
    <3> QED
      BY <1>5, <2>4, <2>5, <3>2
  <2>6. CASE TowerId(t) # id
    BY <1>5, <2>1, <2>2, <2>3, <2>6
  <2> QED
    BY <2>5, <2>6
<1>8. \A i \in DOMAIN v.events : v.events[i].kind # "Death"
  <2>1. \A i \in 1..Len(w.events) : w.events[i].kind # "Death"
    BY <1>3, LenProperties DEF Accounts
  <2> QED
    BY <1>2, <1>3, <2>1, AppendProperties
<1> QED
  BY <1>5, <1>6, <1>7, <1>8 DEF Accounts

(* What rests a champion, gives it an order or moves it hurts nobody; nor  *)
(* does what changes a tower's cooldown or a slot of the arena.            *)
SameBody(c, d) == (d.alive <=> c.alive) /\ (c.alive => d.hp = c.hp)

LEMMA PutTells ==
  ASSUME NEW w \in Undecided
  PROVE  /\ \A s \in Places : \A c : SameBody(w.champions[s], c) =>
              /\ Unharmed(w, PutChampion(w, s, c))
              /\ c.at = w.champions[s].at => Still(w, PutChampion(w, s, c))
         /\ \A t \in Towers : \A u :
              u.hp = w.towers[t].hp => Unharmed(w, PutTower(w, t, u)) /\ Still(w, PutTower(w, t, u))
         /\ \A i, p : Unharmed(w, PutShot(w, i, p)) /\ Still(w, PutShot(w, i, p))
<1>1. ASSUME NEW s \in Places, NEW c, SameBody(w.champions[s], c)
      PROVE  /\ Unharmed(w, PutChampion(w, s, c))
             /\ c.at = w.champions[s].at => Still(w, PutChampion(w, s, c))
  <2>1. PICK v : v = PutChampion(w, s, c)
    OBVIOUS
  <2>2. /\ v.events = w.events /\ v.towers = w.towers
        /\ \A r \in Places : v.champions[r] = IF r = s THEN c ELSE w.champions[r]
    BY <2>1 DEF PutChampion, Undecided, Worlds
  <2>3. Unharmed(w, v)
    BY <1>1, <2>2 DEF Unharmed, Alive, SameBody
  <2> QED
    BY <2>1, <2>2, <2>3 DEF Still
<1>2. ASSUME NEW t \in Towers, NEW u, u.hp = w.towers[t].hp
      PROVE  Unharmed(w, PutTower(w, t, u)) /\ Still(w, PutTower(w, t, u))
  <2>1. PICK v : v = PutTower(w, t, u)
    OBVIOUS
  <2>2. /\ v.events = w.events /\ v.champions = w.champions
        /\ \A r \in Towers : v.towers[r] = IF r = t THEN u ELSE w.towers[r]
    BY <2>1 DEF PutTower, Undecided, Worlds
  <2> QED
    BY <1>2, <2>1, <2>2 DEF Unharmed, Still, Alive
<1>3. ASSUME NEW i, NEW p
      PROVE  Unharmed(w, PutShot(w, i, p)) /\ Still(w, PutShot(w, i, p))
  <2>1. PICK v : v = PutShot(w, i, p)
    OBVIOUS
  <2>2. v.events = w.events /\ v.champions = w.champions /\ v.towers = w.towers
    BY <2>1 DEF PutShot, Undecided, Worlds
  <2> QED
    BY <2>1, <2>2 DEF Unharmed, Still, Alive
<1> QED
  BY <1>1, <1>2, <1>3

LEMMA OrderedKeeps ==
  ASSUME NEW c \in Champion, NEW order, NEW d, d = Ordered(c, order)
  PROVE  SameBody(c, d) /\ d.at = c.at
BY DEF Ordered, SameBody, Champion, Living, Dead

LEMMA MovedKeeps ==
  ASSUME NEW c \in Champion, NEW to, NEW d, d = Moved(c, to)
  PROVE  SameBody(c, d) /\ d.at = to
<1>1. PICK order : d = [c EXCEPT !.at = to, !.order = order]
  BY DEF Moved
<1> QED
  BY <1>1 DEF SameBody, Champion, Living, Dead

LEMMA RestingKeeps ==
  ASSUME NEW c \in Champion, NEW ability, NEW n, NEW d, d = Resting(c, ability, n)
  PROVE  SameBody(c, d) /\ d.at = c.at
<1>1. PICK cooldowns : cooldowns = [c.cooldowns EXCEPT ![ability] = n]
  OBVIOUS
<1>2. d = [c EXCEPT !.cooldowns = cooldowns]
  BY <1>1, Zenon DEF Resting
<1> QED
  BY <1>2 DEF SameBody, Champion, Living, Dead

LEMMA CoolerKeeps ==
  ASSUME NEW c \in Champion, NEW d, d = Cooler(c)
  PROVE  SameBody(c, d) /\ d.at = c.at
<1>1. PICK cooldowns : cooldowns = [a \in DOMAIN c.cooldowns |-> OneLess(c.cooldowns[a])]
  OBVIOUS
<1>2. d = [c EXCEPT !.cooldowns = cooldowns]
  BY <1>1, Zenon DEF Cooler
<1> QED
  BY <1>2 DEF SameBody, Champion, Living, Dead

-----------------------------------------------------------------------------
(* Operation by operation: what it does is told, and who it moves.         *)
LEMMA ResolvesIs ==
  ASSUME NEW w \in Undecided, NEW id \in Nat, Resolves(w, id)
  PROVE  id \in Handle /\ (id \in Places => Alive(w, id))
<1>1. id \in Places => ~IsTower(id)
  BY NumberedFromZero
<1> QED
  BY <1>1, HandleIs DEF Resolves

LEMMA CastIs ==
  ASSUME NEW w \in Undecided, NEW s \in Places, NEW ability \in {"Skillshot", "Targeted"}
  PROVE  Cast(s, ability, w.champions[s].at) \in Event /\ Cast(s, ability, w.champions[s].at).kind = "Cast"
<1>1. PICK p \in Int : p = w.champions[s].at
  BY ChampionIs DEF Undecided
<1>2. Cast(s, ability, p) \in Event
  BY DEF Cast, Event
<1>3. Cast(s, ability, p).kind = "Cast"
  BY DEF Cast
<1> QED
  BY <1>1, <1>2, <1>3

LEMMA CastSkillshotTells ==
  ASSUME NEW a \in Worlds, NEW w \in Undecided, NEW s \in Places, NEW direction \in Int, Tally(a, w)
  PROVE  Tally(a, CastSkillshot(w, s, direction)) /\ Still(w, CastSkillshot(w, s, direction))
<1> DEFINE c     == w.champions[s]
           cast  == Launch(w, s, direction)
           cool  == Resting(c, "skillshot", Rules.skillshot_cooldown_ticks)
           told  == Cast(s, "Skillshot", c.at)
<1>1. CASE CastSkillshot(w, s, direction) = w
  BY <1>1 DEF Still
<1>2. CASE /\ FreeSlots(w) # {}
           /\ CastSkillshot(w, s, direction) = Emit(PutChampion(cast, s, cool), told)
  <2>1. cast \in Undecided
    BY <1>2, LaunchStays
  <2>2. cast.champions = w.champions /\ cast.towers = w.towers /\ cast.events = w.events
    <3>1. PICK slot, shot : cast = [PutShot(w, slot, shot) EXCEPT !.next_projectile_id = NextId(w.next_projectile_id)]
      BY DEF Launch
    <3>2. PICK v : v = PutShot(w, slot, shot)
      OBVIOUS
    <3>3. /\ v.champions = w.champions /\ v.towers = w.towers /\ v.events = w.events
          /\ DOMAIN v = DOMAIN w
      BY <3>2 DEF PutShot, Undecided, Worlds
    <3> QED
      BY <3>1, <3>2, <3>3 DEF Undecided, Worlds
  <2>3. cool \in Champion /\ SameBody(c, cool) /\ cool.at = c.at
    <3>1. c \in Champion
      BY ChampionIs DEF Undecided
    <3>2. cool \in Champion
      BY <3>1, ChampionChanges, RulesAre
    <3> HIDE DEF c, cool
    <3>3. cool = Resting(c, "skillshot", Rules.skillshot_cooldown_ticks)
      BY DEF cool
    <3> QED
      BY <3>1, <3>2, <3>3, RestingKeeps
  <2>4. PICK v \in Undecided : v = PutChampion(cast, s, cool)
    BY <2>1, <2>3, PutChampionStays
  <2>5. Unharmed(cast, v) /\ Still(cast, v)
    BY <2>1, <2>2, <2>3, <2>4, PutTells
  <2>6. Unharmed(w, v) /\ Still(w, v)
    BY <2>2, <2>5 DEF Unharmed, Still, Alive
  <2>7. told \in Event /\ told.kind = "Cast"
    BY CastIs
  <2>8. Tally(a, v) /\ Emit(v, told).champions = v.champions
    BY <2>4, <2>6, <2>7, UnharmedTells, EmitStays
  <2> QED
    BY <1>2, <2>4, <2>6, <2>7, <2>8, EmitTells DEF Still
<1> QED
  BY <1>1, <1>2 DEF CastSkillshot

LEMMA CastTargetedTells ==
  ASSUME NEW a \in Worlds, NEW w \in Undecided, NEW s \in Places, NEW id \in Nat, Tally(a, w)
  PROVE  Tally(a, CastTargeted(w, s, id)) /\ Still(w, CastTargeted(w, s, id))
<1>1. CASE CastTargeted(w, s, id) = w
  BY <1>1 DEF Still
<1>2. CASE CastTargeted(w, s, id) # w
  <2>1. Resolves(w, id)
    BY <1>2 DEF CastTargeted
  <2>2. PICK e \in Event : e = Cast(s, "Targeted", w.champions[s].at) /\ e.kind = "Cast"
    BY CastIs
  <2>3. PICK told \in Undecided : told = Emit(w, e) /\ told.champions = w.champions /\ told.towers = w.towers
    BY EmitStays
  <2>4. Tally(a, told) /\ Still(w, told)
    BY <2>2, <2>3, EmitTells DEF Still
  <2>5. id \in Handle /\ (id \in Places => Alive(told, id))
    BY <2>1, <2>3, ResolvesIs DEF Alive
  <2>6. PICK hurt \in Undecided : hurt = Hurt(told, id, Rules.targeted_damage)
    BY <2>5, HurtStays, RulesAre
  <2>7. Tally(a, hurt) /\ Still(told, hurt)
    BY <2>4, <2>5, <2>6, HurtTells, RulesAre
  <2>8. PICK c \in Champion : c = hurt.champions[s]
    BY ChampionIs DEF Undecided
  <2>9. PICK d \in Champion : d = Resting(c, "targeted", Rules.targeted_cooldown_ticks)
    BY ChampionChanges, RulesAre
  <2>10. SameBody(c, d) /\ d.at = c.at
    BY <2>9, RestingKeeps
  <2>11. CastTargeted(w, s, id) = PutChampion(hurt, s, d)
    BY <1>2, <2>2, <2>3, <2>6, <2>8, <2>9 DEF CastTargeted
  <2>12. Unharmed(hurt, PutChampion(hurt, s, d)) /\ Still(hurt, PutChampion(hurt, s, d))
    BY <2>8, <2>10, PutTells
  <2> QED
    BY <2>4, <2>7, <2>11, <2>12, UnharmedTells DEF Still
<1> QED
  BY <1>1, <1>2

LEMMA SetOrderTells ==
  ASSUME NEW a \in Worlds, NEW w \in Undecided, NEW s \in Places, NEW order \in Order, Tally(a, w)
  PROVE  Tally(a, SetOrder(w, s, order)) /\ Still(w, SetOrder(w, s, order))
<1>1. PICK c \in Champion : c = w.champions[s]
  BY ChampionIs DEF Undecided
<1>2. PICK d \in Champion : d = Ordered(c, order)
  BY ChampionChanges
<1>3. SameBody(c, d) /\ d.at = c.at
  BY <1>2, OrderedKeeps
<1>4. Unharmed(w, PutChampion(w, s, d)) /\ Still(w, PutChampion(w, s, d))
  BY <1>1, <1>3, PutTells
<1> QED
  BY <1>1, <1>2, <1>4, UnharmedTells DEF SetOrder

LEMMA ApplyInputTells ==
  ASSUME NEW a \in Worlds, NEW w \in Undecided, NEW input \in Ordering, Tally(a, w)
  PROVE  Tally(a, ApplyInput(w, input)) /\ Still(w, ApplyInput(w, input))
<1> DEFINE s == input.player  x == input.action
<1>1. s \in Places /\ x \in Action
  BY DEF Ordering
<1>2. CASE ApplyInput(w, input) = w
  BY <1>2 DEF Still
<1> SUFFICES ASSUME ~(input.tick # w.tick \/ ~Alive(w, s))
             PROVE  Tally(a, ApplyInput(w, input)) /\ Still(w, ApplyInput(w, input))
  BY <1>2 DEF ApplyInput
<1>3. CASE x.kind = "Idle"
  <2>1. ApplyInput(w, input) = SetOrder(w, s, Idle) /\ Idle \in Order
    BY <1>3 DEF ApplyInput, Idle, Order
  <2> QED
    BY <1>1, <2>1, SetOrderTells
<1>4. CASE x.kind = "MoveTo"
  <2>1. x.to \in Int
    BY <1>1, <1>4 DEF Action
  <2>2. Clamp(x.to) \in Int
    BY <2>1, ClampStays, RulesAre DEF Ground
  <2>3. ApplyInput(w, input) = SetOrder(w, s, MoveTo(Clamp(x.to)))
    BY <1>4 DEF ApplyInput
  <2>4. MoveTo(Clamp(x.to)) \in Order
    BY <2>2 DEF MoveTo, Order
  <2> QED
    BY <1>1, <2>3, <2>4, SetOrderTells
<1>5. CASE x.kind = "Attack"
  <2>1. x \in Order
    BY <1>1, <1>5 DEF Action, Order
  <2>2. ApplyInput(w, input) = w \/ ApplyInput(w, input) = SetOrder(w, s, x)
    BY <1>5 DEF ApplyInput
  <2> QED
    BY <1>1, <1>2, <2>1, <2>2, SetOrderTells
<1>6. CASE x.kind = "Skillshot"
  <2>1. x.direction \in Int /\ ApplyInput(w, input) = CastSkillshot(w, s, x.direction)
    BY <1>1, <1>6 DEF Action, ApplyInput
  <2> QED
    BY <1>1, <2>1, CastSkillshotTells
<1>7. CASE x.kind = "Targeted"
  <2>1. x.target \in Nat /\ ApplyInput(w, input) = CastTargeted(w, s, x.target)
    BY <1>1, <1>7 DEF Action, ApplyInput
  <2> QED
    BY <1>1, <2>1, CastTargetedTells
<1> QED
  BY <1>1, <1>3, <1>4, <1>5, <1>6, <1>7 DEF Action

(* A step of a walk is no longer than a tick allows.                       *)
LEMMA SteppedNear ==
  ASSUME NEW p \in Ground, NEW q \in Int
  PROVE  Within(Stepped(p, q), p, Rules.champion_speed)
<1>1. PICK n \in Nat, h \in Nat : n = Rules.champion_speed /\ h = Rules.map_half_extent
  BY RulesAre
<1>2. p \in Int /\ -h <= p /\ p <= h
  BY <1>1 DEF Ground
<1>3. PICK to \in Int : to = IF Within(p, q, n) THEN q ELSE p + Sign(q - p) * n
  <2>1. Sign(q - p) * n \in Int
    BY <1>1, <1>2 DEF Sign
  <2> QED
    BY <1>2, <2>1
<1>4. to - p <= n /\ p - to <= n
  <2>1. CASE Within(p, q, n)
    BY <1>2, <1>3, <2>1 DEF Within
  <2>2. CASE ~Within(p, q, n)
    <3>1. CASE q - p > 0
      <4>1. Sign(q - p) = 1
        BY <3>1 DEF Sign
      <4> QED
        BY <1>1, <1>2, <1>3, <2>2, <4>1
    <3>2. CASE q - p < 0
      <4>1. Sign(q - p) = -1
        BY <1>2, <3>2 DEF Sign
      <4> QED
        BY <1>1, <1>2, <1>3, <2>2, <4>1
    <3>3. CASE ~(q - p > 0) /\ ~(q - p < 0)
      <4>1. Sign(q - p) = 0
        BY <3>3 DEF Sign
      <4> QED
        BY <1>1, <1>2, <1>3, <2>2, <4>1
    <3> QED
      BY <3>1, <3>2, <3>3
  <2> QED
    BY <2>1, <2>2
<1>5. Stepped(p, q) = Clamp(to)
  BY <1>1, <1>3 DEF Stepped
<1>6. Clamp(to) = AtLeast(-h, AtMost(to, h))
  BY <1>1 DEF Clamp
<1> QED
  BY <1>1, <1>2, <1>4, <1>5, <1>6 DEF AtLeast, AtMost, Within

LEMMA MoveChampionTells ==
  ASSUME NEW a \in Worlds, NEW w \in Undecided, NEW s \in Places, Tally(a, w),
         NEW v, v = MoveChampion(w, s)
  PROVE  /\ Tally(a, v)
         /\ \A r \in Places : r # s => v.champions[r].at = w.champions[r].at
         /\ Within(v.champions[s].at, w.champions[s].at, Rules.champion_speed)
<1>1. w.champions[s].at \in Ground
  BY ChampionIs DEF Undecided
<1>2. CASE ~Alive(w, s)
  <2>1. v = w
    BY <1>2 DEF MoveChampion
  <2>2. PICK p \in Int, n \in Nat : p = w.champions[s].at /\ n = Rules.champion_speed
    BY <1>1, RulesAre DEF Ground
  <2> QED
    BY <2>1, <2>2 DEF Within
<1>3. CASE Alive(w, s)
  <2>1. PICK c \in Champion : c = w.champions[s]
    BY ChampionIs DEF Undecided
  <2>2. PICK to \in Ground : to = Stepped(c.at, Destination(w, s)) /\ Within(to, c.at, Rules.champion_speed)
    BY <1>1, <2>1, DestinationIs, SteppedNear, SteppedStays, ChampionIs DEF Undecided
  <2>3. PICK d \in Champion : d = Moved(c, to)
    BY ChampionChanges
  <2>4. SameBody(c, d) /\ d.at = to
    BY <2>3, MovedKeeps
  <2>5. v = PutChampion(w, s, d)
    BY <1>3, <2>1, <2>2, <2>3 DEF MoveChampion
  <2>6. Unharmed(w, v)
    BY <2>1, <2>4, <2>5, PutTells
  <2>7. \A r \in Places : v.champions[r] = IF r = s THEN d ELSE w.champions[r]
    BY <2>5 DEF PutChampion, Undecided, Worlds
  <2> QED
    BY <2>1, <2>2, <2>4, <2>6, <2>7, UnharmedTells
<1> QED
  BY <1>2, <1>3

LEMMA AdvanceProjectileTells ==
  ASSUME NEW a \in Worlds, NEW w \in Undecided, NEW slot \in Slots, Tally(a, w)
  PROVE  Tally(a, AdvanceProjectile(w, slot)) /\ Still(w, AdvanceProjectile(w, slot))
<1>1. CASE AdvanceProjectile(w, slot) = w
  BY <1>1 DEF Still
<1>2. CASE \E p : AdvanceProjectile(w, slot) = PutShot(w, slot, p)
  BY <1>2, PutTells, UnharmedTells
<1>3. CASE \E p : /\ Overlapped(w, p) # {}
                  /\ AdvanceProjectile(w, slot) =
                       PutShot(Hurt(w, Lowest(Overlapped(w, p)), Rules.skillshot_damage), slot, Empty)
  <2>1. PICK p : /\ Overlapped(w, p) # {}
                 /\ AdvanceProjectile(w, slot) =
                      PutShot(Hurt(w, Lowest(Overlapped(w, p)), Rules.skillshot_damage), slot, Empty)
    BY <1>3
  <2>2. Overlapped(w, p) \subseteq Handle /\ \A id \in Overlapped(w, p) : id \in Places => Alive(w, id)
    BY NumberedFromZero DEF Overlapped, Handle
  <2>3. PICK id \in Handle : id = Lowest(Overlapped(w, p)) /\ (id \in Places => Alive(w, id))
    BY <2>1, <2>2, LowestIs, HandlesAreNumbers
  <2>4. PICK hurt \in Undecided : hurt = Hurt(w, id, Rules.skillshot_damage)
    BY HurtStays, RulesAre
  <2>5. Tally(a, hurt) /\ Still(w, hurt)
    BY <2>3, <2>4, HurtTells, RulesAre
  <2>6. PICK v : v = PutShot(hurt, slot, Empty)
    OBVIOUS
  <2>7. Unharmed(hurt, v) /\ Still(hurt, v)
    BY <2>6, PutTells
  <2> QED
    BY <2>1, <2>3, <2>4, <2>5, <2>6, <2>7, UnharmedTells DEF Still
<1> QED
  BY <1>1, <1>2, <1>3 DEF AdvanceProjectile

LEMMA FireTowerTells ==
  ASSUME NEW a \in Worlds, NEW w \in Undecided, NEW t \in Towers, Tally(a, w)
  PROVE  Tally(a, FireTower(w, t)) /\ Still(w, FireTower(w, t))
<1>1. CASE FireTower(w, t) = w
  BY <1>1 DEF Still
<1>2. CASE FireTower(w, t) # w
  <2>1. InTowerRange(w, t) # {} /\ InTowerRange(w, t) \subseteq Places
        /\ \A s \in InTowerRange(w, t) : Alive(w, s)
    BY <1>2 DEF FireTower, InTowerRange
  <2>2. PICK s \in Places : s = Lowest(InTowerRange(w, t)) /\ Alive(w, s)
    BY <2>1, LowestIs, NumberedFromZero
  <2>3. PICK hurt \in Undecided : hurt = Hurt(w, s, Rules.tower_damage)
    BY HurtStays, RulesAre, HandlesAreNumbers
  <2>4. Tally(a, hurt) /\ Still(w, hurt)
    BY <2>2, <2>3, HurtTells, RulesAre, HandlesAreNumbers
  <2>5. PICK u \in Tower : u = hurt.towers[t]
    BY DEF Undecided, Worlds
  <2>6. Reloading(u).hp = u.hp
    BY DEF Reloading, Tower
  <2>7. PICK v : v = PutTower(hurt, t, Reloading(u))
    OBVIOUS
  <2>8. FireTower(w, t) = v
    BY <1>2, <2>2, <2>3, <2>5, <2>7 DEF FireTower
  <2>9. Unharmed(hurt, v) /\ Still(hurt, v)
    BY <2>5, <2>6, <2>7, PutTells
  <2> QED
    BY <2>4, <2>8, <2>9, UnharmedTells DEF Still
<1> QED
  BY <1>1, <1>2

LEMMA BasicAttackTells ==
  ASSUME NEW a \in Worlds, NEW w \in Undecided, NEW s \in Places, Tally(a, w)
  PROVE  Tally(a, BasicAttack(w, s)) /\ Still(w, BasicAttack(w, s))
<1>1. CASE BasicAttack(w, s) = w
  BY <1>1 DEF Still
<1>2. CASE BasicAttack(w, s) # w
  <2>1. PICK order \in Order : order = w.champions[s].order
    BY ChampionIs DEF Undecided
  <2>2. order.kind = "Attack" /\ Resolves(w, order.target)
    BY <1>2, <2>1 DEF BasicAttack
  <2>3. order.target \in Nat
    BY <2>2 DEF Order
  <2>4. PICK id \in Handle : id = order.target /\ (id \in Places => Alive(w, id))
    BY <2>2, <2>3, ResolvesIs
  <2>5. PICK hurt \in Undecided : hurt = Hurt(w, id, Rules.attack_damage)
    BY HurtStays, RulesAre
  <2>6. Tally(a, hurt) /\ Still(w, hurt)
    BY <2>4, <2>5, HurtTells, RulesAre
  <2>7. PICK c \in Champion : c = hurt.champions[s]
    BY ChampionIs DEF Undecided
  <2>8. PICK d : d = Resting(c, "basic", Rules.attack_cooldown_ticks)
    OBVIOUS
  <2>9. PICK v : v = PutChampion(hurt, s, d)
    OBVIOUS
  <2>10. BasicAttack(w, s) = v
    BY <1>2, <2>1, <2>4, <2>5, <2>7, <2>8, <2>9 DEF BasicAttack
  <2>11. SameBody(c, d) /\ d.at = c.at
    BY <2>8, RestingKeeps
  <2>12. Unharmed(hurt, v) /\ Still(hurt, v)
    BY <2>7, <2>9, <2>11, PutTells
  <2> QED
    BY <2>6, <2>10, <2>12, UnharmedTells DEF Still
<1> QED
  BY <1>1, <1>2

(* The phases that are folds. Only a walk moves anybody, and each once.    *)
LEMMA PhasesTell ==
  ASSUME NEW a \in Worlds, NEW w \in Undecided, Tally(a, w)
  PROVE  /\ \A inputs \in Seq(Ordering) :
              Tally(a, FoldLeft(ApplyInput, w, inputs)) /\ Still(w, FoldLeft(ApplyInput, w, inputs))
         /\ LET v == FoldLeft(AdvanceProjectile, w, SlotOrder) IN Tally(a, v) /\ Still(w, v)
         /\ LET v == FoldLeft(FireTower, w, TowerOrder) IN Tally(a, v) /\ Still(w, v)
         /\ LET v == FoldLeft(BasicAttack, w, SeatOrder) IN Tally(a, v) /\ Still(w, v)
<1> DEFINE P == {v \in Undecided : Tally(a, v) /\ Still(w, v)}
<1>1. P \in SUBSET Undecided /\ w \in P
  BY DEF Still
<1>2. \A v \in P : Tally(a, v) /\ v \in Undecided
  OBVIOUS
<1>3. \A v \in P, u \in Undecided : Tally(a, u) /\ Still(v, u) => u \in P
  BY DEF Still
<1>4. \A v \in P : Tally(a, v) /\ Still(w, v)
  OBVIOUS
<1> HIDE DEF P
<1>5. ASSUME NEW inputs \in Seq(Ordering) PROVE FoldLeft(ApplyInput, w, inputs) \in P
  <2>1. FoldLeft(ApplyInput, w, inputs) = Commands!Folded(w, inputs)
    BY DEF FoldLeft, MapThenFoldSet, Max, Commands!Folded, Commands!Greatest
  <2>2. \A v \in P, e \in Ordering : ApplyInput(v, e) \in P
    BY <1>2, <1>3, ApplyInputStays, ApplyInputTells
  <2> QED
    BY <1>1, <2>1, <2>2, ApplyInputStays, Commands!FoldKeeps
<1>6. FoldLeft(AdvanceProjectile, w, SlotOrder) \in P
  <2>1. FoldLeft(AdvanceProjectile, w, SlotOrder) = Flights!Folded(w, SlotOrder)
    BY DEF FoldLeft, MapThenFoldSet, Max, Flights!Folded, Flights!Greatest
  <2>2. \A v \in P, i \in Slots : AdvanceProjectile(v, i) \in P
    BY <1>2, <1>3, AdvanceProjectileStays, AdvanceProjectileTells
  <2> QED
    BY <1>1, <2>1, <2>2, OrdersAre, AdvanceProjectileStays, Flights!FoldKeeps
<1>7. FoldLeft(FireTower, w, TowerOrder) \in P
  <2>1. FoldLeft(FireTower, w, TowerOrder) = Volleys!Folded(w, TowerOrder)
    BY DEF FoldLeft, MapThenFoldSet, Max, Volleys!Folded, Volleys!Greatest
  <2>2. \A v \in P, t \in Towers : FireTower(v, t) \in P
    BY <1>2, <1>3, FireTowerStays, FireTowerTells
  <2> QED
    BY <1>1, <2>1, <2>2, OrdersAre, FireTowerStays, Volleys!FoldKeeps
<1>8. FoldLeft(BasicAttack, w, SeatOrder) \in P
  <2>1. FoldLeft(BasicAttack, w, SeatOrder) = Fights!Folded(w, SeatOrder)
    BY DEF FoldLeft, MapThenFoldSet, Max, Fights!Folded, Fights!Greatest
  <2>2. \A v \in P, s \in Places : BasicAttack(v, s) \in P
    BY <1>2, <1>3, BasicAttackStays, BasicAttackTells
  <2> QED
    BY <1>1, <2>1, <2>2, OrdersAre, BasicAttackStays, Fights!FoldKeeps
<1> QED
  BY <1>4, <1>5, <1>6, <1>7, <1>8

(* Seats are gone through in order, each once.                             *)
LEMMA EverySeatOnce ==
  /\ Cardinality(Places) \in Nat
  /\ Len(SeatOrder) = Cardinality(Places) /\ DOMAIN SeatOrder = 1..Len(SeatOrder)
  /\ \A i \in 1..Len(SeatOrder) : SeatOrder[i] = i - 1
  /\ \A s \in Places : s \in Nat /\ s + 1 \in 1..Len(SeatOrder) /\ SeatOrder[s + 1] = s
<1>1. Cardinality(Places) \in Nat
  BY WorldConstants, FS_CardinalityType DEF Places
<1>2. SeatOrder = [i \in 1..Cardinality(Places) |-> i - 1]
  BY DEF SeatOrder
<1>3. Len(SeatOrder) = Cardinality(Places)
  <2>1. PICK n \in Nat, m \in Nat : n = Len(SeatOrder) /\ m = Cardinality(Places)
    BY <1>1, OrdersAre, LenProperties
  <2>2. 1..n = 1..m
    BY <1>2, <2>1, OrdersAre, LenProperties
  <2> QED
    BY <2>1, <2>2
<1>4. Places = 0..Cardinality(Places) - 1
  BY WorldConstants DEF Places
<1> QED
  BY <1>1, <1>2, <1>3, <1>4

LEMMA WalksTell ==
  ASSUME NEW a \in Worlds, NEW w \in Undecided, Tally(a, w),
         NEW v, v = FoldLeft(MoveChampion, w, SeatOrder)
  PROVE  /\ Tally(a, v)
         /\ \A s \in Places :
              Within(v.champions[s].at, w.champions[s].at, Rules.champion_speed)
<1>1. v = Moves!Folded(w, SeatOrder)
  BY DEF FoldLeft, MapThenFoldSet, Max, Moves!Folded, Moves!Greatest
<1>2. PICK run \in [0..Len(SeatOrder) -> Undecided] :
        /\ run[0] = w
        /\ \A i \in 1..Len(SeatOrder) : run[i] = MoveChampion(run[i - 1], SeatOrder[i])
        /\ Moves!Folded(w, SeatOrder) = run[Len(SeatOrder)]
  BY OrdersAre, MoveChampionStays, Moves!FoldRuns
<1> DEFINE n == Len(SeatOrder)
           Near(u, s) == Within(u.champions[s].at, w.champions[s].at, Rules.champion_speed)
           S == {i \in 0..n : /\ Tally(a, run[i])
                              /\ \A s \in Places : s < i => Near(run[i], s)
                              /\ \A s \in Places : s >= i => run[i].champions[s].at = w.champions[s].at}
<1>3. n \in Nat /\ \A s \in Places : s \in Nat /\ s < n
  BY EverySeatOnce
<1>4. 0 \in S
  BY <1>2, <1>3
<1>5. ASSUME NEW i \in 0..(n - 1), i \in S PROVE i + 1 \in S
  <2>1. i + 1 \in 1..n /\ i + 1 \in 0..n /\ (i + 1) - 1 = i /\ i \in Nat
    BY <1>3
  <2>2. SeatOrder[i + 1] = i /\ i \in Places
    BY <2>1, EverySeatOnce, OrdersAre
  <2>3. run[i + 1] = MoveChampion(run[i], i) /\ run[i] \in Undecided
    BY <1>2, <2>1, <2>2
  <2>4. PICK u \in Undecided : u = run[i]
    BY <2>3
  <2>9. PICK m : m = run[i + 1] /\ m = MoveChampion(u, i)
    BY <2>3, <2>4
  <2>5. /\ Tally(a, m)
        /\ \A r \in Places : r # i => m.champions[r].at = u.champions[r].at
        /\ Within(m.champions[i].at, u.champions[i].at, Rules.champion_speed)
    BY <1>5, <2>2, <2>4, <2>9, MoveChampionTells
  <2>6. /\ \A s \in Places : s < i => Near(u, s)
        /\ \A s \in Places : s >= i => u.champions[s].at = w.champions[s].at
    BY <1>5, <2>4
  <2>7. ASSUME NEW s \in Places, s < i + 1 PROVE Near(m, s)
    <3>1. CASE s = i
      BY <2>1, <2>5, <2>6, <3>1
    <3>2. CASE s # i
      <4>1. s < i
        BY <1>3, <2>1, <2>7, <3>2
      <4> QED
        BY <2>5, <2>6, <3>2, <4>1
    <3> QED
      BY <3>1, <3>2
  <2>8. ASSUME NEW s \in Places, s >= i + 1 PROVE m.champions[s].at = w.champions[s].at
    <3>1. s # i /\ s >= i
      BY <1>3, <2>1, <2>8
    <3> QED
      BY <2>5, <2>6, <3>1
  <2> QED
    BY <2>1, <2>9, <2>5, <2>7, <2>8
<1> HIDE DEF S, n
<1>6. \A i \in 0..n : i \in S
  BY <1>3, <1>4, <1>5, Moves!CountingUp
<1>7. n \in S
  BY <1>3, <1>6
<1> QED
  BY <1>1, <1>2, <1>3, <1>7 DEF S, n

-----------------------------------------------------------------------------
(* Falls are told last, in seat order, of those who are dying then.        *)
FallOf(e, s)    == e.kind = "Death" /\ e.who = s
Longer(r, q, e) == r = Append(q, e)
Agree(r, q, s)  == \A k \in Falls(q, s) : r[k] = q[k]

LEMMA FallsAre ==
  ASSUME NEW q \in Seq(Event), NEW e \in Event, NEW s, NEW r, Longer(r, q, e)
  PROVE  Falls(r, s) = Falls(q, s) \cup {i \in {Len(q) + 1} : FallOf(e, s)}
<1>1. r = Append(q, e) /\ r \in Seq(Event)
  BY AppendProperties DEF Longer
<1>2. PICK n \in Nat : n = Len(q) /\ DOMAIN q = 1..n
  BY LenProperties
<1>3. DOMAIN r = 1..(n + 1) /\ r[n + 1] = e /\ \A i \in 1..n : r[i] = q[i]
  <2>1. /\ Len(r) = n + 1 /\ r[n + 1] = e /\ \A i \in 1..n : r[i] = q[i]
    BY <1>1, <1>2, AppendProperties
  <2> QED
    BY <1>1, <2>1, LenProperties
<1>4. 1..(n + 1) = (1..n) \cup {n + 1} /\ n + 1 \notin 1..n
  BY <1>2
<1>5. Falls(r, s) = {i \in 1..n : q[i].kind = "Death" /\ q[i].who = s}
                      \cup {i \in {n + 1} : e.kind = "Death" /\ e.who = s}
  BY <1>3, <1>4 DEF Falls
<1>6. Falls(q, s) = {i \in 1..n : q[i].kind = "Death" /\ q[i].who = s}
  BY <1>2 DEF Falls
<1> QED
  BY <1>2, <1>5, <1>6 DEF FallOf

LEMMA OneFalls ==
  ASSUME NEW q \in Seq(Event), NEW e \in Event, NEW s, NEW r, Longer(r, q, e), FallOf(e, s), Falls(q, s) = {}
  PROVE  Falls(r, s) = {Len(q) + 1} /\ r[Len(q) + 1] = e
<1>1. Falls(r, s) = Falls(q, s) \cup {i \in {Len(q) + 1} : FallOf(e, s)}
  BY FallsAre
<1>2. r[Len(q) + 1] = e
  BY AppendProperties DEF Longer
<1> QED
  BY <1>1, <1>2

LEMMA OthersFellBefore ==
  ASSUME NEW q \in Seq(Event), NEW e \in Event, NEW s, NEW r, Longer(r, q, e), ~FallOf(e, s)
  PROVE  Falls(r, s) = Falls(q, s) /\ Agree(r, q, s)
<1>1. Falls(r, s) = Falls(q, s) \cup {i \in {Len(q) + 1} : FallOf(e, s)}
  BY FallsAre
<1>2. \A k \in 1..Len(q) : r[k] = q[k]
  BY AppendProperties DEF Longer
<1>3. Falls(q, s) \subseteq 1..Len(q)
  BY LenProperties DEF Falls
<1> QED
  BY <1>1, <1>2, <1>3 DEF Agree

(* After the first few seats have been gone through.                       *)
Fallen(f, r, i) ==
  /\ r.champions = Buried(f).champions /\ r.towers = f.towers
  /\ Len(r.events) < MAX_EVENTS =>
       /\ Len(f.events) < MAX_EVENTS /\ Amounts(r.events) = Amounts(f.events)
       /\ \A s \in Places :
            IF s < i /\ s \in Dying(f)
              THEN \E k : Falls(r.events, s) = {k} /\ r.events[k].at = f.champions[s].at
              ELSE Falls(r.events, s) = {}

LEMMA AnnounceTells ==
  ASSUME NEW f \in Undecided, NEW r \in Undecided, NEW i \in Places, Fallen(f, r, i),
         NEW died \in Passing,
         died.who = i, died.fell <=> i \in Dying(f), died.at = f.champions[i].at,
         NEW v, v = Announce(r, died)
  PROVE  Fallen(f, v, i + 1)
<1>1. i \in Nat /\ i < i + 1 /\ \A s \in Places : s # i => (s < i <=> s < i + 1)
  BY NumberedFromZero
<1>2. CASE i \notin Dying(f)
  <2>1. v = r
    BY <1>2 DEF Announce
  <2> QED
    BY <1>1, <1>2, <2>1 DEF Fallen
<1>3. CASE i \in Dying(f)
  <2>1. PICK e \in Event : e = Death(i, died.at) /\ e.kind = "Death" /\ e.who = i /\ e.at = f.champions[i].at
    <3>1. Death(i, died.at) \in Event
      BY DEF Passing, Death, Event
    <3> QED
      BY <3>1 DEF Death
  <2>2. v = Emit(r, e)
    BY <1>3, <2>1 DEF Announce
  <2>3. v.champions = r.champions /\ v.towers = r.towers
    BY <2>2, EmitStays
  <2> SUFFICES ASSUME Len(v.events) < MAX_EVENTS
               PROVE  /\ Len(f.events) < MAX_EVENTS /\ Amounts(v.events) = Amounts(f.events)
                      /\ \A s \in Places :
                           IF s < i + 1 /\ s \in Dying(f)
                             THEN \E k : Falls(v.events, s) = {k} /\ v.events[k].at = f.champions[s].at
                             ELSE Falls(v.events, s) = {}
    BY <2>3 DEF Fallen
  <2>4. PICK q \in Seq(Event) : q = r.events /\ Len(q) < MAX_EVENTS /\ v.events = Append(q, e)
    BY <2>2, EmitGrows
  <2>5. /\ Len(f.events) < MAX_EVENTS /\ Amounts(q) = Amounts(f.events)
        /\ \A s \in Places :
             IF s < i /\ s \in Dying(f)
               THEN \E k : Falls(q, s) = {k} /\ q[k].at = f.champions[s].at
               ELSE Falls(q, s) = {}
    BY <2>4 DEF Fallen
  <2>6. Amounts(v.events) = Amounts(q)
    BY <2>1, <2>4, AmountsAre, TakingIs
  <2> DEFINE told == v.events
  <2>7. Longer(told, q, e) /\ FallOf(e, i) /\ \A s : s # i => ~FallOf(e, s)
    BY <2>1, <2>4 DEF FallOf, Longer
  <2> HIDE DEF told
  <2>8. ASSUME NEW s \in Places
        PROVE  IF s < i + 1 /\ s \in Dying(f)
                 THEN \E k : Falls(v.events, s) = {k} /\ v.events[k].at = f.champions[s].at
                 ELSE Falls(v.events, s) = {}
    <3>1. CASE s = i
      <4>1. Falls(q, i) = {}
        BY <1>1, <2>5
      <4>2. Falls(told, i) = {Len(q) + 1} /\ told[Len(q) + 1] = e
        BY <2>7, <4>1, OneFalls
      <4> QED
        BY <1>1, <1>3, <2>1, <3>1, <4>2 DEF told
    <3>2. CASE s # i
      <4>1. ~FallOf(e, s)
        BY <2>7, <3>2
      <4>3. Falls(told, s) = Falls(q, s) /\ Agree(told, q, s)
        BY <2>7, <4>1, OthersFellBefore
      <4>2. s < i <=> s < i + 1
        BY <1>1, <3>2
      <4> QED
        BY <2>5, <4>2, <4>3 DEF told, Agree
    <3> QED
      BY <3>1, <3>2
  <2> QED
    BY <2>5, <2>6, <2>8
<1> QED
  BY <1>2, <1>3

LEMMA DeathsTell ==
  ASSUME NEW a \in Worlds, NEW f \in Undecided, Tally(a, f)
  PROVE  Fallen(f, ResolveDeaths(f), Cardinality(Places))
<1> DEFINE n == Len(SeatOrder)
<1>1. Buried(f) \in Undecided /\ Died(f) \in Seq(Passing)
  BY BuriedStays, DiedIs
<1>2. n \in Nat /\ n = Cardinality(Places) /\ DOMAIN SeatOrder = 1..n
  BY EverySeatOnce
<1>3. Len(Died(f)) = n /\ DOMAIN Died(f) = 1..n
  <2>1. DOMAIN Died(f) = 1..n
    BY <1>2 DEF Died
  <2>2. PICK m \in Nat : m = Len(Died(f)) /\ DOMAIN Died(f) = 1..m
    BY <1>1, LenProperties
  <2>3. 1..m = 1..n
    BY <2>1, <2>2
  <2> HIDE DEF n
  <2>4. m = n
    BY <1>2, <2>3
  <2> QED
    BY <2>1, <2>2, <2>4
<1>4. ResolveDeaths(f) = Deaths!Folded(Buried(f), Died(f))
  BY DEF ResolveDeaths, FoldLeft, MapThenFoldSet, Max, Deaths!Folded, Deaths!Greatest
<1>5. PICK run \in [0..Len(Died(f)) -> Undecided] :
        /\ run[0] = Buried(f)
        /\ \A i \in 1..Len(Died(f)) : run[i] = Announce(run[i - 1], Died(f)[i])
        /\ Deaths!Folded(Buried(f), Died(f)) = run[Len(Died(f))]
  BY <1>1, AnnounceStays, Deaths!FoldRuns
<1> DEFINE S == {i \in 0..n : Fallen(f, run[i], i)}
<1> HIDE DEF n
<1>6. 0 \in S
  <2>1. PICK b : b = Buried(f) /\ b.events = f.events /\ b.towers = f.towers
    <3>1. PICK cs : Buried(f) = [f EXCEPT !.champions = cs]
      BY DEF Buried
    <3> QED
      BY <3>1 DEF Undecided, Worlds
  <2>2. ASSUME Len(f.events) < MAX_EVENTS, NEW s \in Places PROVE Falls(f.events, s) = {}
    BY <2>2 DEF Tally, Accounts, Falls
  <2>3. \A s \in Places : ~(s < 0)
    BY NumberedFromZero
  <2>4. Fallen(f, b, 0)
    BY <2>1, <2>2, <2>3 DEF Fallen
  <2> QED
    BY <1>2, <1>5, <2>1, <2>4
<1>7. ASSUME NEW i \in 0..(n - 1), i \in S PROVE i + 1 \in S
  <2>1. i + 1 \in 1..n /\ i + 1 \in 0..n /\ i \in 0..n /\ (i + 1) - 1 = i /\ i \in Nat
    BY <1>2
  <2>2. SeatOrder[i + 1] = i /\ i \in Places
    BY <2>1, EverySeatOnce, OrdersAre DEF n
  <2>3. PICK died \in Passing : died = Died(f)[i + 1]
    BY <1>1, <1>3, <2>1
  <2>4. died = [who |-> i, fell |-> i \in Dying(f), at |-> f.champions[i].at]
    BY <1>2, <2>1, <2>2, <2>3 DEF Died
  <2>5. died.who = i /\ (died.fell <=> i \in Dying(f)) /\ died.at = f.champions[i].at
    BY <2>4
  <2>6. PICK r \in Undecided : r = run[i]
    BY <1>3, <1>5, <2>1
  <2>7. run[i + 1] = Announce(r, died)
    BY <1>3, <1>5, <2>1, <2>3, <2>6
  <2>8. Fallen(f, r, i)
    BY <1>7, <2>6
  <2>9. Fallen(f, run[i + 1], i + 1)
    BY <2>2, <2>5, <2>7, <2>8, AnnounceTells
  <2> QED
    BY <2>1, <2>9
<1> HIDE DEF S
<1>8. \A i \in 0..n : i \in S
  BY <1>2, <1>6, <1>7, Deaths!CountingUp
<1>9. n \in S
  BY <1>2, <1>8
<1>10. Fallen(f, run[n], n)
  BY <1>9 DEF S
<1> QED
  BY <1>2, <1>3, <1>4, <1>5, <1>10

-----------------------------------------------------------------------------
(* A tick, from how everybody enters it.                                   *)
Entered(w, s) == IF Alive(w, s) THEN w.champions[s] ELSE Fresh(s)

LEMMA EnteringIs ==
  ASSUME NEW w \in Undecided, NEW a, a = GrantRespawns(TickCooldowns(Quiet(w)))
  PROVE  /\ a \in Undecided /\ Tally(a, a) /\ a.events = <<>>
         /\ \A t \in Towers : a.towers[t].hp = w.towers[t].hp
         /\ \A s \in Places :
              /\ Alive(w, s) => Alive(a, s)
              /\ Alive(a, s) => /\ a.champions[s].hp = Entered(w, s).hp
                                /\ a.champions[s].at = Entered(w, s).at
<1>1. PICK q \in Undecided : q = Quiet(w) /\ q.champions = w.champions /\ q.towers = w.towers /\ q.events = <<>>
  <2>1. Quiet(w).champions = w.champions /\ Quiet(w).towers = w.towers /\ Quiet(w).events = <<>>
    BY DEF Quiet, Undecided, Worlds
  <2> QED
    BY <2>1, QuietStays
<1>2. PICK c \in Undecided : c = TickCooldowns(q)
  BY TickCooldownsStays
<1>3. /\ c.events = <<>>
      /\ \A s \in Places : SameBody(w.champions[s], c.champions[s]) /\ c.champions[s].at = w.champions[s].at
      /\ \A t \in Towers : c.towers[t].hp = w.towers[t].hp
  <2>1. PICK cs : cs = [s \in Places |-> Cooler(q.champions[s])]
    OBVIOUS
  <2>2. PICK ts : ts = [t \in Towers |-> CoolerTower(q.towers[t])]
    OBVIOUS
  <2>3. c = [q EXCEPT !.champions = cs, !.towers = ts]
    BY <1>2, <2>1, <2>2 DEF TickCooldowns
  <2>4. c.events = <<>> /\ c.champions = cs /\ c.towers = ts
    BY <1>1, <2>3 DEF Undecided, Worlds
  <2>5. ASSUME NEW s \in Places
        PROVE  SameBody(w.champions[s], cs[s]) /\ cs[s].at = w.champions[s].at
    <3>1. w.champions[s] \in Champion /\ cs[s] = Cooler(w.champions[s])
      BY <1>1, <2>1, ChampionIs DEF Undecided
    <3> QED
      BY <3>1, CoolerKeeps
  <2>6. ASSUME NEW t \in Towers PROVE ts[t].hp = w.towers[t].hp
    <3>1. PICK u \in Tower : u = w.towers[t]
      BY DEF Undecided, Worlds
    <3>2. ts[t] = CoolerTower(u)
      BY <1>1, <2>2, <3>1
    <3> QED
      BY <3>1, <3>2 DEF CoolerTower, Tower
  <2> QED
    BY <2>4, <2>5, <2>6
<1>4. a \in Undecided
  BY <1>1, <1>2, GrantRespawnsStays
<1>5. PICK cs : /\ cs = [s \in Places |-> IF ~Alive(c, s) /\ c.tick >= c.champions[s].respawn_at
                                          THEN Fresh(s) ELSE c.champions[s]]
                /\ a = [c EXCEPT !.champions = cs]
  BY <1>1, <1>2 DEF GrantRespawns
<1>6. a.champions = cs /\ a.towers = c.towers /\ a.events = <<>>
  BY <1>3, <1>5 DEF Undecided, Worlds
<1>7. ASSUME NEW s \in Places
      PROVE  /\ Alive(w, s) => Alive(a, s)
             /\ Alive(a, s) => /\ a.champions[s].hp = Entered(w, s).hp
                               /\ a.champions[s].at = Entered(w, s).at
  <2>1. (Alive(c, s) <=> Alive(w, s)) /\ (Alive(w, s) => c.champions[s].hp = w.champions[s].hp)
        /\ c.champions[s].at = w.champions[s].at
    BY <1>3 DEF SameBody, Alive
  <2>2. CASE Alive(c, s)
    <3>1. a.champions[s] = c.champions[s]
      BY <1>5, <1>6, <2>2
    <3>2. Alive(a, s) <=> Alive(c, s)
      BY <3>1 DEF Alive
    <3> QED
      BY <2>1, <2>2, <3>1, <3>2 DEF Entered
  <2>3. CASE ~Alive(c, s)
    <3>1. a.champions[s] = Fresh(s) \/ a.champions[s] = c.champions[s]
      BY <1>5, <1>6
    <3>2. a.champions[s] = c.champions[s] => (Alive(a, s) <=> Alive(c, s))
      BY DEF Alive
    <3> QED
      BY <2>1, <2>3, <3>1, <3>2 DEF Entered
  <2> QED
    BY <2>2, <2>3
<1>8. Tally(a, a)
  <2>1. Amounts(a.events) = Untouched
    BY <1>6, NothingCosts
  <2>2. \A id \in Handle : Untouched[id] = 0
    BY DEF Untouched, Handle
  <2>3. ASSUME NEW s \in Places
        PROVE  Untouched[s] = 0 /\ (Alive(a, s) => a.champions[s].hp = AtLeast(a.champions[s].hp - 0, 0))
    <3>1. Untouched[s] = 0
      BY <2>2, HandlesAreNumbers
    <3>2. ASSUME Alive(a, s) PROVE a.champions[s].hp \in Nat
      <4>1. PICK d \in Living : d = a.champions[s]
        BY <1>4, <3>2, ChampionIs DEF Undecided
      <4>2. PICK most \in Nat : most = Rules.champion_max_hp
        BY RulesAre
      <4>3. d.hp \in 0..most
        BY <4>2 DEF Living
      <4> QED
        BY <4>1, <4>3
    <3> QED
      BY <3>1, <3>2 DEF AtLeast
  <2>4. ASSUME NEW t \in Towers
        PROVE  Untouched[TowerId(t)] = 0 /\ a.towers[t].hp = AtLeast(a.towers[t].hp - 0, 0)
    <3>1. Untouched[TowerId(t)] = 0
      BY <2>2 DEF Handle
    <3>2. a.towers[t].hp \in Nat
      <4>1. PICK u \in Tower : u = a.towers[t]
        BY <1>4 DEF Undecided, Worlds
      <4>2. PICK most \in Nat : most = Rules.tower_max_hp
        BY RulesAre
      <4>3. u.hp \in 0..most
        BY <4>2 DEF Tower
      <4> QED
        BY <4>1, <4>3
    <3> QED
      BY <3>1, <3>2 DEF AtLeast
  <2> QED
    BY <1>6, <2>1, <2>3, <2>4 DEF Tally, Accounts
<1> QED
  BY <1>3, <1>4, <1>6, <1>7, <1>8

(* EveryHitIsTold, of two worlds; and that whoever is alive has hit points *)
(* left, between ticks.                                                    *)
TellsAll(w, v) ==
  /\ \A s \in Places : Explained(s, w.champions[s], v.champions[s], v.events)
  /\ \A t \in Towers :
       v.towers[t].hp = AtLeast(w.towers[t].hp - Amounts(v.events)[TowerId(t)], 0)

Hale(w) == \A s \in Places : Alive(w, s) => w.champions[s].hp > 0

LEMMA HitPointsAre ==
  ASSUME NEW w \in Worlds, NEW s \in Places, Alive(w, s)
  PROVE  w.champions[s].hp \in Nat
<1>1. PICK d \in Living : d = w.champions[s]
  BY ChampionIs
<1>2. PICK most \in Nat : most = Rules.champion_max_hp
  BY RulesAre
<1>3. d.hp \in 0..most
  BY <1>2 DEF Living
<1> QED
  BY <1>1, <1>3

LEMMA BuriedIs ==
  ASSUME NEW f \in Undecided, NEW s \in Places
  PROVE  /\ s \in Dying(f) => ~Alive(Buried(f), s)
         /\ s \notin Dying(f) => Buried(f).champions[s] = f.champions[s]
         /\ Alive(Buried(f), s) => Alive(f, s) /\ Buried(f).champions[s].hp = f.champions[s].hp
                                  /\ f.champions[s].hp > 0
<1>1. PICK cs : cs = [r \in Places |-> IF r \in Dying(f) THEN Body(f.champions[r], r, f.tick)
                                      ELSE f.champions[r]]
  OBVIOUS
<1>2. Buried(f) = [f EXCEPT !.champions = cs]
  BY <1>1 DEF Buried
<1>3. Buried(f).champions = cs
  BY <1>2 DEF Undecided, Worlds
<1>4. CASE s \in Dying(f)
  <2>1. cs[s] = Body(f.champions[s], s, f.tick)
    BY <1>1, <1>4
  <2>2. cs[s].alive = FALSE
    BY <2>1 DEF Body
  <2> QED
    BY <1>3, <1>4, <2>2 DEF Alive
<1>5. CASE s \notin Dying(f)
  <2>1. cs[s] = f.champions[s]
    BY <1>1, <1>5
  <2>2. ASSUME Alive(f, s) PROVE f.champions[s].hp > 0
    <3>1. f.champions[s].hp \in Nat
      BY <2>2, HitPointsAre DEF Undecided
    <3> QED
      BY <1>5, <2>2, <3>1 DEF Dying
  <2> QED
    BY <1>3, <1>5, <2>1, <2>2 DEF Alive
<1> QED
  BY <1>4, <1>5

LEMMA TickTells ==
  ASSUME NEW w \in Undecided, NEW inputs \in Seq(Ordering), NEW v, v = Played(w, inputs)
  PROVE  Hale(v) /\ (Len(v.events) < MAX_EVENTS => TellsAll(w, v))
<1>1. PICK a \in Undecided : a = GrantRespawns(TickCooldowns(Quiet(w))) /\ Tally(a, a)
  BY EnteringIs
<1>2. a \in Worlds
  BY DEF Undecided
<1>3. PICK b \in Undecided : b = FoldLeft(ApplyInput, a, inputs) /\ Tally(a, b) /\ Still(a, b)
  BY <1>1, <1>2, PhasesStay, PhasesTell
<1>4. PICK c \in Undecided : c = FoldLeft(MoveChampion, b, SeatOrder)
  BY PhasesStay
<1>5. Tally(a, c) /\ \A s \in Places : Within(c.champions[s].at, b.champions[s].at, Rules.champion_speed)
  BY <1>2, <1>3, <1>4, WalksTell
<1>6. PICK d \in Undecided : d = FoldLeft(AdvanceProjectile, c, SlotOrder) /\ Tally(a, d) /\ Still(c, d)
  BY <1>2, <1>5, PhasesStay, PhasesTell
<1>7. PICK e \in Undecided : e = FoldLeft(FireTower, d, TowerOrder) /\ Tally(a, e) /\ Still(d, e)
  BY <1>2, <1>6, PhasesStay, PhasesTell
<1>8. PICK f \in Undecided : f = FoldLeft(BasicAttack, e, SeatOrder) /\ Tally(a, f) /\ Still(e, f)
  BY <1>2, <1>7, PhasesStay, PhasesTell
<1>9. PICK g \in Undecided : g = ResolveDeaths(f) /\ Fallen(f, g, Cardinality(Places))
  BY <1>2, <1>8, PhasesStay, DeathsTell
<1>10. v.champions = g.champions /\ v.towers = g.towers /\ v.events = g.events
  <2>1. PICK h : h = DecideOutcome(g)
    OBVIOUS
  <2>2. h \in Worlds /\ h.champions = g.champions /\ h.towers = g.towers /\ h.events = g.events
    <3>1. h \in Worlds
      BY <2>1, DecideOutcomeStays
    <3>2. h = g \/ \E o : h = [g EXCEPT !.outcome = o]
      BY <2>1 DEF DecideOutcome
    <3> QED
      BY <3>1, <3>2 DEF Undecided, Worlds
  <2>3. v = Later(h)
    BY <1>1, <1>3, <1>4, <1>6, <1>7, <1>8, <1>9, <2>1 DEF Played
  <2> QED
    BY <2>2, <2>3 DEF Later, Worlds
<1>11. v.champions = Buried(f).champions /\ v.towers = f.towers
  BY <1>9, <1>10 DEF Fallen
<1>12. Hale(v)
  BY <1>11, BuriedIs DEF Hale, Alive
<1> SUFFICES ASSUME Len(v.events) < MAX_EVENTS
             PROVE  TellsAll(w, v)
  BY <1>12
<1>13. /\ Accounts(a, f) /\ Amounts(v.events) = Amounts(f.events)
       /\ \A s \in Places :
            IF s \in Dying(f)
              THEN \E k : Falls(v.events, s) = {k} /\ v.events[k].at = f.champions[s].at
              ELSE Falls(v.events, s) = {}
  <2>1. \A s \in Places : s < Cardinality(Places)
    BY EverySeatOnce
  <2> QED
    BY <1>8, <1>9, <1>10, <2>1 DEF Fallen, Tally
<1>14. ASSUME NEW s \in Places PROVE Explained(s, w.champions[s], v.champions[s], v.events)
  <2>1. PICK entered : entered = Entered(w, s)
    OBVIOUS
  <2>2. PICK m \in Nat : m = Amounts(v.events)[s]
    <3>1. Amounts(f.events) \in [Handle -> Nat]
      BY AmountsAre DEF Undecided, Worlds
    <3> QED
      BY <1>13, <3>1, HandlesAreNumbers
  <2>3. /\ Alive(w, s) => Alive(a, s)
        /\ Alive(a, s) => a.champions[s].hp = entered.hp /\ a.champions[s].at = entered.at
    BY <1>1, <2>1, EnteringIs
  <2>4. /\ Alive(f, s) <=> Alive(a, s)
        /\ Alive(a, s) => f.champions[s].hp = AtLeast(a.champions[s].hp - m, 0)
        /\ ~Alive(a, s) => m = 0
    BY <1>13, <2>2 DEF Accounts
  <2>5. Within(f.champions[s].at, a.champions[s].at, Rules.champion_speed)
    BY <1>3, <1>5, <1>6, <1>7, <1>8 DEF Still
  <2> DEFINE x == w.champions[s]
             y == v.champions[s]
             falls == Falls(v.events, s)
  <2>6. Explained(s, x, y, v.events) <=>
          \/ y.alive /\ falls = {} /\ y.hp = entered.hp - m /\ y.hp > 0
          \/ ~y.alive /\ ~x.alive /\ falls = {} /\ m = 0
          \/ /\ ~y.alive /\ m >= entered.hp
             /\ \E i \in falls : falls = {i} /\ Within(v.events[i].at, entered.at, Rules.champion_speed)
    BY <2>1, <2>2 DEF Explained, Entered, Alive
  <2>7. y.alive <=> Alive(v, s)
    BY DEF Alive
  <2>8. x.alive <=> Alive(w, s)
    BY DEF Alive
  <2>9. Alive(v, s) <=> Alive(Buried(f), s)
    BY <1>11 DEF Alive
  <2> HIDE DEF x, falls
  <2>10. CASE ~Alive(a, s)
    <3>1. s \notin Dying(f) /\ ~Alive(f, s)
      BY <2>4, <2>10 DEF Dying
    <3>2. ~Alive(v, s)
      BY <2>9, <3>1, BuriedIs
    <3>3. falls = {}
      BY <1>13, <3>1 DEF falls
    <3> QED
      BY <2>3, <2>4, <2>6, <2>7, <2>8, <2>10, <3>2, <3>3 DEF x
  <2>11. CASE Alive(a, s)
    <3>1. PICK hp \in Nat : hp = a.champions[s].hp /\ hp = entered.hp
      BY <1>2, <2>3, <2>11, HitPointsAre
    <3>2. Alive(f, s) /\ f.champions[s].hp = AtLeast(hp - m, 0)
      BY <2>4, <2>11, <3>1
    <3>3. CASE s \in Dying(f)
      <4>1. ~Alive(v, s)
        BY <2>9, <3>3, BuriedIs
      <4>2. m >= hp
        <5>1. AtLeast(hp - m, 0) <= 0
          BY <3>2, <3>3 DEF Dying
        <5> QED
          BY <5>1 DEF AtLeast
      <4>3. \E i \in falls : falls = {i} /\ v.events[i].at = f.champions[s].at
        BY <1>13, <3>3 DEF falls
      <4>4. Within(f.champions[s].at, entered.at, Rules.champion_speed)
        BY <2>3, <2>5, <2>11
      <4> QED
        BY <2>6, <2>7, <3>1, <4>1, <4>2, <4>3, <4>4 DEF x
    <3>4. CASE s \notin Dying(f)
      <4>1. y = f.champions[s]
        BY <1>11, <3>4, BuriedIs
      <4>2. y.alive
        BY <3>2, <4>1 DEF Alive
      <4>3. ~(f.champions[s].hp <= 0)
        BY <3>2, <3>4 DEF Dying
      <4>4. y.hp = hp - m /\ y.hp > 0
        BY <3>2, <4>1, <4>3 DEF AtLeast
      <4>5. falls = {}
        BY <1>13, <3>4 DEF falls
      <4> QED
        BY <2>6, <3>1, <4>2, <4>4, <4>5 DEF x
    <3> QED
      BY <3>3, <3>4
  <2> QED
    BY <2>10, <2>11
<1>15. ASSUME NEW t \in Towers
       PROVE  v.towers[t].hp = AtLeast(w.towers[t].hp - Amounts(v.events)[TowerId(t)], 0)
  <2>1. f.towers[t].hp = AtLeast(a.towers[t].hp - Amounts(f.events)[TowerId(t)], 0)
    BY <1>13 DEF Accounts
  <2>2. a.towers[t].hp = w.towers[t].hp
    BY <1>1, EnteringIs
  <2> QED
    BY <1>11, <1>13, <2>1, <2>2
<1> QED
  BY <1>14, <1>15 DEF TellsAll

LEMMA StepTells ==
  ASSUME NEW w \in Worlds, Hale(w), NEW inputs \in Seq(Ordering), NEW v, v = Step(w, inputs)
  PROVE  Hale(v) /\ (Len(v.events) < MAX_EVENTS => TellsAll(w, v))
<1>1. CASE w.outcome = InProgress
  <2>1. w \in Undecided /\ v = Played(w, inputs)
    BY <1>1 DEF Undecided, Step
  <2> QED
    BY <2>1, TickTells
<1>2. CASE w.outcome # InProgress
  <2>1. v.champions = w.champions /\ v.towers = w.towers /\ v.events = <<>>
    <3>1. PICK q : q = Quiet(w)
      OBVIOUS
    <3>2. q.champions = w.champions /\ q.towers = w.towers /\ q.events = <<>> /\ DOMAIN q = DOMAIN w
      BY <3>1 DEF Quiet, Worlds
    <3>3. v = Later(q)
      BY <1>2, <3>1 DEF Step
    <3> QED
      BY <3>2, <3>3 DEF Later, Worlds
  <2>2. Hale(v)
    BY <2>1 DEF Hale, Alive
  <2>3. PICK m : m = Amounts(v.events) /\ \A id \in Handle : m[id] = 0
    BY <2>1, NothingCosts DEF Untouched, Handle
  <2>4. ASSUME NEW s \in Places PROVE Explained(s, w.champions[s], v.champions[s], v.events)
    <3> DEFINE x == w.champions[s]
    <3>1. Falls(v.events, s) = {}
      BY <2>1 DEF Falls
    <3>2. m[s] = 0
      BY <2>3, HandlesAreNumbers
    <3>3. CASE x.alive
      <4>1. Alive(w, s)
        BY <3>3 DEF Alive
      <4>2. x.hp \in Nat /\ x.hp > 0
        BY <4>1, HitPointsAre DEF Hale
      <4>3. x.hp = x.hp - m[s]
        BY <3>2, <4>2
      <4> HIDE DEF x
      <4> QED
        BY <2>1, <2>3, <3>1, <3>3, <4>2, <4>3 DEF Explained, x
    <3>4. CASE ~x.alive
      <4> HIDE DEF x
      <4> QED
        BY <2>1, <2>3, <3>1, <3>2, <3>4 DEF Explained, x
    <3> QED
      BY <3>3, <3>4
  <2>5. ASSUME NEW t \in Towers
        PROVE  v.towers[t].hp = AtLeast(w.towers[t].hp - Amounts(v.events)[TowerId(t)], 0)
    <3>1. m[TowerId(t)] = 0
      BY <2>3 DEF Handle
    <3>2. PICK hp \in Nat : hp = w.towers[t].hp
      <4>1. PICK u \in Tower : u = w.towers[t]
        BY DEF Worlds
      <4>2. PICK most \in Nat : most = Rules.tower_max_hp
        BY RulesAre
      <4>3. u.hp \in 0..most
        BY <4>2 DEF Tower
      <4> QED
        BY <4>1, <4>3
    <3>3. AtLeast(hp - 0, 0) = hp
      BY DEF AtLeast
    <3> QED
      BY <2>1, <2>3, <3>1, <3>2, <3>3
  <2> QED
    BY <2>2, <2>4, <2>5 DEF TellsAll
<1> QED
  BY <1>1, <1>2

AllHale == world \in Worlds /\ Hale(world)

(* A client that is told every event can follow every health bar: what a   *)
(* tick's hits add up to is what it took from each, and who fell in it is  *)
(* told of once, within a step of where it stood; unless the tick filled   *)
(* the event buffer. step.rs: damage(), "exactly one place where damage    *)
(* can be applied"; resolve_deaths().                                      *)
THEOREM EveryHitPointIsTold ==
  WorldSpec => [][Len(world'.events) < MAX_EVENTS => EveryHitIsTold]_world
<1>1. Hale(NewWorld)
  BY WorldConstants DEF Hale, NewWorld, Fresh
<1>2. WorldInit => AllHale
  BY <1>1, NewWorldIs DEF WorldInit, AllHale
<1>3. ASSUME world \in Worlds, Hale(world), WorldNext
      PROVE  Hale(world') /\ (Len(world'.events) < MAX_EVENTS => EveryHitIsTold)
  <2>1. PICK inputs \in Slices(world) : world' = Step(world, inputs)
    BY <1>3 DEF WorldNext, PlayTick
  <2>2. inputs \in Seq(Ordering)
    BY <1>3, SlicesAre
  <2>3. Hale(world') /\ (Len(world'.events) < MAX_EVENTS => TellsAll(world, world'))
    BY <1>3, <2>1, <2>2, StepTells
  <2> QED
    BY <2>3 DEF TellsAll, EveryHitIsTold
<1>4. AllHale /\ (world \in Worlds)' /\ [WorldNext]_world => AllHale'
  <2>1. CASE UNCHANGED world
    BY <2>1 DEF AllHale
  <2>2. CASE WorldNext
    BY <1>3, <2>2 DEF AllHale
  <2> QED
    BY <2>1, <2>2
<1>5. AllHale /\ [WorldNext]_world => [Len(world'.events) < MAX_EVENTS => EveryHitIsTold]_world
  BY <1>3 DEF AllHale
<1> QED
  BY <1>2, <1>4, <1>5, WorldIsSound, PTL DEF WorldSpec
=============================================================================
