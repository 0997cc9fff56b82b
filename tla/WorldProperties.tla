-------------------------- MODULE WorldProperties --------------------------
(* What the rules of World.tla have to keep, whatever the players do.      *)
EXTENDS World

(* The world the last slice would have made in the other order, or this    *)
(* one again when no two players were in it or a tower fell.               *)
VARIABLE twin

Told(kind)      == {i \in DOMAIN world.events : world.events[i].kind = kind}
Times(e, q)     == Cardinality({i \in DOMAIN q : q[i] = e})
CeilDiv(n, d)   == (n + d - 1) \div d

(* Each term of the table that sizes the event buffer, on its own: a seat  *)
(* casts each ability once in a tick and falls once, and hits are no more  *)
(* than targeted casts, shots that can be in flight, towers and seats.     *)
(* event.rs: derived_max_events(); state.rs: projectiles_in_flight().      *)
PROJECTILES_IN_FLIGHT ==
  Cardinality(Places)
    * CeilDiv(Rules.skillshot_lifetime_ticks, Rules.skillshot_cooldown_ticks)

TargetedCasts == {i \in Told("Cast") : world.events[i].ability = "Targeted"}

EventBudget ==
  /\ Cardinality(InFlight(world)) <= PROJECTILES_IN_FLIGHT
  /\ \A i, j \in Told("Cast") \cup Told("Death") : i # j =>
       LET e == world.events[i]
           f == world.events[j]
       IN  \/ e.who # f.who \/ e.kind # f.kind
           \/ e.kind = "Cast" /\ e.ability # f.ability
  /\ Cardinality(Told("Damage")) <=
       Cardinality(TargetedCasts) + PROJECTILES_IN_FLIGHT
         + Cardinality(Towers) + Cardinality(Places)

(* The match is decided exactly when at most one team has a tower left,    *)
(* the winner is that team, and nothing that flies on afterwards takes it  *)
(* from them.  step.rs: decide_outcome() and the decided-match return.     *)
WinnerStands ==
  /\ world.outcome # InProgress <=> Cardinality(TeamsStanding(world)) <= 1
  /\ world.outcome # InProgress =>
       \/ TeamsStanding(world) = {world.outcome.winner}
       \/ TeamsStanding(world) = {} /\ world.outcome.winner = Head(Teams)

(* What a step did to hit points is what its events say: a client that is  *)
(* told them all and clamps at zero itself could follow every health bar,  *)
(* and a fall is told once, within a step of where the champion stood.     *)
(* The amounts are those before the clamp: event.rs:185 gives them as      *)
(* applied after it, and of the hit that fells, and of those on a champion *)
(* already at zero, more is told than was taken.  step.rs: damage(),       *)
(* "exactly one place where damage can be applied"; resolve_deaths().      *)
Untouched == [id \in Places \cup {TowerId(t) : t \in Towers} |-> 0]

Taking(taken, e) ==
  IF e.kind = "Damage" THEN [taken EXCEPT ![e.who] = @ + e.amount] ELSE taken

Amounts(q) == FoldLeft(Taking, Untouched, q)

Falls(q, s) == {i \in DOMAIN q : q[i].kind = "Death" /\ q[i].who = s}

Explained(s, c, d, events) ==
  LET entered == IF c.alive THEN c ELSE Fresh(s)
      lost    == Amounts(events)[s]
      falls   == Falls(events, s)
  IN  \/ d.alive /\ falls = {} /\ d.hp = entered.hp - lost /\ d.hp > 0
      \/ ~d.alive /\ ~c.alive /\ falls = {} /\ lost = 0
      \/ /\ ~d.alive /\ lost >= entered.hp
         /\ \E i \in falls : falls = {i} /\ Within(events[i].at, entered.at, Rules.champion_speed)

EveryHitIsTold ==
  /\ \A s \in Places :
       Explained(s, world.champions[s], world'.champions[s], world'.events)
  /\ \A t \in Towers :
       world'.towers[t].hp =
         AtLeast(world.towers[t].hp - Amounts(world'.events)[TowerId(t)], 0)

StepIsExplained == EveryHitIsTold /\ EventBudget' /\ WinnerStands'

(* Which of two players' inputs comes first in a slice decides nothing but *)
(* names and the order events are told in, unless a tower falls in that    *)
(* tick: champions hit to zero still act and are still hit.  step.rs:38-41.*)
Shots(w) == {[w.projectiles[i] EXCEPT !.id = 0] : i \in InFlight(w)}

SameButForNames(v, w) ==
  /\ v.champions = w.champions /\ v.towers = w.towers /\ v.outcome = w.outcome
  /\ Shots(v) = Shots(w)
  /\ \A i \in DOMAIN v.events : Times(v.events[i], v.events) = Times(v.events[i], w.events)
  /\ Len(v.events) = Len(w.events)

StandingTowers(w) == {t \in Towers : Standing(w, t)}

OneEach(inputs) == \A i, j \in DOMAIN inputs : inputs[i].player = inputs[j].player => i = j

Contested(inputs) ==
  /\ OneEach(inputs)
  /\ StandingTowers(world') = StandingTowers(world)

TwinNext ==
  \E inputs \in Slices(world) :
    /\ PlayTick(inputs)
    /\ twin' = IF Contested(inputs) THEN Step(world, Reverse(inputs)) ELSE world'

TwinInit == WorldInit /\ twin = world

TwinSpec == TwinInit /\ [][TwinNext]_<<world, twin>>

OrderIsNoAdvantage == SameButForNames(world, twin)

(* Two worlds that differ only in what a team cannot see show its players  *)
(* the same: where unseen enemies are and how they fare, what any enemy    *)
(* intends, who owns a shot, and which slots of the arena are taken.       *)
(* view.rs: "What a client cannot see, it does not receive".               *)
UnseenPoints(w, team) ==
  {p \in -Rules.map_half_extent..Rules.map_half_extent : ~CanSee(w, team, p)}

Hidden(w, team, s) ==
  SeatTeam[s] # team /\ (Alive(w, s) => ~CanSee(w, team, w.champions[s].at))

Scheming(c)     == Resting(Ordered(c, MoveTo(0)), "targeted", 9)
Elsewhere(s, p) == [Fresh(s) EXCEPT !.at = p, !.hp = 1]

AnotherEnemy(w, team) ==
  {PutChampion(w, s, Scheming(w.champions[s])) : s \in {r \in Places : SeatTeam[r] # team}}
    \cup
  {PutChampion(w, x[1], Elsewhere(x[1], x[2])) :
     x \in {r \in Places : Hidden(w, team, r)} \X UnseenPoints(w, team)}

(* The arena with the unseen shots gone, or the owners unknown, or its     *)
(* slots the other way about; or with nothing unseen told of.              *)
Forgetting(w, team) ==
  LET eyes == Eyes(w, team)
  IN  [w EXCEPT !.projectiles =
         [i \in Slots |-> IF w.projectiles[i] # Empty /\ Sees(eyes, w.projectiles[i].at)
                            THEN w.projectiles[i] ELSE Empty]]

Disowned(p) == IF p = Empty THEN Empty ELSE [p EXCEPT !.owner = 0, !.remaining = 1]

AnotherArena(w, team) ==
  {Forgetting(w, team),
   [w EXCEPT !.projectiles = [i \in Slots |-> Disowned(w.projectiles[i])]]}

AnotherOrder(w, team) ==
  {[w EXCEPT !.projectiles = Reverse(@)],
   [w EXCEPT !.events = SelectSeq(@, LAMBDA e : CanSee(w, team, e.at)),
             !.next_projectile_id = NextId(@)]}

ShownTheSame(s, others) ==
  LET shown == ViewFor(world, s)
  IN  \A other \in others : ViewFor(other, s) = shown

EnemiesAreHidden == \A s \in Places : ShownTheSame(s, AnotherEnemy(world, SeatTeam[s]))
ArenaIsHidden    == \A s \in Places : ShownTheSame(s, AnotherArena(world, SeatTeam[s]))
OrderIsHidden    == \A s \in Places : ShownTheSame(s, AnotherOrder(world, SeatTeam[s]))

FogIsOpaque == EnemiesAreHidden /\ ArenaIsHidden /\ OrderIsHidden
=============================================================================
