------------------------------ MODULE Reactions ------------------------------
(***************************************************************************)
(* The reaction detectors (anticheat/src/telemetry.rs, features.rs and     *)
(* detectors.rs), over a match they did not watch: one seat is shown       *)
(* champions by a server whose state frames may be lost, orders against    *)
(* some of them, and leaves a log.  A detector reads the log alone and     *)
(* resimulates what the seat was shown.                                    *)
(*                                                                         *)
(* The seat is played by a person, who orders against anyone on the        *)
(* screen, or by the Reactor of cheat-client/src/bot.rs.  What the rules   *)
(* show a seat in a tick is left open, and is the same when resimulated    *)
(* (World.tla).                                                            *)
(***************************************************************************)
EXTENDS Integers, Sequences, FiniteSets, FiniteSetsExt, SequencesExt

CONSTANTS
  Enemies,                   \* champions of the other teams
  Reflexes,                  \* sets of delays, in ticks: what a Reactor draws from
  HOLD_TICKS,                \* how long a Reactor repeats an order: 20
  MAX_PENDING,               \* MAX_INPUTS_PER_TICK
  FLOOR_MINIMUM_PAIRS, DISPERSION_MINIMUM_PAIRS,
  CENTITICKS,                \* parts of a tick the dispersion is given in: 100
  MaxTicks,                  \* bound: ticks the server runs
  MaxOrders                  \* bound: orders of a person

Ground == "ground"                       \* Idle, a move, a skillshot
Never  == -1

VARIABLES
  player,      \* {} for a person, the delays of a Reactor
  shown,       \* what view_for gave the seat, tick by tick, the first at tick 1
  screen,      \* the newest view that arrived, and its tick
  reactor,     \* what a Reactor remembers
  flight,      \* orders on their way to the server, in the order sent
  log,         \* what was applied: the tick it was stamped with, and who it names
  ordered,     \* bound: orders sent
  (* history, kept while the match runs *)
  open,        \* of every enemy: the tick it appeared, and whether it was ordered against since
  account,     \* the orders that were the first against an appearance
  blind,       \* those against an enemy never shown
  noticed      \* of every appearance: the first frame showing it that arrived

client  == <<screen, reactor, ordered>>
memory == <<open, account, blind, noticed>>
rvars   == <<player, shown, client, flight, log, memory>>

-----------------------------------------------------------------------------
(* The detectors: the log, and what resimulating it shows.                 *)

ShownAt(t) == IF t = 0 THEN {} ELSE shown[t]

\* Sightings::of.  The step that consumed the inputs of tick t - 1 gives the
\* view of tick t.
EntersEarly(e, t)  == t < Len(shown) /\ e \in shown[t + 1] \ ShownAt(t)    \* mutant: stamped with the inputs' tick
EntersAtView(e, t) == t > 0 /\ e \in shown[t] \ ShownAt(t - 1)
Enters(e, t)       == EntersAtView(e, t)
Sightings(e)       == {t \in 0 .. Len(shown) : Enters(e, t)}

EnteredBy(e, tick) == LET before == {t \in Sightings(e) : t <= tick}
                      IN  IF before = {} THEN Never ELSE Max(before)

Naming == SelectSeq(log, LAMBDA input : input.names \in Enemies)

\* Reactions::extract: an appearance is answered once.
IsFirstOfTarget(i) == \A j \in 1 .. i - 1 : Naming[j].names # Naming[i].names     \* mutant
IsFirstOfAppearance(i) ==
  \A j \in 1 .. i - 1 :
    Naming[j].names = Naming[i].names
      => EnteredBy(Naming[j].names, Naming[j].tick) # EnteredBy(Naming[i].names, Naming[i].tick)
IsFirst(i) == IsFirstOfAppearance(i)
Answers(i) == IsFirst(i) /\ EnteredBy(Naming[i].names, Naming[i].tick) # Never

ReactionTo(input) ==
  LET at == EnteredBy(input.names, input.tick)
  IN  [target |-> input.names, sighted_at |-> at, answered_at |-> input.tick, latency |-> input.tick - at]
Answered  == SetToSortSeq({i \in DOMAIN Naming : Answers(i)}, <)
Pairs     == [k \in DOMAIN Answered |-> ReactionTo(Naming[Answered[k]])]
Unsighted == Cardinality({i \in DOMAIN Naming : EnteredBy(Naming[i].names, Naming[i].tick) = Never})

Latencies(pairs) == [k \in DOMAIN pairs |-> pairs[k].latency]
Fastest(numbers)   == Min({numbers[k] : k \in DOMAIN numbers})
Median(numbers)  == SortSeq(numbers, <)[(Len(numbers) + 1) \div 2]
Gap(a, b)        == IF a < b THEN b - a ELSE a - b

\* The mean deviation from the median, in parts of a tick, rounded down.
DispersionByMedian(numbers) ==                                          \* mutant
  CENTITICKS * Median([k \in DOMAIN numbers |-> Gap(numbers[k], Median(numbers))])
DispersionByMean(numbers) ==
  (FoldFunction(LAMBDA n, sum : sum + Gap(n, Median(numbers)), 0, numbers) * CENTITICKS) \div Len(numbers)
Dispersion(numbers) == DispersionByMean(numbers)

Abstains == [score |-> Never]
ReactionFloor(pairs) ==
  IF Len(pairs) < FLOOR_MINIMUM_PAIRS THEN Abstains ELSE [score |-> Fastest(Latencies(pairs))]
ReactionDispersion(pairs) ==
  IF Len(pairs) < DISPERSION_MINIMUM_PAIRS THEN Abstains ELSE [score |-> Dispersion(Latencies(pairs))]

-----------------------------------------------------------------------------
(* Playing.                                                                *)

Unmoved == [visible |-> {}, due |-> {}, holding |-> Ground, until |-> 0]

\* Reactor::observe: everyone who has just appeared is due an answer after a
\* delay; the oldest that has come due is answered, and the others with it.
Reacts(view, tick, delays, sent) ==
  LET due   == reactor.due \cup {[target |-> e, at |-> tick + delays[e]] :
                                   e \in view \ reactor.visible}
      ripe  == {d \in due : d.at <= tick}
      held  == reactor.holding # Ground /\ tick < reactor.until
  IN  \/ /\ ripe # {}
         /\ \E d \in ripe :
              /\ \A o \in ripe : d.at <= o.at
              /\ reactor' = [visible |-> view, due |-> due \ ripe,
                             holding |-> d.target, until |-> tick + HOLD_TICKS]
              /\ flight' = Append(sent, d.target)
      \/ /\ ripe = {}
         /\ reactor' = [visible |-> view, due |-> due,
                        holding |-> IF held THEN reactor.holding ELSE Ground,
                        until |-> IF held THEN reactor.until ELSE 0]
         /\ flight' = Append(sent, IF held THEN reactor.holding ELSE Ground)

Orders ==                        \* a click on someone drawn
  /\ player = {} /\ ordered < MaxOrders /\ screen.tick > 0
  /\ \E e \in screen.view : flight' = Append(flight, e)
  /\ ordered' = ordered + 1
  /\ UNCHANGED <<player, shown, screen, reactor, log, memory>>

-----------------------------------------------------------------------------
(* The server.                                                             *)

\* deliver(): of those that arrived since the last tick, the ones past the
\* bound are refused.
Pending(arrived) == SubSeq(flight, 1, Min({arrived, MAX_PENDING}))

Answering(e, pending) == e \in Range(pending) /\ open[e].since # Never /\ ~ open[e].answered

\* The tick's first order against each such enemy, in the order applied.
Accounted(now, pending) ==
  LET first(k) == /\ pending[k] \in Enemies /\ Answering(pending[k], pending)
                  /\ \A j \in 1 .. k - 1 : pending[j] # pending[k]
      firsts   == SetToSortSeq({k \in DOMAIN pending : first(k)}, <)
  IN  account \o [i \in DOMAIN firsts |->
         LET e == pending[firsts[i]]
         IN  [target |-> e, sighted_at |-> open[e].since,
              answered_at |-> now, latency |-> now - open[e].since]]

Shows(view, pending, got) ==
  LET now == Len(shown)
  IN  /\ log' = log \o [k \in DOMAIN pending |-> [tick |-> now, names |-> pending[k]]]
      /\ shown' = Append(shown, view)
      /\ account' = Accounted(now, pending)
      /\ blind' = blind + Len(SelectSeq(pending, LAMBDA e : e \in Enemies /\ open[e].since = Never))
      /\ open' = [e \in Enemies |->
            IF e \in view /\ e \notin ShownAt(now) THEN [since |-> now + 1, answered |-> FALSE]
            ELSE [open[e] EXCEPT !.answered = @ \/ Answering(e, pending)]]
      /\ noticed' = IF got
                      THEN noticed \cup {[target |-> e, since |-> open'[e].since, at |-> now + 1] :
                             e \in {c \in view :
                                      ~ \E n \in noticed : n.target = c /\ n.since = open'[c].since}}
                      ELSE noticed

Tick ==            \* its frame is lost, or arrives before the next
  /\ Len(shown) < MaxTicks
  /\ \E view \in SUBSET Enemies, got \in BOOLEAN, arrived \in 0 .. Len(flight) :
       LET left == SubSeq(flight, arrived + 1, Len(flight))
       IN  /\ Shows(view, Pending(arrived), got)
           /\ screen' = IF got THEN [tick |-> Len(shown'), view |-> view] ELSE screen
           /\ IF got /\ player # {}
                THEN \E delays \in [Enemies -> player] : Reacts(view, Len(shown'), delays, left)
                ELSE reactor' = reactor /\ flight' = left
  /\ UNCHANGED <<player, ordered>>

RInit ==
  /\ player \in Reflexes \cup {{}}
  /\ shown = <<>> /\ screen = [tick |-> 0, view |-> {}]
  /\ reactor = Unmoved
  /\ flight = <<>> /\ log = <<>> /\ ordered = 0
  /\ open = [e \in Enemies |-> [since |-> Never, answered |-> FALSE]]
  /\ account = <<>> /\ blind = 0 /\ noticed = {}

RNext == Orders \/ Tick
RSpec == RInit /\ [][RNext]_rvars

-----------------------------------------------------------------------------
(* What the detector extracts afterwards is what happened: one reaction    *)
(* for each appearance the server answered to, taken from the view that    *)
(* showed it to the first order stamped since, and nobody who orders       *)
(* against those on its screen alone, person or bot, is ever counted as    *)
(* having named someone it was not shown.  Reactions::extract() over       *)
(* Sightings::of(), with `the same number' of telemetry.rs:395.            *)
ReadsWhatHappened == Pairs = account /\ Unsighted = blind
HonestIsSighted   == Unsighted = 0
NoneIsEarly       == \A k \in DOMAIN Pairs : Pairs[k].latency >= 0
ReactionsAreReal  == ReadsWhatHappened /\ HonestIsSighted /\ NoneIsEarly

(* A statistic that reports no variation about somebody who varied is what *)
(* features.rs:193-200 says it must not be.  Rounded down, this one does so *)
(* of somebody who varied by fewer ticks in all than pairs / CENTITICKS: a *)
(* zero means one latency, which reaction-dispersion.md:102 says of every  *)
(* zero, up to CENTITICKS pairs.  And a seat that answered too few         *)
(* appearances is not scored as one that answered at once.                 *)
VariationIsSeen ==
  LET spread == ReactionDispersion(Pairs)
      floor  == ReactionFloor(Pairs)
      alike  == Cardinality(Range(Latencies(Pairs))) = 1
  IN  /\ spread # Abstains =>
            /\ alike => spread.score = 0
            /\ spread.score = 0 => alike \/ Len(Pairs) > CENTITICKS
      /\ floor # Abstains =>
            Cardinality({k \in DOMAIN Pairs : Pairs[k].latency >= floor.score}) >= FLOOR_MINIMUM_PAIRS

DetectorReadsTheMatch == ReactionsAreReal /\ VariationIsSeen

(* ``Every reaction latency computed from this is therefore an             *)
(* underestimate'' (telemetry.rs:34-36): of an order given after the       *)
(* appearance had reached the screen, no more than what the seat took.     *)
LatencyIsUnderestimated ==
  \A k \in DOMAIN Pairs : \A n \in noticed :
    n.target = Pairs[k].target /\ n.since = Pairs[k].sighted_at /\ n.at <= Pairs[k].answered_at
      => Pairs[k].latency <= Pairs[k].answered_at - n.at
=============================================================================
