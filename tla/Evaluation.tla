------------------------------ MODULE Evaluation ------------------------------
(***************************************************************************)
(* What may be claimed from a corpus (anticheat/src/evaluate.rs,           *)
(* calibration.rs), and the report over it (anticheat/src/bin/             *)
(* anticheat.rs).  Matches are filed and damaged; every report evaluates   *)
(* what is there from nothing.                                             *)
(*                                                                         *)
(* A match is a record: whether a bot played it, who the manifest names,   *)
(* how it was recorded (its stratum: supervision, health, occupancy), its  *)
(* half of the split, and what each seat scores, or that it abstains.      *)
(***************************************************************************)
EXTENDS Integers, Sequences, FiniteSets, FiniteSetsExt, SequencesExt

CONSTANTS
  Recorded,          \* matches that may be filed
  MINIMUM_PEOPLE,    \* nine
  MaxFiled           \* bound: matches filed

VARIABLES
  shelf,       \* the matches there are, in the order the directory lists them
  damaged      \* those of which a file does not read

evalvars == <<shelf, damaged>>

NoNumber   == -1
Abstained == NoNumber

-----------------------------------------------------------------------------
(* One group to a population: `it groups, and it will not pool'.           *)
GroupPooled(m)  == IF m.bot THEN <<"synthetic">>                   \* mutant: healthy or not
                   ELSE <<m.supervision, m.full, m.half>>
GroupByAll(m)   == IF m.bot THEN <<"synthetic">>
                   ELSE <<m.supervision, m.degraded, m.full, m.half>>
Group(m)        == GroupByAll(m)
IsSynthetic(g)  == g = <<"synthetic">>

(* evaluate(): match by match into the group it belongs to, its seats'     *)
(* readings into the list of all of them.                                  *)
NoGroups == [groups |-> <<>>, units |-> <<>>]
PlaceOf(groups, g) == SelectInSeq(groups, LAMBDA held : held.group = g)

CountSeats(held, m)  == [held EXCEPT !.matches = @ \cup {m.id},              \* mutant: a person at
                                     !.people = @ \cup {<<p, m.id>> : p \in m.people}]    \* each appearance
CountPeople(held, m) == [held EXCEPT !.matches = @ \cup {m.id}, !.people = @ \cup m.people]
Counted(held, m)     == CountPeople(held, m)

Evaluated(sofar, m) ==
  LET g  == Group(m)
      at == PlaceOf(sofar.groups, g)
      empty == [group |-> g, matches |-> {}, people |-> {}]
  IN  [groups |-> IF at = 0 THEN Append(sofar.groups, Counted(empty, m))
                  ELSE [sofar.groups EXCEPT ![at] = Counted(@, m)],
       units  |-> sofar.units \o [i \in DOMAIN m.scores |-> [group |-> g, score |-> m.scores[i]]]]
Evaluate(matches) == FoldLeft(Evaluated, NoGroups, matches)

(* Evaluation::distribution, ::basis and ::bounds, of one group.           *)
DistributionOfAll(e, g) == SelectSeq(e.units, LAMBDA u : u.score # Abstained)             \* mutant
DistributionOf(e, g)    == SelectSeq(e.units, LAMBDA u : u.score # Abstained /\ u.group = g)
Distribution(e, g)      == SortSeq([i \in DOMAIN DistributionOf(e, g) |-> DistributionOf(e, g)[i].score], <)
Abstentions(e, g)       == Len(SelectSeq(e.units, LAMBDA u : u.score = Abstained /\ u.group = g))

Held(e, g)  == e.groups[PlaceOf(e.groups, g)]
BasisOfPeople(e, g) ==
  /\ ~ IsSynthetic(g) /\ PlaceOf(e.groups, g) # 0
  /\ Cardinality(Held(e, g).people) >= MINIMUM_PEOPLE
HasBasis(e, g) == BasisOfPeople(e, g)

(* 3/N, in thousandths; of none, nothing.                                  *)
Permille(n)  == IF n = 0 THEN NoNumber ELSE 3000 \div n
Bounds(e, g) == IF PlaceOf(e.groups, g) = 0 THEN <<NoNumber, NoNumber>>
                ELSE <<Permille(Cardinality(Held(e, g).people)), Permille(Cardinality(Held(e, g).matches))>>

-----------------------------------------------------------------------------
(* report(): what does not read is left out, and said.                     *)
Readable   == SelectSeq(shelf, LAMBDA m : m.id \notin damaged)
Report     == Evaluate(Readable)
Unreadable == {m.id : m \in {n \in Range(shelf) : n.id \in damaged}}
ExitStatus == IF Unreadable = {} THEN "SUCCESS" ELSE "FAILURE"

EvalInit == shelf = <<>> /\ damaged = {}

FileMatch(m) ==
  /\ Len(shelf) < MaxFiled /\ \A held \in Range(shelf) : held.id # m.id
  /\ shelf' = SortSeq(Append(shelf, m), LAMBDA a, b : a.id < b.id)
  /\ UNCHANGED damaged
Damage(m) ==
  /\ damaged' = damaged \cup {m.id} /\ m.id \notin damaged
  /\ UNCHANGED shelf

EvalNext == (\E m \in Recorded : FileMatch(m)) \/ (\E m \in Range(shelf) : Damage(m))
EvalSpec == EvalInit /\ [][EvalNext]_evalvars

-----------------------------------------------------------------------------
(* A threshold may be fixed only on as many people as the milestone asks   *)
(* for, who played, each of them, a match that reads of the one stratum    *)
(* and half it is said to be of, and never on a bot; what a group          *)
(* distributes is what its own matches' seats score; and the two bounds    *)
(* are never better than one observation a person or a match allows.       *)
(* Evaluation::basis(), ::distribution(), Group::of().                     *)
Alike(m, n) == /\ m.bot = n.bot
               /\ m.bot \/ (m.supervision = n.supervision /\ m.degraded = n.degraded
                              /\ m.full = n.full /\ m.half = n.half)
BasisIsOneOfPeople ==
  \A i \in DOMAIN Readable :
    LET m     == Readable[i]
        peers == {n \in Range(Readable) : Alike(m, n)}
        crowd == UNION {n.people : n \in peers}
        g     == Group(m)
    IN  /\ HasBasis(Report, g) <=> ~ m.bot /\ Cardinality(crowd) >= MINIMUM_PEOPLE
        /\ Len(Distribution(Report, g)) + Abstentions(Report, g)
             = FoldSet(LAMBDA n, sum : sum + Len(n.scores), 0, peers)
        /\ Range(Distribution(Report, g)) = UNION {Range(n.scores) : n \in peers} \ {Abstained}
        /\ Bounds(Report, g) = <<Permille(Cardinality(crowd)), Permille(Cardinality(peers))>>
=============================================================================
