----------------------------- MODULE MCRecords -----------------------------
(***************************************************************************)
(* What a match leaves behind, one part at a time: the corpus, the formats *)
(* of its files, the evidence in them, their digests, the calibration they *)
(* carry, and the detectors and the evaluation that read them.             *)
(*                                                                         *)
(* Evidence: three matches, the first of both seats with a companion, the  *)
(* second of one of them, the third with none; three changes to the files. *)
(*                                                                         *)
(* Digests: two values of each kind, two changes to one and one to the     *)
(* other, over a hash that takes eight cells at a time, so that padding    *)
(* meets a block that is full, one that is nearly so, and a second block.  *)
(*                                                                         *)
(* Clocks: half milliseconds, an honest clock, one of half its rate and    *)
(* one half as fast again, two epochs.  Evaluation: three matches of two   *)
(* people out of three, and one of bots; three people make a basis.        *)
(***************************************************************************)
EXTENDS MCCorpus, MCFormats, MCCalibration, Reactions, Evidence, Digests, Clocks, Evaluation

(* Evidence.                                                               *)
Put(tick, seat, act) == [tick |-> tick, seat |-> seat, act |-> act, at |-> 1]
Stream(samples)      == [about |-> "here", samples |-> samples]
RecordingOf(m) ==
  IF m = "m2" THEN [seed |-> "s2", ticks |-> 2, inputs |-> <<Put(1, 0, "cast")>>]
  ELSE [seed |-> "s1", ticks |-> 2, inputs |-> <<Put(1, 0, "move"), Put(2, 1, "cast"), Put(2, 0, "idle")>>]
NamesIn(m) == IF m = "m2" THEN (0 :> "p1" @@ 1 :> Nobody) ELSE (0 :> "p1" @@ 1 :> "p2")
StreamsOf(m) ==
  CASE m = "m1" -> Some(0 :> Some(Stream(<<"move", "view", "press">>)) @@ 1 :> Some(Stream(<<"view", "move">>)))
    [] m = "m2" -> Some(0 :> Some(Stream(<<"move", "move", "view">>)) @@ 1 :> None)
    [] m = "m3" -> None
Part(seat, samples, motions) ==
  [seat |-> seat, about |-> "here", samples |-> samples, motions |-> motions, accelerated |-> FALSE]
PartsFor(m) ==
  CASE m = "m1" -> <<Part(0, 2, 1), Part(1, 1, 1)>>
    [] m = "m2" -> <<Part(0, 2, 2)>>
    [] m = "m3" -> <<Part(0, 2, 2), Part(1, 1, 1)>>

(* Digests.                                                                *)
Fighter == [position |-> <<1, 2>>, liveness |-> <<"Alive", 3>>, order |-> <<"Idle">>, cooldowns |-> <<0, 1, 2>>]
Shot    == [id |-> 1, owner |-> 0, position |-> <<1, 1>>, velocity |-> <<0, 1>>, remaining |-> 2]
Fall    == [kind |-> <<"Death", 1>>, at |-> <<0, 1>>]
AState ==
  [tick |-> 1, rng |-> 1, next_projectile_id |-> 1, champions |-> <<Fighter, Fighter>>,
   towers |-> <<[hp |-> 1, cooldown |-> 0]>>, projectiles |-> <<<<Shot>>, Without>>,
   events |-> <<Without, <<Fall>>>>, outcome |-> <<"InProgress">>]
AnInput == [tick |-> 1, seq |-> 1, player |-> 0, action |-> <<"Idle">>]
Originals(k) ==
  CASE k = "state"  -> AState
    [] k = "rules"  -> [key \in {RULES[i] : i \in DOMAIN RULES} |-> 1]
    [] k = "inputs" -> <<AnInput, [AnInput EXCEPT !.action = <<"Move", 1, 2>>]>>

StateEdits(v) ==
  {[v EXCEPT !.tick = 0], [v EXCEPT !.rng = 0], [v EXCEPT !.next_projectile_id = 0],
   [v EXCEPT !.towers[1].hp = 0], [v EXCEPT !.towers[1].cooldown = 1]}
    \cup {[v EXCEPT !.champions[c].position = p] : c \in {1, 2}, p \in {<<2, 1>>, <<1, 0>>}}
    \cup {[v EXCEPT !.champions[c].liveness = l] : c \in {1, 2}, l \in {<<"Dead", 3>>, <<"Alive", 0>>}}
    \cup {[v EXCEPT !.champions[c].order = o] : c \in {1, 2}, o \in {<<"MoveTo", 0, 1>>, <<"Attack", 0>>}}
    \cup {[v EXCEPT !.champions[c].cooldowns = <<1, 0, 2>>] : c \in {1, 2}}
    \cup {[v EXCEPT !.projectiles[s] = p] : s \in {1, 2},
             p \in {Without, <<Shot>>, <<[Shot EXCEPT !.owner = 1]>>}}
    \cup {[v EXCEPT !.events[s] = p] : s \in {1, 2},
             p \in {Without, <<Fall>>, <<[Fall EXCEPT !.kind = <<"Cast", 1, 0>>]>>,
                    <<[Fall EXCEPT !.kind = <<"Damage", 1, 0>>]>>}}
    \cup {[v EXCEPT !.outcome = o] : o \in {<<"Decided", 0, 1>>, <<"InProgress">>}}
InputEdits(v) ==
  {Append(v, AnInput)} \cup (IF v = <<>> THEN {} ELSE {Front(v)})
    \cup {[v EXCEPT ![i].action = a] : i \in DOMAIN v,
             a \in {<<"Idle">>, <<"Move", 1, 1>>, <<"Skillshot", 1, 1>>, <<"Targeted", 1>>, <<"Attack", 1>>}}
    \cup {[v EXCEPT ![i].tick = 0] : i \in DOMAIN v} \cup {[v EXCEPT ![i].player = 1] : i \in DOMAIN v}
EditsOf(k, v) ==
  CASE k = "state"  -> StateEdits(v)
    [] k = "rules"  -> {[v EXCEPT ![key] = 0] : key \in DOMAIN v}
    [] k = "inputs" -> InputEdits(v)
TwoAndOne == <<2, 1>>

(* Clocks and evaluation.                                                  *)
Speeds == {<<1, 1>>, <<1, 2>>, <<3, 2>>}

Match_(id, who, degraded, half, scores) ==
  [id |-> id, bot |-> FALSE, people |-> who, supervision |-> "in-person", degraded |-> degraded,
   full |-> FALSE, half |-> half, scores |-> scores]
OfBots ==
  [id |-> 5, bot |-> TRUE, people |-> {}, supervision |-> "none", degraded |-> FALSE,
   full |-> FALSE, half |-> "train", scores |-> <<0, 0>>]
Several ==
  {Match_(id, who, degraded, half, scores) :
     id \in {1, 2, 3}, who \in {{"ana", "bea"}, {"bea", "cal"}}, degraded \in BOOLEAN,
     half \in {"train", "holdout"}, scores \in {<<3, Abstained>>, <<7, 2>>}} \cup {OfBots}

-----------------------------------------------------------------------------
VARIABLE subject   \* which of the eight this behaviour is about

Unused == <<>>     \* the state of what it is not about

MCInit ==
  /\ subject \in {"corpus", "formats", "evidence", "digests", "calibration", "reactions", "clocks", "evaluation"}
  /\ Init /\ CalInit /\ EvalInit
  /\ IF subject = "formats" THEN FInit
     ELSE fkind = Unused /\ origin = Unused /\ copy = Unused /\ damage = Unused
  /\ IF subject = "evidence" THEN EInit
     ELSE of_ = Unused /\ rep = Unused /\ com = Unused /\ parts = Unused /\ keys = Unused /\ trail = Unused
  /\ IF subject = "digests" THEN DInit ELSE kinds = Unused /\ copies = Unused /\ edits = Unused
  /\ RInit /\ (subject # "reactions" => player = {})
  /\ CInit /\ (subject # "clocks" => clock = [rate |-> <<1, 1>>, offset |-> 0])

MCNext ==
  /\ UNCHANGED subject
  /\ \/ subject = "corpus" /\ Next
        /\ UNCHANGED <<fvars, evars, dvars, calvars, rvars, cvars, evalvars>>
     \/ subject = "formats" /\ FNext
        /\ UNCHANGED <<vars, evars, dvars, calvars, rvars, cvars, evalvars>>
     \/ subject = "evidence" /\ ENext
        /\ UNCHANGED <<vars, fvars, dvars, calvars, rvars, cvars, evalvars>>
     \/ subject = "digests" /\ DNext
        /\ UNCHANGED <<vars, fvars, evars, calvars, rvars, cvars, evalvars>>
     \/ subject = "calibration" /\ CalNext
        /\ UNCHANGED <<vars, fvars, evars, dvars, rvars, cvars, evalvars>>
     \/ subject = "reactions" /\ RNext
        /\ UNCHANGED <<vars, fvars, evars, dvars, calvars, cvars, evalvars>>
     \/ subject = "clocks" /\ CNext
        /\ UNCHANGED <<vars, fvars, evars, dvars, calvars, rvars, evalvars>>
     \/ subject = "evaluation" /\ EvalNext
        /\ UNCHANGED <<vars, fvars, evars, dvars, calvars, rvars, cvars>>

MCSpec == MCInit /\ [][MCNext]_<<subject, vars, fvars, evars, dvars, calvars, rvars, cvars, evalvars>>

-----------------------------------------------------------------------------
\* Formats.tla: every value reads back as itself, what decodes is the one
\* encoding of what it decodes to, and a file cut short is not read.
FormatsAreFaithful == subject = "formats" => RoundTrips /\ DecodedIsCanonical /\ TornIsNoticed

\* Evidence.tla: what verifies is what was sealed, every way it could fail to
\* is told apart, and files that were stored belong together.
EvidenceIsVerified == subject = "evidence" => VerifiedIsAsSealed /\ EachIsToldApart /\ FiledBelongTogether

\* Digests.tla: two states, input lists or rule sets of one digest are equal,
\* and what is hashed in pieces is hashed as one message.
DigestsTellApart == subject = "digests" => SameDigestSameValue /\ HashedAsOneMessage
=============================================================================
