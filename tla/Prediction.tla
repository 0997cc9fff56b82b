----------------------------- MODULE Prediction -----------------------------
(***************************************************************************)
(* One playing client and the authority: Prediction of                     *)
(* client/src/predict.rs, driven the way Session::advance drives it        *)
(* (client/src/gfx.rs), against the one-seat Match of server/src/lib.rs    *)
(* and the champion rules of sim/src/step.rs.                              *)
(*                                                                         *)
(* Up: a reliable stream.  Down: views in order, some of them missed (what *)
(* StateChannel.tla implements).  The map is a line and a tick of movement *)
(* is one unit of it; both sides call the same step_toward, so its         *)
(* rounding plays no part.  Fighting is a champion that may die or come    *)
(* back at a tick.                                                         *)
(***************************************************************************)
EXTENDS Match, SequencesExt

CONSTANTS
  Half,     \* half the extent of the map
  Spawn,    \* where the champion starts and comes back
  Foe,      \* where the enemy it may be told to attack stands
  Reach,    \* attack_range
  Points,   \* points the player may click, off the map included
  Kinds     \* kinds of intention the player uses

ASSUME PredictionConstants ==
  /\ PLAYER_COUNT = 1
  /\ Half \in Nat /\ Reach \in Nat
  /\ Spawn \in -Half..Half /\ Foe \in -Half..Half
  /\ Points \subseteq Int
  /\ Kinds \subseteq {"Idle", "Move", "Cast", "Attack"}

VARIABLES
  champion,     \* the server's: position, order, alive
  uplink,       \* frames the client has written and nobody has read
  downlink,     \* views the client has not read
  said,         \* the client's intentions; the n-th has sequence number n - 1
  anchor, anchor_order, outstanding, rendered, rendered_from, last,
  earlier,      \* history: the anchor and its order before the last view
  fell          \* history: whether the champion ever died

predictionVars ==
  <<anchor, anchor_order, outstanding, rendered, rendered_from, last, earlier>>
clientVars == <<predictionVars, said>>
allVars    == <<vars, champion, fell, uplink, downlink, clientVars>>

-----------------------------------------------------------------------------
(* The line, and the two functions both sides share.                       *)

Clamp(p) == IF p > Half THEN Half ELSE IF p < -Half THEN -Half ELSE p

Distance(p, q) == IF p < q THEN q - p ELSE p - q

StepToward(p, q) ==
  Clamp(IF Distance(p, q) <= 1 THEN q ELSE IF p < q THEN p + 1 ELSE p - 1)

Idle      == [kind |-> "Idle"]
MoveTo(p) == [kind |-> "MoveTo", to |-> p]
Attack    == [kind |-> "Attack"]
Unknown   == [kind |-> "Unknown"]

Intentions ==
  {i \in [kind : {"Idle", "Cast", "Attack"}] \cup [kind : {"Move"}, to : Points] :
     i.kind \in Kinds}

(* Arrived, an order to walk is done.                                      *)
Settle(p, order) == IF order = MoveTo(p) THEN Idle ELSE order

-----------------------------------------------------------------------------
(* The server's champion: step.rs, one tick.                               *)

(* apply_inputs.  An attack is on a target that resolves.                  *)
Ordered(order, intention) ==
  CASE intention.kind = "Idle"   -> Idle
    [] intention.kind = "Move"   -> MoveTo(Clamp(intention.to))
    [] intention.kind = "Attack" -> Attack
    [] intention.kind = "Cast"   -> order

(* move_champions.                                                         *)
Moved(c) ==
  LET to == CASE c.order.kind = "MoveTo" -> c.order.to
              [] c.order.kind = "Attack" /\ Distance(c.at, Foe) > Reach -> Foe
              [] OTHER -> c.at
      p  == StepToward(c.at, to)
  IN  [c EXCEPT !.at = p, !.order = Settle(p, @)]

(* grant_respawns, resolve_deaths: fresh on the spawn point, with no order.*)
Respawned == [at |-> Spawn, order |-> Idle, alive |-> TRUE]
Fallen    == [Respawned EXCEPT !.alive = FALSE]

Revivals(c) == IF c.alive THEN {} ELSE {Respawned}

(* A champion after the tick that applies `intentions': dead ones act not. *)
Stepped(c, intentions) ==
  IF ~c.alive THEN c
  ELSE Moved([c EXCEPT !.order = FoldLeft(Ordered, @, intentions)])

ViewOf(c, tick, ack) == [tick |-> tick, at |-> c.at, alive |-> c.alive, ack |-> ack,
                         order |-> c.order]   \* `order' is history

ServerTick ==
  /\ Tick
  /\ IF ticks_run' = ticks_run
       THEN UNCHANGED <<champion, fell, downlink>>
       ELSE LET drained == [i \in DOMAIN seats[0].pending |->
                              said[seats[0].pending[i] + 1]]
            IN  /\ \E before \in {champion} \cup Revivals(champion) :
                     LET after == Stepped(before, drained)
                     IN  champion' \in {after} \cup (IF after.alive THEN {Fallen} ELSE {})
                /\ fell' = (fell \/ ~champion'.alive)
                /\ downlink' = Append(downlink, ViewOf(champion', ticks_run', frames'[0]))
  /\ UNCHANGED <<uplink, clientVars>>

(* Seating, and the next frame of the stream reaching deliver().           *)
SitDown == Join /\ UNCHANGED <<champion, fell, uplink, downlink, clientVars>>

ServerReads ==
  /\ seats[0] # Vacant /\ uplink # <<>>
  /\ Deliver(0, Head(uplink))
  /\ uplink' = Tail(uplink)
  /\ UNCHANGED <<champion, fell, downlink, clientVars>>

-----------------------------------------------------------------------------
(* The client.                                                             *)

NoView  == [tick |-> 0]
Nowhere == [kind |-> "nowhere"]   \* Option::None of a drawn position
Nothing == [kind |-> "nothing"]   \* Option::None of a Reconciled

(* Predicted::after.  The mutant stops the walk to cast.                   *)
AfterStoppingToCast(order, intention) ==
  CASE intention.kind \in {"Idle", "Cast"} -> Idle
    [] intention.kind = "Move"   -> MoveTo(Clamp(intention.to))
    [] intention.kind = "Attack" -> Unknown

After(order, intention) ==
  CASE intention.kind = "Idle"   -> Idle
    [] intention.kind = "Move"   -> MoveTo(Clamp(intention.to))
    [] intention.kind = "Cast"   -> order
    [] intention.kind = "Attack" -> Unknown

(* position_after: one tick of movement for each outstanding intention.    *)
(* The mutant walks before it obeys.                                       *)
WalkedFirst(from, intention) ==
  LET p == IF from.order.kind = "MoveTo" THEN StepToward(from.at, from.order.to) ELSE from.at
  IN  [at |-> p, order |-> After(from.order, intention)]

Walked(from, intention) ==
  LET order == After(from.order, intention)
      p     == IF order.kind = "MoveTo" THEN StepToward(from.at, order.to) ELSE from.at
  IN  [at |-> p, order |-> IF order.kind = "MoveTo" THEN Settle(p, order) ELSE order]

Said(queue) == [i \in DOMAIN queue |-> said'[queue[i] + 1]]

Position(view, order, queue) ==
  IF ~view.alive THEN view.at
  ELSE FoldLeft(Walked, [at |-> view.at, order |-> order], Said(queue)).at

(* acknowledged_by: the longest prefix at or below the acknowledgement.    *)
(* The mutant leaves out the number itself.                                *)
AcknowledgedBelow(ack) ==
  CHOOSE n \in 0..Len(outstanding) :
    /\ \A i \in 1..n : outstanding[i] < ack
    /\ n < Len(outstanding) => outstanding[n + 1] >= ack

AcknowledgedBy(ack) ==
  CHOOSE n \in 0..Len(outstanding) :
    /\ \A i \in 1..n : outstanding[i] <= ack
    /\ n < Len(outstanding) => outstanding[n + 1] > ack

(* observe: measure against what was drawn, fold what was acknowledged,    *)
(* and stand on the new view.  The first view makes the prediction.        *)
Observe(view) ==
  LET n == AcknowledgedBy(view.ack)
  IN  /\ last' = IF rendered = Nowhere THEN Nothing
                 ELSE [kind |-> "reconciled", predicted_from |-> rendered_from,
                       acknowledged |-> n, correction |-> Distance(rendered.at, view.at)]
      /\ anchor_order' = FoldLeft(After, anchor_order,
                           [i \in 1..n |-> said[outstanding[i] + 1]])
      /\ outstanding' = Append(SubSeq(outstanding, n + 1, Len(outstanding)), Len(said))
      /\ anchor' = view
      /\ earlier' = [anchor |-> anchor, order |-> anchor_order]

(* intend and sent: one intention, and the position drawn with it.         *)
Intend(intention) ==
  /\ said' = Append(said, intention)
  /\ uplink' = Append(uplink, [kind |-> "Input", seq |-> Len(said)])
  /\ rendered' = [kind |-> "drawn", at |-> Position(anchor', anchor_order', outstanding')]
  /\ rendered_from' = Len(outstanding')

(* Session::advance: one view in, one intention out.                       *)
Advance ==
  /\ Len(said) <= MaxSeq
  /\ \E k \in DOMAIN downlink :
       /\ Observe(downlink[k])
       /\ downlink' = SubSeq(downlink, k + 1, Len(downlink))
  /\ \E intention \in Intentions : Intend(intention)
  /\ UNCHANGED <<vars, champion, fell>>

PredictionInit ==
  /\ Init
  /\ champion = Respawned /\ fell = FALSE
  /\ uplink = <<[kind |-> "Ready"]>> /\ downlink = <<>> /\ said = <<>>
  /\ anchor = NoView /\ anchor_order = Idle /\ outstanding = <<>>
  /\ rendered = Nowhere /\ rendered_from = 0 /\ last = Nothing
  /\ earlier = [anchor |-> NoView, order |-> Idle]

PredictionNext == SitDown \/ ServerReads \/ ServerTick \/ Advance

PredictionSpec == PredictionInit /\ [][PredictionNext]_allVars

-----------------------------------------------------------------------------

(* An intention the client has stopped predicting is one the server has    *)
(* decided about, and the ones it still predicts are all the others, in    *)
(* order: missed and bunched views lose none and fold none in twice.       *)
(* predict.rs: observe() and acknowledged_by().                            *)
NothingForgotten ==
  LET settled == 0..Len(said) - Len(outstanding) - 1
  IN  /\ \A i \in DOMAIN outstanding :
            outstanding[i] = Len(said) - Len(outstanding) + i - 1
      /\ settled \subseteq Logged(0) \cup refusals[0]
      /\ settled = {q \in 0..Len(said) - 1 : anchor # NoView /\ q <= anchor.ack}

(* The order the client believes in at its anchor is the one the server    *)
(* held when it made that view, up to an order that has arrived: folding   *)
(* acknowledged intentions shadows apply_inputs, over any loss of views,   *)
(* while the rate limit refuses none of them and the champion lives.       *)
(* predict.rs: after().                                                    *)
ShadowOfTheOrder ==
  anchor # NoView /\ refusals[0] = {} /\ ~fell =>
    \/ anchor_order.kind = "Unknown"
    \/ Settle(anchor.at, anchor_order) = anchor.order

InLockstep == last # Nothing /\ last.predicted_from = 1 /\ last.acknowledged = 1

(* As the code states it: being in step is the condition under which the   *)
(* prediction must be exact, and only a disagreement about movement could  *)
(* make it otherwise (predict.rs:167-176, client/tests/m4_exit.rs:405-414).*)
(* A death makes it otherwise, and so does a chase or an order the server  *)
(* refused.  Here it is said only of a champion that has never died, and a *)
(* view missed in between breaks it.                                       *)
InStepIsExact == InLockstep /\ ~fell => last.correction = 0

(* No view was missed since the last one, the champion lived through both, *)
(* was not chasing, and the client was right about its order.              *)
Undisturbed ==
  /\ anchor.tick = earlier.anchor.tick + 1
  /\ anchor.alive /\ earlier.anchor.alive
  /\ anchor_order # Unknown
  /\ Settle(earlier.anchor.at, earlier.order) = earlier.anchor.order

(* What does hold of a client in step: when nothing disturbed the          *)
(* prediction either, which the client cannot tell from being in step      *)
(* alone, the champion was drawn where the server then put it.             *)
(* predict.rs: position_after(); step.rs: move_champions().                *)
ExactInStep == InLockstep /\ Undisturbed => last.correction = 0
=============================================================================
