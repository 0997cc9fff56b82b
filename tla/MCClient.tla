------------------------------ MODULE MCClient ------------------------------
(***************************************************************************)
(* What one player is told, and what its client makes of it: predicted     *)
(* movement, private handles, queued events and the lobby it crosses       *)
(* first, one at a time.                                                   *)
(*                                                                         *)
(* Prediction: a map of five points with the enemy at its edge; clicks on  *)
(* it and off it.  Four intentions and a rate of two, so that three        *)
(* bunched in one tick meet the rate limit; five ticks, so that views can  *)
(* be missed.                                                              *)
(*                                                                         *)
(* Handles: five for six casts, so that the match's own handles come round *)
(* while projectiles named under them are remembered, and a recipient that *)
(* is shown five has no name for the last.  Room for all that two ticks of *)
(* casting put in flight, as in the code: the channel a full arena would   *)
(* open is not one the handles can close.                                  *)
(*                                                                         *)
(* Events: a queue of four and a frame of two, so that five events in one  *)
(* tick overflow the tick's buffer, two such ticks the queue, and a        *)
(* counter of four saturates.  Three ticks are what a full queue takes to  *)
(* drain and one more.                                                     *)
(*                                                                         *)
(* Lobby: the stations of the code on a map a tenth its size, five moves   *)
(* of the hand, to places on the buttons off their centre, two of them     *)
(* beyond the wall.                                                        *)
(***************************************************************************)
EXTENDS Prediction, HiddenCasts, EventBacklog, Lobby

Grounds == {-1, 3}

Buttons_ ==
  [e \in {"Name", "Consent", "Champion", "Ready"} |->
     CASE e = "Name"     -> <<-90, 95>>
       [] e = "Consent"  -> <<90, 95>>
       [] e = "Champion" -> <<-90, -60>>
       [] e = "Ready"    -> <<90, -60>>]
Dummies ==
  << <<-40, 50>>, <<5, -15>>, <<15, 70>>, <<0, 65>>, <<-5, -75>>, <<10, 40>>, <<25, 35>>, <<-100, 35>>,
     <<-30, -40>>, <<-40, -30>>, <<90, 50>>, <<-65, -80>> >>
Hands == {<<-90, 95>>, <<-96, 104>>, <<85, 92>>, <<-87, -56>>, <<92, -60>>, <<107, -61>>}

-----------------------------------------------------------------------------
VARIABLE topic   \* which of the four this behaviour is about

MCInit ==
  /\ topic \in {"prediction", "handles", "events", "lobby"}
  /\ PredictionInit /\ CastInit /\ BacklogInit /\ LInit

MCNext ==
  /\ UNCHANGED topic
  /\ \/ topic = "prediction" /\ PredictionNext /\ UNCHANGED <<casting, backlog, lvars>>
     \/ topic = "handles" /\ CastNext /\ UNCHANGED <<allVars, backlog, lvars>>
     \/ topic = "events"  /\ TellTick /\ UNCHANGED <<allVars, casting, lvars>>
     \/ topic = "lobby"   /\ LNext    /\ UNCHANGED <<allVars, casting, backlog>>

MCSpec == MCInit /\ [][MCNext]_<<topic, allVars, casting, backlog, lvars>>
=============================================================================
