-------------------------- MODULE MatchRefinement --------------------------
(***************************************************************************)
(* The authority of Match.tla as an implementation of MatchContract: what  *)
(* the contract calls history is the log, and a seat is seated while a     *)
(* session holds it.                                                       *)
(***************************************************************************)
EXTENDS Match

Contract == INSTANCE MatchContract WITH
  MaxPerTick <- MAX_INPUTS_PER_TICK,
  running <- started, seated <- Occupied, history <- log

(* Every behaviour of join, deliver and tick is one the contract allows:   *)
(* whatever is refused, resent or dropped with a surrender, the log only   *)
(* ever grows by a slice of fresh runs of the seated.                      *)
ImplementsContract == Contract!Spec
=============================================================================
