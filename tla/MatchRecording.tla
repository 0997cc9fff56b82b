--------------------------- MODULE MatchRecording ---------------------------
(***************************************************************************)
(* What leaves the authority: Match::recording in server/src/lib.rs, and   *)
(* the verifier's resimulate in replay/src/container.rs, which sees the    *)
(* flat log only and rebuilds the slices from the stamps.                  *)
(***************************************************************************)
EXTENDS Match, SequencesExt

(* A slice as the code lays it out: seat by seat, in Seat::ALL order.      *)
FlatSlice(slice) ==
  FlattenSeq([n \in 1..PLAYER_COUNT |->
    [i \in DOMAIN slice[n - 1] |->
       [tick |-> slice[n - 1][i].tick, player |-> n - 1,
        seq |-> slice[n - 1][i].seq]]])

FlatLog == FlattenSeq([k \in DOMAIN log |-> FlatSlice(log[k])])

(* The world the authority holds: the slices it handed to `step'.          *)
World == [k \in DOMAIN state.slices |-> FlatSlice(state.slices[k])]

Recording == [ticks |-> ticks_run, inputs |-> FlatLog, final_state |-> World]

(* container.rs: bucket by stamped tick, drop what is out of range, step.  *)
(* The mutant takes the stamps to count from one.                          *)
BucketedFromOne(buckets, timed) ==
  IF timed.tick \in DOMAIN buckets
    THEN [buckets EXCEPT ![timed.tick] = Append(@, timed)] ELSE buckets

Bucketed(buckets, timed) ==
  IF timed.tick + 1 \in DOMAIN buckets
    THEN [buckets EXCEPT ![timed.tick + 1] = Append(@, timed)] ELSE buckets

Resimulate(ticks, inputs) == FoldLeft(Bucketed, [t \in 1..ticks |-> <<>>], inputs)

(* `step' requires its slice sorted by (player, seq), and neither sorts    *)
(* nor deduplicates.                                                       *)
InStepOrder(inputs) ==
  \A i, j \in DOMAIN inputs : i < j =>
    LET a == inputs[i]  b == inputs[j]
    IN  \/ a.tick < b.tick
        \/ a.tick = b.tick /\ a.player < b.player
        \/ a.tick = b.tick /\ a.player = b.player /\ a.seq < b.seq

(* At any moment the flat log is in the order `step' requires, without a   *)
(* repetition, and resimulating the recording gives the authority's world, *)
(* slice by slice.  lib.rs: tick(), recording(); container.rs:             *)
(* resimulate().                                                           *)
RecordingReproduces ==
  /\ InStepOrder(Recording.inputs)
  /\ Resimulate(Recording.ticks, Recording.inputs) = Recording.final_state
=============================================================================
