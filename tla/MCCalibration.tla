--------------------------- MODULE MCCalibration ---------------------------
(* Two people at one device, three sessions and two mice.  The crossings   *)
(* are of no reach, one, two and three, so that one session is never       *)
(* enough for an estimate and some two of them are.                        *)
EXTENDS Calibration

Reach(distance, mouse, octant, fast) ==
  [distance |-> distance, scale |-> mouse, slop |-> 0, octant |-> octant, fast |-> fast,
   motions |-> 4, quantum |-> IF mouse = 10 THEN 1000 ELSE 900]
Crossings(mouse) ==
  {<<>>,
   <<Reach(1, mouse, 1, TRUE)>>,
   <<Reach(1, mouse, 1, TRUE), Reach(3, mouse, 2, FALSE)>>,
   <<Reach(1, mouse, 3, FALSE), Reach(4, mouse, 2, TRUE), Reach(9, mouse, 1, FALSE)>>}
Pair == {<<"p1", "d1">>, <<"p2", "d1">>}
=============================================================================
