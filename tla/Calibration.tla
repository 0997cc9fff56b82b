----------------------------- MODULE Calibration -----------------------------
(***************************************************************************)
(* Device calibration (replay/src/calibration.rs, corpus.rs profile_of(),  *)
(* bin/replay.rs store() and census()): what each lobby crossing measured  *)
(* is filed with its match, a person's profile on a device is the sum of   *)
(* what is on file, and a match is rated against that sum when it is filed.*)
(*                                                                         *)
(* A crossing is the reaches it was made of, which the client sums up and  *)
(* the corpus never sees.  Fractions are compared by multiplying out; the  *)
(* sums are exact here as in the code, less its rounding to thousandths.   *)
(***************************************************************************)
EXTENDS Integers, Sequences, FiniteSets, SequencesExt, FiniteSetsExt

CONSTANTS
  REACHES, OCTANTS, DISTANCE_RATIO, FAST_REACHES,   \* sufficiency
  Sessions,       \* the matches there are to file
  Owners,         \* person and device label, pairs
  Mice,           \* what is really in the hand: counts per unit
  Crossing_(_),   \* the reaches a hand with such a mouse may make: sequences
  MaxFilings      \* bound: how often something is filed

VARIABLES
  filed,     \* session -> what its record on disk says
  filings,   \* how often something was filed
  hand,      \* history: session -> the mouse it was played with
  rated      \* history: the last filing, and what was on file then

calvars == <<filed, filings, hand, rated>>

-----------------------------------------------------------------------------
(* Observations: sums over reaches, which add up.  A minimum of nothing is *)
(* zero, and so zero is no minimum.                                        *)

NoObservations ==
  [reaches |-> 0, octants |-> {}, min |-> 0, max |-> 0, sumD |-> 0, sumN |-> 0, sumDD |-> 0,
   sumDN |-> 0, sumNN |-> 0, fast |-> 0, motions |-> 0, ns |-> 0, quantum |-> 0]

(* Mutant: only the first of the two may be nothing.                       *)
LeastOnceSeen(a, b) == IF a = 0 \/ b < a THEN b ELSE a
Least(a, b)         == CASE a = 0 -> b [] b = 0 -> a [] a < b -> a [] OTHER -> b
Greatest(a, b)   == IF a > b THEN a ELSE b

Merge(a, b) ==
  [key \in DOMAIN a |->
     CASE key = "octants" -> a[key] \cup b[key]
       [] key \in {"min", "quantum"} -> Least(a[key], b[key])
       [] key = "max" -> Greatest(a[key], b[key])
       [] OTHER -> a[key] + b[key]]

Summed(S) == FoldLeft(Merge, NoObservations, S)

(* One reach, the client's record().                                       *)
OfReach(r) ==
  LET d == r.distance  n == r.distance * r.scale + r.slop
  IN  [reaches |-> 1, octants |-> {r.octant}, min |-> d, max |-> d, sumD |-> d, sumN |-> n,
       sumDD |-> d * d, sumDN |-> d * n, sumNN |-> n * n, fast |-> IF r.fast THEN 1 ELSE 0,
       motions |-> IF r.fast THEN r.motions ELSE 0, ns |-> IF r.fast THEN 1 ELSE 0,
       quantum |-> r.quantum]
Observed(crossing) == Summed([i \in DOMAIN crossing |-> OfReach(crossing[i])])

-----------------------------------------------------------------------------
(* Estimate::of: the slope of counts on distance, a numerator over a       *)
(* denominator, if there is one; and matches().                            *)

Slope(o) == << o.reaches * o.sumDN - o.sumD * o.sumN, o.reaches * o.sumDD - o.sumD * o.sumD >>
HasEstimate(o) == o.reaches >= 2 /\ Slope(o)[2] > 0 /\ Slope(o)[1] > 0

Apart(a, b) == IF a > b THEN a - b ELSE b - a
WithinTenth(p, q) == 10 * Apart(p[1] * q[2], q[1] * p[2]) <= q[1] * p[2]

MatchesProfile(o, profile) ==
  /\ WithinTenth(Slope(o), Slope(profile))
  /\ o.motions > 0 /\ profile.motions > 0 =>
       /\ 2 * o.motions * profile.ns <= 3 * profile.motions * o.ns
       /\ 2 * profile.motions * o.ns <= 3 * o.motions * profile.ns
  /\ o.quantum > 0 /\ profile.quantum > 0 =>
       o.quantum <= 2 * profile.quantum /\ profile.quantum <= 2 * o.quantum

Sufficient(o) ==
  /\ o.reaches >= REACHES
  /\ Cardinality(o.octants) >= OCTANTS
  /\ o.min > 0 /\ o.max >= DISTANCE_RATIO * o.min
  /\ o.fast >= FAST_REACHES

(* CalibrationState::rate.  Mutants: the session is folded in first; it is *)
(* not folded in at all.                                                   *)
RateAgainst(known, session, pooled) ==
  IF session.reaches = 0 THEN "absent"
  ELSE IF /\ HasEstimate(session) /\ HasEstimate(known)
          /\ Sufficient(known) /\ ~ MatchesProfile(session, known)
       THEN "mismatched"
  ELSE IF Sufficient(pooled) THEN "sufficient" ELSE "partial"
RateItself(session, profile) == RateAgainst(Merge(profile, session), session, Merge(profile, session))
RateAlone(session, profile)  == RateAgainst(profile, session, session)
RateBefore(session, profile) == RateAgainst(profile, session, Merge(profile, session))
Rate(session, profile)       == RateBefore(session, profile)

-----------------------------------------------------------------------------
(* profile_of: everything on file of that person on that device, but the   *)
(* match being filed.  (What does not read is skipped as if it were not    *)
(* there: Destroy.)  census() folds the same, leaving out nothing.         *)
NoRecord == [owner |-> <<>>, observations |-> NoObservations, state |-> "none"]
IsFiled(m) == filed[m] # NoRecord
OnFile(owner, skip) == {m \in Sessions \ {skip} : IsFiled(m) /\ filed[m].owner = owner}
Profile(S) == FoldFunctionOnSet(Merge, NoObservations, [m \in Sessions |-> filed[m].observations], S)
ProfileOf(owner, skip) == Profile(OnFile(owner, skip))
Census(owner) == Profile(OnFile(owner, "nothing skipped"))

CalInit ==
  /\ filed = [m \in Sessions |-> NoRecord] /\ filings = 0
  /\ hand = [m \in Sessions |-> <<>>] /\ rated = <<>>

(* `replay store': rate, then file; a match may be filed again.            *)
File(m, owner, mouse, crossing) ==
  /\ filings < MaxFilings
  /\ filings' = filings + 1
  /\ LET seen == Observed(crossing)
         state == Rate(seen, ProfileOf(owner, m))
     IN  /\ filed' = [filed EXCEPT ![m] = [owner |-> owner, observations |-> seen, state |-> state]]
         /\ rated' = <<m, OnFile(owner, m)>>
  /\ hand' = [hand EXCEPT ![m] = <<mouse, crossing>>]

(* A withdrawal takes the match away, and with it what it measured.        *)
Destroy(m) ==
  /\ IsFiled(m)
  /\ filed' = [filed EXCEPT ![m] = NoRecord] /\ hand' = [hand EXCEPT ![m] = <<>>]
  /\ rated' = <<>>
  /\ UNCHANGED filings

CalNext ==
  \E m \in Sessions :
    \/ \E owner \in Owners, mouse \in Mice : \E crossing \in Crossing_(mouse) : File(m, owner, mouse, crossing)
    \/ Destroy(m)

CalSpec == CalInit /\ [][CalNext]_calvars

-----------------------------------------------------------------------------
(* What sessions add up to is what one session of all their reaches would  *)
(* have measured, however they are listed and whatever was withdrawn       *)
(* between.  calibration.rs, "sufficient statistics ... they add by `+`".  *)
ProfileIsOfAllReaches ==
  \A owner \in Owners :
    LET mine == SetToSeq(OnFile(owner, "nothing skipped"))
    IN  Census(owner) = Observed(FlattenSeq([i \in DOMAIN mine |-> hand[mine[i]][2]]))

(* Once what a person has on file is enough, a further session with the    *)
(* same mouse is never marked short of anything, however little it         *)
(* measured: "the last person to join does not have to be calibrated that  *)
(* evening".                                                               *)
EarlierSessionsSuffice ==
  rated # <<>> =>
    LET m == rated[1]  others == rated[2]
    IN  others # {} /\ Sufficient(Profile(others)) => filed[m].state # "partial"

(* Where all that is on file was played with one mouse, the verdict on a   *)
(* further session is about the mouse: another one is noticed however long *)
(* its session was, and the same one is not taken for another.             *)
(* rate(), "a check agreeing with itself".                                 *)
DeviceIsRecognised ==
  rated # <<>> =>
    LET m == rated[1]  others == rated[2]
    IN  /\ others # {} /\ Sufficient(Profile(others)) /\ HasEstimate(Profile(others))
        /\ HasEstimate(filed[m].observations)
        /\ \E mouse \in Mice : \A o \in others : hand[o][1] = mouse
        => (filed[m].state = "mismatched" <=> \E o \in others : hand[o][1] # hand[m][1])

ProfilesAreSound == ProfileIsOfAllReaches /\ EarlierSessionsSuffice /\ DeviceIsRecognised

(* CalibrationState::Mismatched, "the corpus refusing to pool two devices  *)
(* under one profile": what did not match is in nobody's profile.          *)
MismatchedIsNotPooled ==
  \A m \in Sessions : filed[m].state = "mismatched" =>
    Census(filed[m].owner) = ProfileOf(filed[m].owner, m)
=============================================================================
