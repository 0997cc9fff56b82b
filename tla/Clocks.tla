-------------------------------- MODULE Clocks --------------------------------
(***************************************************************************)
(* The clock detector (anticheat/src/features.rs, detectors.rs): a seat    *)
(* stamps every intention with its own clock, the server stamps it again   *)
(* on arrival, and the rate of the one against the other is read off the   *)
(* log.  Time goes by in parts of a millisecond; stamps are whole ones.    *)
(***************************************************************************)
EXTENDS Integers, Sequences, Functions

CONSTANTS
  PARTS,            \* of a millisecond
  Rates,            \* clocks: numerator and denominator
  Offsets,          \* and the epoch they count from, in milliseconds
  Gaps,             \* parts that pass between two intentions
  Delays,           \* parts an intention is on its way
  MaxInputs         \* bound

\* A denominator of zero is read as one; an epoch is a number of milliseconds.
ASSUME ClockConstants ==
  /\ PARTS \in Nat \ {0} /\ MaxInputs \in Nat
  /\ Rates \subseteq Nat \X (Nat \ {0}) /\ Offsets \subseteq Nat
  /\ Gaps \subseteq Nat /\ Delays \subseteq Nat

VARIABLES
  clock,       \* ClaimedClock
  sent,        \* when the last intention was composed
  arrived,     \* when the last arrived: the stream keeps their order
  stamps,      \* the seat's part of the log
  steady       \* history: the one delay there has been, or none

cvars == <<clock, sent, arrived, stamps, steady>>

PPM == 1000000
Sign(n)      == IF n < 0 THEN -1 ELSE 1
Absolute(n)  == Sign(n) * n
Quotient(n, d) == Sign(n) * (Absolute(n) \div d)           \* toward zero

\* ClaimedClock::claim, of the whole milliseconds it observes: Honest is a rate
\* of one.
Claims(observed) == ((observed \div PARTS) * clock.rate[1]) \div clock.rate[2] + clock.offset

-----------------------------------------------------------------------------
(* ClockTrace::extract.                                                    *)
FirstStamp == stamps[1]
LastStamp  == stamps[Len(stamps)]
ObservedSpan == IF stamps = <<>> THEN 0 ELSE LastStamp.received - FirstStamp.received
ClaimedSpanFromEpoch == IF stamps = <<>> THEN 0 ELSE LastStamp.claimed - FirstStamp.received    \* mutant: reads the offset
ClaimedSpanOfClock   == IF stamps = <<>> THEN 0 ELSE LastStamp.claimed - FirstStamp.claimed
ClaimedSpan == ClaimedSpanOfClock
RateError   == IF ObservedSpan = 0 THEN 0 ELSE Quotient((ClaimedSpan - ObservedSpan) * PPM, ObservedSpan)
Resolution  == IF ObservedSpan = 0 THEN 0 ELSE (2 * PPM) \div ObservedSpan
Backwards   == {i \in DOMAIN stamps : i > 1 /\ stamps[i].claimed < stamps[i - 1].claimed}

\* ClockDivergence: two stamps a measurable distance apart are what a rate is.
IsScored == Len(stamps) >= 2 /\ ObservedSpan # 0
Score    == Absolute(RateError)

-----------------------------------------------------------------------------
CInit ==
  /\ clock \in [rate : Rates, offset : Offsets]
  /\ sent = 0 /\ arrived = 0 /\ stamps = <<>> /\ steady = {}

Intend(gap, delay) ==
  LET at    == sent + gap
      there == IF at + delay < arrived THEN arrived ELSE at + delay
  IN  /\ sent' = at
      /\ arrived' = there
      /\ stamps' = Append(stamps, [claimed |-> Claims(at), received |-> there \div PARTS])
      /\ steady' = steady \cup {there - at}

CNext ==
  /\ Len(stamps) < MaxInputs
  /\ \E gap \in Gaps, delay \in Delays : Intend(gap, delay)
  /\ UNCHANGED clock
CSpec == CInit /\ [][CNext]_cvars

-----------------------------------------------------------------------------
(* Wherever its epoch is, and however the stamps were rounded, a clock is  *)
(* read at its own rate, as long as the way to the server takes one time:  *)
(* to within one part of each of the two clocks' roundings, which for a    *)
(* clock no faster than the server's is the resolution printed beside it.  *)
(* And no clock is read as having gone backwards, whatever the delays.     *)
(* ``A difference of two spans, and that is the decision in it''           *)
(* (clock-divergence.md).                                                  *)
TrueError == Quotient((clock.rate[1] - clock.rate[2]) * PPM, clock.rate[2])
Rounding  == ((clock.rate[1] + clock.rate[2]) * PPM) \div (clock.rate[2] * ObservedSpan)
RateIsRead ==
  /\ IsScored /\ (\E d \in steady : steady = {d}) =>
       /\ Absolute(RateError - TrueError) <= Rounding + 1
       /\ clock.rate[1] <= clock.rate[2] => Rounding <= Resolution
  /\ Backwards = {}
=============================================================================
