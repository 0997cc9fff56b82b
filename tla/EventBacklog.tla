---------------------------- MODULE EventBacklog ----------------------------
(***************************************************************************)
(* One recipient's queue of events not yet told: EventBacklog of           *)
(* protocol/src/events.rs, fed each tick with the visible part of the      *)
(* tick's event buffer (sim/src/event.rs).                                 *)
(*                                                                         *)
(* An event is a number, counted over the match in the order the rules     *)
(* emit it, and the tick it happened on.                                   *)
(***************************************************************************)
EXTENDS Integers, Sequences, FiniteSets

CONSTANTS
  MAX_EVENTS,           \* capacity of a tick's buffer and of the queue: 72
  MAX_EVENTS_PER_VIEW,  \* what one frame has room for: sixteen
  DROPPED_MAX,          \* where `dropped' saturates: u32::MAX
  MaxEmitted,           \* bound: events emitted in one tick
  MaxTellings           \* bound

ASSUME BacklogConstants ==
  /\ MAX_EVENTS \in Nat /\ MAX_EVENTS_PER_VIEW \in Nat \ {0}
  /\ MAX_EVENTS_PER_VIEW < MAX_EVENTS    \* asserted in sim/src/view.rs
  /\ DROPPED_MAX \in Nat /\ MaxEmitted \in Nat /\ MaxTellings \in Nat

VARIABLES
  emission,    \* the tick's events, as step() leaves them
  pending, dropped,
  frame,     \* events of the view just shaped
  tick, emitted, entitled, telling  \* history: ticks, events emitted, and
                                      \* those the recipient saw and was told

backlog == <<emission, pending, dropped, frame, tick, emitted, entitled, telling>>

-----------------------------------------------------------------------------

Event == [number : Nat, at : Nat]

First(n, q) == SubSeq(q, 1, n)
Rest(n, q) == SubSeq(q, n + 1, Len(q))
Least(m, n) == IF m < n THEN m ELSE n

BacklogInit ==
  /\ emission = <<>> /\ pending = <<>> /\ dropped = 0 /\ frame = <<>>
  /\ tick = 0 /\ emitted = 0 /\ entitled = {} /\ telling = <<>>

(* step() clears the buffer and emits; Events::push drops what is past it. *)
Emitted(n) == [i \in 1..n |-> [number |-> emitted + i, at |-> tick]]
Recorded(n) == First(Least(n, MAX_EVENTS), Emitted(n))

(* shape: queue the view's events, the oldest giving way when it is full,  *)
(* then move the oldest into the frame.                                    *)
QueuedInFront(q) == q \o pending     \* mutant: the newest go first
Queued(q) == pending \o q
Overflow(q) == IF Len(Queued(q)) > MAX_EVENTS THEN Len(Queued(q)) - MAX_EVENTS ELSE 0
HeldForOneFrame(q) ==                \* mutant: what does not fit is lost
  First(Least(MAX_EVENTS_PER_VIEW, Len(Queued(q))), Queued(q))
Held(q) == Rest(Overflow(q), Queued(q))

Shape(q) ==
  LET room == Least(MAX_EVENTS_PER_VIEW, Len(Held(q)))
  IN  /\ frame'   = First(room, Held(q))
      /\ pending' = Rest(room, Held(q))
      /\ dropped' = Least(dropped + Overflow(q), DROPPED_MAX)

(* A tick: events happen, the recipient sees some of them, and is sent a   *)
(* view.  What it sees is any part of the buffer, in the buffer's order.   *)
Seen(q, places) ==
  LET kept == [i \in 1..Len(q) |-> Cardinality(places \cap 1..i)]
  IN  [k \in 1..Cardinality(places) |->
         q[CHOOSE i \in places : kept[i] = k]]

TellTick ==
  /\ tick < MaxTellings
  /\ \E n \in 0..MaxEmitted :
       /\ emission'  = Recorded(n)
       /\ emitted' = emitted + n
       /\ \E places \in SUBSET (1..Len(Recorded(n))) :
            /\ Shape(Seen(Recorded(n), places))
            /\ entitled' = entitled \cup {Recorded(n)[i].number : i \in places}
  /\ telling' = telling \o [i \in DOMAIN frame' |-> frame'[i].number]
  /\ tick' = tick + 1

BacklogSpec == BacklogInit /\ [][TellTick]_backlog

-----------------------------------------------------------------------------

Numbers(q) == {q[i].number : i \in DOMAIN q}
Told == {telling[i] : i \in DOMAIN telling}

(* Every event the recipient saw was told, waits, or is counted as         *)
(* dropped, nothing else is ever told, and oldest first over the whole     *)
(* match, although frames defer and the queue overflows.  events.rs:       *)
(* `dropped', and shape(), "Oldest first, always".  Nor does one wait      *)
(* longer than the frames a full queue takes to drain: "The overflow is    *)
(* deferred, not dropped".                                                 *)
Accounted ==
  /\ Told \cup Numbers(pending) \subseteq entitled
  /\ dropped < DROPPED_MAX =>
       dropped = Cardinality(entitled) - Len(telling) - Len(pending)
OldestFirst ==
  LET run == telling \o [i \in DOMAIN pending |-> pending[i].number]
  IN  \A i, j \in DOMAIN run : i < j => run[i] < run[j]
ToldSoon ==
  \A i \in DOMAIN pending :
    (tick - pending[i].at) * MAX_EVENTS_PER_VIEW < MAX_EVENTS
EveryEventIsAccountedFor == Accounted /\ OldestFirst /\ ToldSoon
=============================================================================
