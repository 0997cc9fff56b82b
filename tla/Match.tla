------------------------------- MODULE Match -------------------------------
(***************************************************************************)
(* The authority of server/src/lib.rs: sessions, input intake, the tick    *)
(* loop and the log a match leaves behind.  `Match' is driven: the host    *)
(* loop calls join, deliver and tick, each of which is one action here.    *)
(*                                                                         *)
(* Two abstractions of data.                                               *)
(*  - The world is its tick and the list of input slices handed to `step': *)
(*    `step' is a pure function of the world and the slice, so two worlds  *)
(*    are equal when their slices are.                                     *)
(*  - The log, a flat Vec<TimedInput> in the code, is kept as one slice    *)
(*    per executed tick, each mapping a seat to the inputs drained from    *)
(*    it.  The Vec is the concatenation of the slices, tick by tick and in *)
(*    seat order (see FlatLog in MatchRecording.tla).                      *)
(***************************************************************************)
EXTENDS Integers, Sequences, FiniteSets

CONSTANTS
  PLAYER_COUNT,         \* seats of a match: nine in the code
  ExpectedPlayers,      \* MatchConfig.players
  MAX_INPUTS_PER_TICK,  \* four in the code
  REFUSED_MAX,          \* where the `refused' counter saturates: u32::MAX
  MaxSeq,               \* bound: the largest sequence number a client sends
  MaxTicks              \* bound: ticks the host asks for

ASSUME MatchConstants ==
  /\ PLAYER_COUNT \in Nat \ {0}
  /\ ExpectedPlayers \in 1..PLAYER_COUNT
  /\ MAX_INPUTS_PER_TICK \in Nat \ {0}
  /\ REFUSED_MAX \in Nat
  /\ MaxSeq \in Nat
  /\ MaxTicks \in Nat

VARIABLES
  seats,      \* seat -> Session or Vacant
  state,      \* the world: its tick, and the slices `step' was handed
  started,
  ticks_run,
  log,        \* one slice per executed tick
  frames,     \* what the last tick() returned: seat -> applied_through
  accepted,   \* history: seat -> sequence numbers its session had accepted
  refusals    \* history: seat -> sequence numbers its session had refused

vars == <<seats, state, started, ticks_run, log, frames, accepted, refusals>>

-----------------------------------------------------------------------------

Seats == 0..PLAYER_COUNT - 1
NONE  == -1                       \* Option::None of a sequence number
Seqs  == 0..MaxSeq

Vacant == [vacant |-> TRUE]

NewSession ==
  [ready |-> FALSE, highest_seq |-> NONE, applied_seq |-> NONE,
   pending |-> <<>>, refused |-> 0]

Session ==
  [ready : BOOLEAN, highest_seq : Seqs \cup {NONE},
   applied_seq : Seqs \cup {NONE}, pending : Seq(Seqs),
   refused : 0..REFUSED_MAX]

Occupied == {s \in Seats : seats[s] # Vacant}

(* What a client's frame decodes to; "Garbage" is a frame that does not.   *)
ClientMessage ==
  [kind : {"Garbage", "Join", "Ready", "Surrender"}]
    \cup [kind : {"Input"}, seq : Seqs]

TimedInput == [tick : Nat, seq : Seqs]

-----------------------------------------------------------------------------

Init ==
  /\ seats     = [s \in Seats |-> Vacant]
  /\ state     = [tick |-> 0, slices |-> <<>>]
  /\ started   = FALSE
  /\ ticks_run = 0
  /\ log       = <<>>
  /\ frames    = [s \in {} |-> NONE]
  /\ accepted  = [s \in Seats |-> {}]
  /\ refusals  = [s \in Seats |-> {}]

(* join(): the lowest free seat, unless the match has begun or is full.    *)
JoinAnswer ==
  CASE started            -> "AlreadyStarted"
    [] Occupied = Seats   -> "MatchFull"
    [] OTHER              -> "Accepted"

LowestFree ==
  CHOOSE s \in Seats \ Occupied : \A r \in Seats \ Occupied : s <= r

Join ==
  /\ JoinAnswer = "Accepted"
  /\ seats'    = [seats EXCEPT ![LowestFree] = NewSession]
  /\ accepted' = [accepted EXCEPT ![LowestFree] = {}]
  /\ refusals' = [refusals EXCEPT ![LowestFree] = {}]
  /\ UNCHANGED <<state, started, ticks_run, log, frames>>

(* A refused join changes nothing; the caller still gets a frame to send.  *)
JoinRefused ==
  /\ JoinAnswer # "Accepted"
  /\ UNCHANGED vars

(* The sequence rule, and the rate limit.                                  *)
RepeatsOnlyOlder(s, m) == m.seq < seats[s].highest_seq    \* mutant: off by one
Repeats(s, m)          == m.seq <= seats[s].highest_seq

FullOneLate(s) == Len(seats[s].pending) > MAX_INPUTS_PER_TICK   \* mutant: off by one
Full(s)        == Len(seats[s].pending) >= MAX_INPUTS_PER_TICK

(* deliver(): the result, which is also what the host loop branches on.    *)
Verdict(s, m) ==
  CASE m.kind = "Garbage"                     -> "Frame"
    [] m.kind # "Garbage" /\ seats[s] = Vacant -> "OutOfOrder"
    [] m.kind = "Join"    /\ seats[s] # Vacant -> "OutOfOrder"
    [] m.kind = "Input"   /\ seats[s] # Vacant
         /\ Repeats(s, m)                      -> "Sequence"
    [] m.kind = "Input"   /\ seats[s] # Vacant
         /\ ~Repeats(s, m) /\ Full(s)          -> "RateLimit"
    [] OTHER                                   -> "Ok"

DeliverReady(s, m) ==
  /\ m.kind = "Ready" /\ Verdict(s, m) = "Ok"
  /\ seats' = [seats EXCEPT ![s].ready = TRUE]
  /\ UNCHANGED <<accepted, refusals>>

DeliverInput(s, m) ==
  /\ m.kind = "Input" /\ Verdict(s, m) = "Ok"
  /\ seats' = [seats EXCEPT ![s].highest_seq = m.seq,
                            ![s].pending = Append(@, m.seq)]
  /\ accepted' = [accepted EXCEPT ![s] = @ \cup {m.seq}]
  /\ UNCHANGED refusals

(* Mutant: the counter is not saturating.                                  *)
RefuseInputCounting(s, m) ==
  /\ Verdict(s, m) \in {"Sequence", "RateLimit"}
  /\ seats' = [seats EXCEPT ![s].refused = @ + 1]
  /\ refusals' = [refusals EXCEPT ![s] = @ \cup {m.seq}]
  /\ UNCHANGED accepted

RefuseInput(s, m) ==
  /\ Verdict(s, m) \in {"Sequence", "RateLimit"}
  /\ seats' = [seats EXCEPT ![s].refused =
                 IF @ < REFUSED_MAX THEN @ + 1 ELSE @]
  /\ refusals' = [refusals EXCEPT ![s] = @ \cup {m.seq}]
  /\ UNCHANGED accepted

DeliverSurrender(s, m) ==
  /\ m.kind = "Surrender" /\ Verdict(s, m) = "Ok"
  /\ seats' = [seats EXCEPT ![s] = Vacant]
  /\ UNCHANGED <<accepted, refusals>>

DeliverRefused(s, m) ==
  /\ Verdict(s, m) \in {"Frame", "OutOfOrder"}
  /\ UNCHANGED <<seats, accepted, refusals>>

Deliver(s, m) ==
  /\ \/ DeliverReady(s, m)
     \/ DeliverInput(s, m)
     \/ RefuseInput(s, m)
     \/ DeliverSurrender(s, m)
     \/ DeliverRefused(s, m)
  /\ UNCHANGED <<state, started, ticks_run, log, frames>>

(* tick(): nothing before everybody is ready; then drain, step, emit.      *)
EverybodyReady ==
  /\ Cardinality(Occupied) >= ExpectedPlayers
  /\ \A s \in Occupied : seats[s].ready

Begun == started \/ EverybodyReady

(* Mutant: the last seat is left out of the iteration.                     *)
SliceButTheLastSeat ==
  [s \in Seats |->
     IF s \in Occupied \ {PLAYER_COUNT - 1}
       THEN [i \in DOMAIN seats[s].pending |->
               [tick |-> state.tick, seq |-> seats[s].pending[i]]]
       ELSE <<>>]

Slice ==
  [s \in Seats |->
     IF s \in Occupied
       THEN [i \in DOMAIN seats[s].pending |->
               [tick |-> state.tick, seq |-> seats[s].pending[i]]]
       ELSE <<>>]

(* Mutants: the queue is not emptied; the first number drained is          *)
(* acknowledged; a quiet tick acknowledges nothing.                        *)
DrainedKeepingTheQueue(session) ==
  LET n == Len(session.pending)
  IN  [session EXCEPT !.applied_seq = IF n = 0 THEN @ ELSE session.pending[n]]

DrainedToTheFirst(session) ==
  [session EXCEPT !.pending = <<>>,
     !.applied_seq = IF session.pending = <<>> THEN @ ELSE Head(session.pending)]

DrainedForgetting(session) ==
  LET n == Len(session.pending)
  IN  [session EXCEPT !.pending = <<>>,
                      !.applied_seq = IF n = 0 THEN NONE ELSE session.pending[n]]

Drained(session) ==
  LET n == Len(session.pending)
  IN  [session EXCEPT !.pending = <<>>,
                      !.applied_seq = IF n = 0 THEN @ ELSE session.pending[n]]

TickWaits ==
  /\ ~Begun
  /\ frames' = [s \in {} |-> NONE]
  /\ UNCHANGED <<seats, state, started, ticks_run, log, accepted, refusals>>

TickRuns ==
  /\ Begun /\ ticks_run < MaxTicks
  /\ started'   = TRUE
  /\ log'       = Append(log, Slice)
  /\ state'     = [tick |-> state.tick + 1, slices |-> Append(state.slices, Slice)]
  /\ seats'     = [s \in Seats |->
                     IF s \in Occupied THEN Drained(seats[s]) ELSE Vacant]
  /\ ticks_run' = ticks_run + 1
  /\ frames'    = [s \in Occupied |-> Drained(seats[s]).applied_seq]
  /\ UNCHANGED <<accepted, refusals>>

Tick == TickWaits \/ TickRuns

Next ==
  \/ Join
  \/ JoinRefused
  \/ \E s \in Seats, m \in ClientMessage : Deliver(s, m)
  \/ Tick

Spec == Init /\ [][Next]_vars

-----------------------------------------------------------------------------

Elements(q) == {q[i] : i \in DOMAIN q}

(* Every sequence number the log holds for a seat.                         *)
Logged(s) == UNION {{log[k][s][i].seq : i \in DOMAIN log[k][s]} : k \in DOMAIN log}

TypeOK ==
  /\ seats \in [Seats -> Session \cup {Vacant}]
  /\ state \in [tick : Nat, slices : Seq([Seats -> Seq(TimedInput)])]
  /\ started \in BOOLEAN
  /\ ticks_run \in 0..MaxTicks
  /\ log \in Seq([Seats -> Seq(TimedInput)])
  /\ DOMAIN frames \subseteq Seats
  /\ \A s \in DOMAIN frames : frames[s] \in Seqs \cup {NONE}
  /\ accepted \in [Seats -> SUBSET Seqs]
  /\ refusals \in [Seats -> SUBSET Seqs]

(* The log meets the contract `step' states and does not check: every      *)
(* entry is stamped with the tick that drained it, a seat's sequence       *)
(* numbers strictly increase over the whole match (so across every session *)
(* that ever held the seat), and no tick holds more than the rate allows.  *)
(* lib.rs: the drain loop of tick() and the guards of deliver().           *)
LogCanonical ==
  /\ Len(log) = ticks_run /\ state.tick = ticks_run
  /\ \A k \in DOMAIN log : \A s \in Seats :
       /\ Len(log[k][s]) <= MAX_INPUTS_PER_TICK
       /\ \A i \in DOMAIN log[k][s] :
            /\ log[k][s][i].tick = k - 1
            /\ \A l \in DOMAIN log : \A j \in DOMAIN log[l][s] :
                 (l < k \/ (l = k /\ j < i)) => log[l][s][j].seq < log[k][s][i].seq

(* An accepted input is applied exactly once: while its session lives it   *)
(* is either waiting or in the log, never both and never neither.          *)
(* lib.rs: deliver() accepts, tick() drains.                               *)
AppliedExactlyOnce ==
  \A s \in Occupied :
    /\ accepted[s] = Logged(s) \cup Elements(seats[s].pending)
    /\ Logged(s) \cap Elements(seats[s].pending) = {}

(* A frame acknowledges exactly what was folded in: everything the session *)
(* had accepted up to the number it carries is in the log, and the number  *)
(* is in the log itself.  message.rs: ServerMessage::View.applied_through. *)
AckIsApplied ==
  \A s \in DOMAIN frames \cap Occupied :
    /\ frames[s] # NONE => frames[s] \in Logged(s)
    /\ {q \in accepted[s] : q <= frames[s]} \subseteq Logged(s)
    /\ \A q \in Logged(s) : q <= frames[s]

(* Once a match runs nobody sits down and everybody seated was ready: the  *)
(* two together are what ties a seat's log to one session.                 *)
(* lib.rs: join() refuses after the start, tick() waits for everybody.     *)
RunningIsClosed ==
  started => \A s \in Occupied : seats[s].ready

(* The acknowledgements a seat is shown never go backwards or stop.        *)
(* lib.rs: applied_seq is written at the drain and repeated on quiet ticks.*)
AckMonotone ==
  [][\A s \in DOMAIN frames \cap DOMAIN frames' : frames[s] <= frames'[s]]_vars

-----------------------------------------------------------------------------
(* The inductive strengthening of the invariants above (MatchProofs.tla).  *)

(* Where a session keeps its numbers: applied < pending <= highest, the    *)
(* queue strictly increasing and within the rate.                          *)
QueueInv ==
  \A s \in Occupied :
    /\ Len(seats[s].pending) <= MAX_INPUTS_PER_TICK
    /\ seats[s].applied_seq <= seats[s].highest_seq
    /\ \A i \in DOMAIN seats[s].pending :
         /\ seats[s].applied_seq < seats[s].pending[i]
         /\ seats[s].pending[i] <= seats[s].highest_seq
         /\ \A j \in DOMAIN seats[s].pending :
              j < i => seats[s].pending[j] < seats[s].pending[i]

(* What the log and the session say of each other.                         *)
LedgerInv ==
  \A s \in Occupied :
    /\ \A q \in Logged(s) : q <= seats[s].applied_seq
    /\ seats[s].applied_seq # NONE => seats[s].applied_seq \in Logged(s)
    /\ accepted[s] = Logged(s) \cup Elements(seats[s].pending)

(* Before the start there is no history and no frame.                      *)
LobbyInv == ~started => log = <<>> /\ DOMAIN frames = {}

(* The last frame of a live session carries its applied_seq.               *)
FrameInv ==
  \A s \in DOMAIN frames \cap Occupied : frames[s] = seats[s].applied_seq

IInv ==
  /\ LogCanonical
  /\ RunningIsClosed
  /\ QueueInv
  /\ LedgerInv
  /\ LobbyInv
  /\ FrameInv
=============================================================================
