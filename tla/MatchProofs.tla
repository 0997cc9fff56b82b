---------------------------- MODULE MatchProofs ----------------------------
(***************************************************************************)
(* Proofs about Match.tla for every number of seats, rate and bound.       *)
(*                                                                         *)
(* TypeOK is inductive by itself.  The safety invariants are not: that the *)
(* log stays canonical rests on where a session keeps its numbers, which   *)
(* QueueInv states.  IInv below is their inductive strengthening.          *)
(***************************************************************************)
EXTENDS MatchRefinement, MatchRecording, SequenceTheorems, TLAPS

LEMMA SessionIsNotVacant == \A x \in Session : x # Vacant
BY DEF Session, Vacant

LEMMA FunctionIsSeq ==
  ASSUME NEW T, NEW n \in Nat, NEW f \in [1..n -> T]
  PROVE  f \in Seq(T)
BY SeqDef

LEMMA NewSessionType == NewSession \in Session
BY MatchConstants DEF NewSession, Session, NONE

LEMMA SliceType ==
  ASSUME TypeOK
  PROVE  Slice \in [Seats -> Seq(TimedInput)]
<1> SUFFICES ASSUME NEW s \in Seats
             PROVE (IF s \in Occupied
                      THEN [i \in DOMAIN seats[s].pending |->
                              [tick |-> state.tick, seq |-> seats[s].pending[i]]]
                      ELSE <<>>) \in Seq(TimedInput)
  BY DEF Slice
<1>1. CASE s \notin Occupied
  BY <1>1, EmptySeq
<1>2. CASE s \in Occupied
  <2>1. seats[s].pending \in Seq(Seqs)
    BY <1>2 DEF TypeOK, Occupied, Session
  <2>2. /\ Len(seats[s].pending) \in Nat
        /\ DOMAIN seats[s].pending = 1..Len(seats[s].pending)
        /\ \A i \in DOMAIN seats[s].pending : seats[s].pending[i] \in Seqs
    BY <2>1
  <2>3. [i \in DOMAIN seats[s].pending |->
           [tick |-> state.tick, seq |-> seats[s].pending[i]]]
        \in [1..Len(seats[s].pending) -> TimedInput]
    BY <2>2 DEF TypeOK, TimedInput
  <2> QED
    BY <1>2, <2>2, <2>3, SeqDef
<1> QED
  BY <1>1, <1>2

LEMMA DrainedType ==
  ASSUME NEW x \in Session
  PROVE  Drained(x) \in Session
<1>1. x.pending \in Seq(Seqs) /\ Len(x.pending) \in Nat
  BY DEF Session
<1>2. (IF Len(x.pending) = 0 THEN x.applied_seq ELSE x.pending[Len(x.pending)])
      \in Seqs \cup {NONE}
  BY <1>1 DEF Session
<1>3. <<>> \in Seq(Seqs)
  BY EmptySeq
<1> QED
  BY <1>2, <1>3 DEF Drained, Session

LEMMA InitType == Init => TypeOK
BY MatchConstants DEF Init, TypeOK, Seats, TimedInput

LEMMA NextType == TypeOK /\ [Next]_vars => TypeOK'
<1> SUFFICES ASSUME TypeOK, [Next]_vars PROVE TypeOK'
  OBVIOUS
<1>1. CASE Join
  BY <1>1, NewSessionType DEF Join, TypeOK
<1>2. CASE JoinRefused \/ UNCHANGED vars
  BY <1>2 DEF JoinRefused, vars, TypeOK
<1>3. ASSUME NEW s \in Seats, NEW m \in ClientMessage, Deliver(s, m)
      PROVE TypeOK'
  <2> USE <1>3 DEF Deliver
  <2>0. seats[s] # Vacant => seats[s] \in Session
    BY DEF TypeOK
  <2>1. CASE DeliverReady(s, m)
    <3>1. seats[s] # Vacant
      BY <2>1 DEF DeliverReady, Verdict, Repeats, Full
    <3> QED
      BY <2>0, <2>1, <3>1 DEF DeliverReady, TypeOK, Session
  <2>2. CASE DeliverInput(s, m)
    <3>1. seats[s] # Vacant /\ m.seq \in Seqs
      BY <2>2 DEF DeliverInput, Verdict, Repeats, Full, ClientMessage
    <3>2. Append(seats[s].pending, m.seq) \in Seq(Seqs)
      BY <2>0, <3>1 DEF Session
    <3> QED
      BY <2>0, <2>2, <3>1, <3>2 DEF DeliverInput, TypeOK, Session
  <2>3. CASE RefuseInput(s, m)
    <3>1. seats[s] # Vacant /\ m.seq \in Seqs
      BY <2>3 DEF RefuseInput, Verdict, Repeats, Full, ClientMessage
    <3>2. (IF seats[s].refused < REFUSED_MAX THEN seats[s].refused + 1
             ELSE seats[s].refused) \in 0..REFUSED_MAX
      BY <2>0, <3>1, MatchConstants DEF Session
    <3> QED
      BY <2>0, <2>3, <3>1, <3>2 DEF RefuseInput, TypeOK, Session
  <2>4. CASE DeliverSurrender(s, m)
    BY <2>4 DEF DeliverSurrender, TypeOK
  <2>5. CASE DeliverRefused(s, m)
    BY <2>5 DEF DeliverRefused, TypeOK
  <2> QED
    BY <2>1, <2>2, <2>3, <2>4, <2>5
<1>4. CASE TickWaits
  BY <1>4 DEF TickWaits, TypeOK
<1>5. CASE TickRuns
  <2> USE <1>5 DEF TickRuns
  <2>1. seats' \in [Seats -> Session \cup {Vacant}]
    BY DrainedType DEF TypeOK, Occupied
  <2>2. log' \in Seq([Seats -> Seq(TimedInput)])
    BY SliceType DEF TypeOK
  <2>3. state' \in [tick : Nat, slices : Seq([Seats -> Seq(TimedInput)])]
    BY SliceType DEF TypeOK
  <2>4. ticks_run' \in 0..MaxTicks
    BY MatchConstants DEF TypeOK
  <2>5. DOMAIN frames' = Occupied /\ Occupied \subseteq Seats
    BY DEF Occupied
  <2>6. \A s \in Occupied : frames'[s] \in Seqs \cup {NONE}
    BY DrainedType DEF TypeOK, Occupied, Session
  <2> QED
    BY <2>1, <2>2, <2>3, <2>4, <2>5, <2>6 DEF TypeOK
<1> QED
  BY <1>1, <1>2, <1>3, <1>4, <1>5 DEF Next, Tick

(* Every reachable state of the authority is well typed, whatever the      *)
(* number of seats and whatever a client sends.                            *)
THEOREM TypeCorrect == Spec => []TypeOK
BY InitType, NextType, PTL DEF Spec

-----------------------------------------------------------------------------

(* A tick adds to a seat's history exactly what its session had waiting.   *)
LEMMA LoggedAfterTick ==
  ASSUME TypeOK, TickRuns, NEW s \in Seats
  PROVE  Logged(s)' = Logged(s) \cup
           (IF s \in Occupied THEN Elements(seats[s].pending) ELSE {})
<1> DEFINE n == Len(log)
<1>1. /\ n \in Nat /\ DOMAIN log = 1..n /\ DOMAIN log' = 1..(n + 1)
      /\ \A k \in 1..n : log'[k] = log[k]
      /\ log'[n + 1] = Slice
  BY DEF TypeOK, TickRuns
<1>2. Logged(s)' = Logged(s) \cup {Slice[s][i].seq : i \in DOMAIN Slice[s]}
  <2> SUFFICES ASSUME NEW q
               PROVE q \in Logged(s)' <=>
                       q \in Logged(s) \/ \E i \in DOMAIN Slice[s] : q = Slice[s][i].seq
    OBVIOUS
  <2>1. q \in Logged(s) <=>
          \E k \in DOMAIN log : \E i \in DOMAIN log[k][s] : q = log[k][s][i].seq
    BY DEF Logged
  <2>2. q \in Logged(s)' <=>
          \E k \in DOMAIN log' : \E i \in DOMAIN log'[k][s] : q = log'[k][s][i].seq
    BY DEF Logged
  <2>3. 1..(n + 1) = (1..n) \cup {n + 1}
    BY <1>1
  <2> HIDE DEF n
  <2> QED
    BY <1>1, <2>1, <2>2, <2>3, Zenon
<1>3. {Slice[s][i].seq : i \in DOMAIN Slice[s]} =
        IF s \in Occupied THEN Elements(seats[s].pending) ELSE {}
  <2>1. CASE s \in Occupied
    <3>1. Slice[s] = [i \in DOMAIN seats[s].pending |->
                        [tick |-> state.tick, seq |-> seats[s].pending[i]]]
      BY <2>1 DEF Slice
    <3> QED
      BY <2>1, <3>1 DEF Elements
  <2>2. CASE s \notin Occupied
    BY <2>2 DEF Slice
  <2> QED
    BY <2>1, <2>2
<1> QED
  BY <1>2, <1>3

LEMMA InitInv == Init => IInv
BY MatchConstants DEF Init, IInv, LogCanonical, RunningIsClosed, QueueInv,
  LedgerInv, LobbyInv, FrameInv, Occupied, Seats

LEMMA JoinInv ==
  ASSUME TypeOK, IInv, Join
  PROVE  IInv'
<1> USE DEF Join, IInv
<1>1. ~started /\ log = <<>> /\ DOMAIN frames = {}
  BY DEF JoinAnswer, LobbyInv
<1>2. \A s \in Occupied' : (s \in Occupied /\ seats'[s] = seats[s]
                             /\ accepted'[s] = accepted[s])
                        \/ (seats'[s] = NewSession /\ accepted'[s] = {})
  BY DEF TypeOK, Occupied
<1>3. LogCanonical' /\ LobbyInv' /\ RunningIsClosed'
  BY <1>1 DEF LogCanonical, LobbyInv, RunningIsClosed
<1>4. QueueInv'
  BY <1>2, MatchConstants DEF QueueInv, NewSession, NONE
<1>5. \A s \in Seats : Logged(s)' = {} /\ Logged(s) = {}
  BY <1>1 DEF Logged
<1>6. LedgerInv'
  BY <1>2, <1>5 DEF LedgerInv, NewSession, NONE, Elements, Occupied
<1>7. FrameInv'
  BY <1>1 DEF FrameInv
<1> QED
  BY <1>3, <1>4, <1>6, <1>7

LEMMA DeliverInv ==
  ASSUME TypeOK, IInv, NEW s \in Seats, NEW m \in ClientMessage, Deliver(s, m)
  PROVE  IInv'
<1> USE DEF IInv
<1>0. /\ UNCHANGED <<state, started, ticks_run, log, frames>>
      /\ \A r \in Seats : Logged(r)' = Logged(r)
  BY DEF Deliver, Logged
<1>1. LogCanonical' /\ LobbyInv'
  BY <1>0 DEF LogCanonical, LobbyInv
<1>2. \A r \in Seats : seats[r] # Vacant => seats[r] \in Session
  BY DEF TypeOK
<1>3. CASE DeliverReady(s, m)
  <2>1. s \in Occupied
    BY <1>3 DEF DeliverReady, Verdict, Repeats, Full, Occupied
  <2>2. /\ Occupied' \subseteq Occupied
        /\ \A r \in Occupied' :
             /\ seats'[r].pending = seats[r].pending
             /\ seats'[r].applied_seq = seats[r].applied_seq
             /\ seats'[r].highest_seq = seats[r].highest_seq
             /\ accepted'[r] = accepted[r]
             /\ seats[r].ready => seats'[r].ready
    BY <1>2, <1>3, <2>1 DEF DeliverReady, TypeOK, Occupied, Session
  <2> QED
    BY <1>0, <1>1, <2>2 DEF QueueInv, LedgerInv, FrameInv, RunningIsClosed, Occupied
<1>4. CASE DeliverInput(s, m)
  <2>1. /\ s \in Occupied /\ seats[s] \in Session /\ m.seq \in Seqs
        /\ m.seq > seats[s].highest_seq
        /\ Len(seats[s].pending) < MAX_INPUTS_PER_TICK
    BY <1>2, <1>4, MatchConstants, SMTT(40) DEF DeliverInput, Verdict, Repeats, Full, Occupied, ClientMessage, Session, Seqs, NONE
  <2>2. /\ Occupied' = Occupied
        /\ \A r \in Occupied \ {s} : seats'[r] = seats[r] /\ accepted'[r] = accepted[r]
        /\ seats'[s].pending = Append(seats[s].pending, m.seq)
        /\ seats'[s].highest_seq = m.seq
        /\ seats'[s].applied_seq = seats[s].applied_seq
        /\ seats'[s].ready = seats[s].ready
        /\ accepted'[s] = accepted[s] \cup {m.seq}
    <3>1. seats'[s] # Vacant
      BY <1>4, <2>1, SessionIsNotVacant DEF DeliverInput, TypeOK, Session, Vacant
    <3> QED
      BY <1>4, <2>1, <3>1 DEF DeliverInput, TypeOK, Occupied, Session
  <2> DEFINE p == seats[s].pending
             n == Len(seats[s].pending)
  <2>3. /\ p \in Seq(Seqs) /\ n \in Nat
        /\ DOMAIN p = 1..n /\ DOMAIN seats'[s].pending = 1..(n + 1)
        /\ Len(seats'[s].pending) = n + 1
        /\ \A i \in 1..n : seats'[s].pending[i] = p[i] /\ p[i] \in Seqs
        /\ seats'[s].pending[n + 1] = m.seq
    BY <2>1, <2>2 DEF Session
  <2>4. /\ seats[s].applied_seq \in Int /\ seats[s].highest_seq \in Int
        /\ m.seq \in Int /\ Seqs \subseteq Int
    BY <2>1, MatchConstants DEF Session, Seqs, NONE
  <2>5. QueueInv'
    <3>1. SUFFICES
            /\ Len(seats'[s].pending) <= MAX_INPUTS_PER_TICK
            /\ seats'[s].applied_seq <= seats'[s].highest_seq
            /\ \A i \in DOMAIN seats'[s].pending :
                 /\ seats'[s].applied_seq < seats'[s].pending[i]
                 /\ seats'[s].pending[i] <= seats'[s].highest_seq
                 /\ \A j \in DOMAIN seats'[s].pending :
                      j < i => seats'[s].pending[j] < seats'[s].pending[i]
      BY <2>2, Zenon DEF QueueInv
    <3>2. /\ n <= MAX_INPUTS_PER_TICK
          /\ seats[s].applied_seq <= seats[s].highest_seq
          /\ \A i \in 1..n : /\ seats[s].applied_seq < p[i]
                             /\ p[i] <= seats[s].highest_seq
                             /\ \A j \in 1..n : j < i => p[j] < p[i]
      BY <2>1, <2>3 DEF QueueInv
    <3> DEFINE pp == seats'[s].pending
               a  == seats[s].applied_seq
               h  == seats[s].highest_seq
    <3>3. /\ n \in Nat /\ a \in Int /\ h \in Int /\ m.seq \in Int
          /\ a <= h /\ h < m.seq
          /\ \A i \in 1..n : /\ pp[i] = p[i] /\ p[i] \in Int
                             /\ a < p[i] /\ p[i] <= h
                             /\ \A j \in 1..n : j < i => p[j] < p[i]
          /\ pp[n + 1] = m.seq
      BY <2>1, <2>3, <2>4, <3>2
    <3>4. \A i \in 1..(n + 1) :
            /\ a < pp[i] /\ pp[i] <= m.seq
            /\ \A j \in 1..(n + 1) : j < i => pp[j] < pp[i]
      <4> HIDE DEF p, pp, a, h, n
      <4>1. \A i \in 1..(n + 1) : i \in 1..n \/ i = n + 1
        BY <3>3
      <4> QED
        BY <3>3, <4>1
    <3>5. Len(pp) <= MAX_INPUTS_PER_TICK
      BY <2>1, <2>3, MatchConstants
    <3>6. seats'[s].applied_seq <= seats'[s].highest_seq
      BY <2>2, <3>3
    <3>7. DOMAIN pp = 1..(n + 1) /\ seats'[s].applied_seq = a
          /\ seats'[s].highest_seq = m.seq
      BY <2>2, <2>3
    <3> QED
      BY <3>4, <3>5, <3>6, <3>7, Zenon
  <2>6. Elements(seats'[s].pending) = Elements(p) \cup {m.seq}
    <3>1. 1..(n + 1) = (1..n) \cup {n + 1}
      BY <2>3
    <3> SUFFICES ASSUME NEW q
                 PROVE q \in Elements(seats'[s].pending)
                         <=> q \in Elements(p) \/ q = m.seq
      OBVIOUS
    <3>2. q \in Elements(p) <=> \E i \in 1..n : q = p[i]
      BY <2>3 DEF Elements
    <3>3. q \in Elements(seats'[s].pending)
            <=> \E i \in 1..(n + 1) : q = seats'[s].pending[i]
      BY <2>3 DEF Elements
    <3> HIDE DEF p, n
    <3> QED
      BY <2>3, <3>1, <3>2, <3>3
  <2>7. LedgerInv'
    BY <1>0, <2>1, <2>2, <2>6, ZenonT(60) DEF LedgerInv, Occupied
  <2>8. FrameInv' /\ RunningIsClosed'
    BY <1>0, <2>1, <2>2 DEF FrameInv, RunningIsClosed
  <2> QED
    BY <1>1, <2>5, <2>7, <2>8
<1>5. CASE RefuseInput(s, m)
  <2>1. s \in Occupied
    BY <1>5 DEF RefuseInput, Verdict, Repeats, Full, Occupied
  <2>2. /\ Occupied' \subseteq Occupied
        /\ \A r \in Occupied' :
             /\ seats'[r].pending = seats[r].pending
             /\ seats'[r].applied_seq = seats[r].applied_seq
             /\ seats'[r].highest_seq = seats[r].highest_seq
             /\ accepted'[r] = accepted[r]
             /\ seats'[r].ready = seats[r].ready
    BY <1>2, <1>5, <2>1 DEF RefuseInput, TypeOK, Occupied, Session
  <2> QED
    BY <1>0, <1>1, <2>2 DEF QueueInv, LedgerInv, FrameInv, RunningIsClosed, Occupied
<1>6. CASE DeliverSurrender(s, m)
  <2>1. /\ Occupied' \subseteq Occupied
        /\ \A r \in Occupied' : seats'[r] = seats[r] /\ accepted'[r] = accepted[r]
    BY <1>6 DEF DeliverSurrender, TypeOK, Occupied
  <2> QED
    BY <1>0, <1>1, <2>1 DEF QueueInv, LedgerInv, FrameInv, RunningIsClosed, Occupied
<1>7. CASE DeliverRefused(s, m)
  BY <1>0, <1>1, <1>7 DEF DeliverRefused, QueueInv, LedgerInv, FrameInv,
    RunningIsClosed, Occupied
<1> QED
  BY <1>3, <1>4, <1>5, <1>6, <1>7 DEF Deliver

(* What a tick appends for a seat is a bounded, stamped, strictly growing  *)
(* run, newer than everything the seat has in the log.                     *)
LEMMA SliceIsFresh ==
  ASSUME TypeOK, IInv, NEW s \in Seats
  PROVE  /\ Slice[s] \in Seq(TimedInput)
         /\ Len(Slice[s]) <= MAX_INPUTS_PER_TICK
         /\ s \notin Occupied => Slice[s] = <<>>
         /\ \A i \in DOMAIN Slice[s] :
              /\ Slice[s][i].tick = Len(log)
              /\ Slice[s][i].seq \in Seqs
              /\ \A q \in Logged(s) : q < Slice[s][i].seq
              /\ \A j \in DOMAIN Slice[s] :
                   j < i => Slice[s][j].seq < Slice[s][i].seq
<1>1. Slice[s] \in Seq(TimedInput)
  BY SliceType
<1>2. CASE s \notin Occupied
  BY <1>2, <1>1, MatchConstants DEF Slice
<1>3. CASE s \in Occupied
  <2> DEFINE p == seats[s].pending
             a == seats[s].applied_seq
  <2>1. /\ p \in Seq(Seqs) /\ a \in Int /\ Seqs \subseteq Int
        /\ DOMAIN p = 1..Len(p)
        /\ \A i \in DOMAIN p : p[i] \in Seqs
    BY <1>3, MatchConstants DEF TypeOK, Occupied, Session, Seqs, NONE
  <2>2. /\ DOMAIN Slice[s] = DOMAIN p /\ Len(Slice[s]) = Len(p)
        /\ \A i \in DOMAIN p : Slice[s][i].tick = state.tick /\ Slice[s][i].seq = p[i]
    <3>1. Slice[s] = [i \in DOMAIN p |-> [tick |-> state.tick, seq |-> p[i]]]
      BY <1>3 DEF Slice
    <3> QED
      BY <1>1, <2>1, <3>1
  <2>3. /\ Len(p) <= MAX_INPUTS_PER_TICK
        /\ \A i \in DOMAIN p : /\ a < p[i]
                               /\ \A j \in DOMAIN p : j < i => p[j] < p[i]
        /\ \A q \in Logged(s) : q <= a
        /\ state.tick = Len(log)
    BY <1>3 DEF IInv, QueueInv, LedgerInv, LogCanonical
  <2>4. \A q \in Logged(s) : q \in Int
    BY <2>1, <1>3 DEF IInv, LedgerInv, TypeOK
  <2>5. \A i \in DOMAIN p : \A q \in Logged(s) : q < p[i]
    <3>1. a \in Int /\ \A i \in DOMAIN p : p[i] \in Int
      BY <2>1
    <3> HIDE DEF p, a
    <3> QED
      BY <2>3, <2>4, <3>1
  <2> HIDE DEF p, a
  <2> QED
    BY <1>1, <1>3, <2>1, <2>2, <2>3, <2>5
<1> QED
  BY <1>2, <1>3

LEMMA TickInv ==
  ASSUME TypeOK, IInv, TickRuns
  PROVE  IInv'
<1> USE DEF IInv
<1>1. \A s \in Occupied :
        /\ seats[s] \in Session
        /\ seats'[s] = Drained(seats[s])
        /\ seats'[s].pending = <<>>
        /\ seats'[s].highest_seq = seats[s].highest_seq
        /\ seats'[s].ready = seats[s].ready
        /\ seats'[s].applied_seq =
             IF Len(seats[s].pending) = 0 THEN seats[s].applied_seq
             ELSE seats[s].pending[Len(seats[s].pending)]
  BY DEF TypeOK, Occupied, TickRuns, Drained, Session
<1>2. Occupied' = Occupied
  BY <1>1, DrainedType, SessionIsNotVacant DEF Occupied, TickRuns
<1>3. \A s \in Seats : Logged(s)' = Logged(s) \cup
        (IF s \in Occupied THEN Elements(seats[s].pending) ELSE {})
  BY LoggedAfterTick
<1>4. ASSUME NEW s \in Occupied
      PROVE  /\ seats'[s].applied_seq <= seats'[s].highest_seq
             /\ \A q \in Logged(s)' : q <= seats'[s].applied_seq
             /\ seats'[s].applied_seq # NONE => seats'[s].applied_seq \in Logged(s)'
             /\ accepted'[s] = Logged(s)'
  <2> DEFINE p == seats[s].pending
             n == Len(p)
             a == seats[s].applied_seq
             b == seats'[s].applied_seq
             h == seats[s].highest_seq
  <2>1. /\ s \in Seats /\ n \in Nat /\ DOMAIN p = 1..n
        /\ \A i \in 1..n : p[i] \in Int
        /\ a \in Int /\ h \in Int
    BY <1>1, MatchConstants DEF Session, Seqs, NONE, Occupied
  <2>2. /\ a <= h
        /\ \A i \in 1..n : /\ a < p[i] /\ p[i] <= h
                           /\ \A j \in 1..n : j < i => p[j] < p[i]
    BY <2>1 DEF QueueInv
  <2>3. /\ \A q \in Logged(s) : q <= a /\ q \in Int
        /\ a # NONE => a \in Logged(s)
        /\ accepted[s] = Logged(s) \cup Elements(p)
    BY <2>1, MatchConstants DEF LedgerInv, TypeOK, Seqs
  <2>4. Logged(s)' = Logged(s) \cup Elements(p) /\ accepted'[s] = accepted[s]
    BY <1>3, <2>1 DEF TickRuns
  <2>5. \A q : q \in Elements(p) <=> \E i \in 1..n : q = p[i]
    BY <2>1 DEF Elements
  <2>6. b = (IF n = 0 THEN a ELSE p[n])
    BY <1>1
  <2>7. CASE n = 0
    <3>1. Elements(p) = {}
      BY <2>1, <2>5, <2>7
    <3>2. b = a /\ Logged(s)' = Logged(s)
      BY <2>4, <2>6, <2>7, <3>1
    <3> QED
      BY <1>1, <2>2, <2>3, <2>4, <3>2
  <2>8. CASE n # 0
    <3> HIDE DEF p, n, a, b, h
    <3>1. n \in 1..n /\ b = p[n]
      BY <2>1, <2>6, <2>8
    <3>2. \A i \in 1..n : p[i] <= p[n]
      BY <2>1, <2>2, <3>1
    <3>3. b \in Elements(p) /\ b <= h /\ a < b
      BY <2>2, <2>5, <3>1
    <3>4. \A q \in Elements(p) : q <= b
      BY <2>5, <3>1, <3>2
    <3>5. \A q \in Logged(s) : q <= b
      BY <2>1, <2>3, <3>1, <3>3
    <3>6. /\ b <= h /\ \A q \in Logged(s)' : q <= b
          /\ b \in Logged(s)' /\ accepted'[s] = Logged(s)'
      BY <2>3, <2>4, <3>3, <3>4, <3>5
    <3> QED
      BY <1>1, <3>6 DEF b, h
  <2> QED
    BY <2>1, <2>7, <2>8
<1>5. QueueInv'
  BY <1>1, <1>2, <1>4, MatchConstants DEF QueueInv
<1>6. LedgerInv'
  BY <1>1, <1>2, <1>4 DEF LedgerInv, Elements
<1>7. LobbyInv'
  BY DEF LobbyInv, TickRuns
<1>8. FrameInv'
  BY <1>1, <1>2 DEF FrameInv, TickRuns
<1>9. RunningIsClosed'
  BY <1>1, <1>2 DEF RunningIsClosed, TickRuns, Begun, EverybodyReady
<1>10. LogCanonical'
  <2> DEFINE n == Len(log)
  <2>1. /\ n \in Nat /\ DOMAIN log = 1..n /\ DOMAIN log' = 1..(n + 1)
        /\ Len(log') = n + 1
        /\ \A k \in 1..n : log'[k] = log[k]
        /\ log'[n + 1] = Slice
    BY DEF TypeOK, TickRuns
  <2>2. /\ Len(log') = ticks_run' /\ state'.tick = ticks_run'
        /\ ticks_run = n
    BY <2>1 DEF LogCanonical, TickRuns, TypeOK
  <2>3. \A s \in Seats : \A l \in 1..n : \A j \in DOMAIN log[l][s] :
          log[l][s][j].seq \in Logged(s)
    BY <2>1 DEF Logged
  <2>4. ASSUME NEW k \in DOMAIN log', NEW s \in Seats
        PROVE  /\ Len(log'[k][s]) <= MAX_INPUTS_PER_TICK
               /\ \A i \in DOMAIN log'[k][s] :
                    /\ log'[k][s][i].tick = k - 1
                    /\ \A l \in DOMAIN log' : \A j \in DOMAIN log'[l][s] :
                         (l < k \/ (l = k /\ j < i))
                            => log'[l][s][j].seq < log'[k][s][i].seq
    <3>1. CASE k \in 1..n
      <4>1. \A l \in DOMAIN log' : (l < k \/ l = k) => l \in 1..n
        BY <2>1, <3>1
      <4> QED
        BY <2>1, <3>1, <4>1 DEF LogCanonical
    <3>2. CASE k = n + 1
      <4>1. log'[k][s] = Slice[s] /\ k - 1 = n
        BY <2>1, <3>2
      <4>2. \A l \in DOMAIN log' : l < k => l \in 1..n /\ log'[l] = log[l]
        BY <2>1, <3>2
      <4> QED
        BY <2>1, <2>3, <3>2, <4>1, <4>2, SliceIsFresh
    <3> QED
      BY <2>1, <3>1, <3>2
  <2> QED
    BY <2>2, <2>4 DEF LogCanonical
<1> QED
  BY <1>5, <1>6, <1>7, <1>8, <1>9, <1>10

LEMMA NextInv == TypeOK /\ IInv /\ [Next]_vars => IInv'
<1> SUFFICES ASSUME TypeOK, IInv, [Next]_vars PROVE IInv'
  OBVIOUS
<1>1. CASE JoinRefused \/ UNCHANGED vars
  <2>1. UNCHANGED vars
    BY <1>1 DEF JoinRefused
  <2>2. Occupied' = Occupied /\ \A s \in Seats : Logged(s)' = Logged(s)
    BY <2>1 DEF vars, Occupied, Logged
  <2>3. LogCanonical' /\ LobbyInv' /\ RunningIsClosed' /\ FrameInv'
    BY <2>1, <2>2 DEF vars, IInv, LogCanonical, LobbyInv, RunningIsClosed, FrameInv
  <2>4. QueueInv' /\ LedgerInv'
    BY <2>1, <2>2 DEF vars, IInv, QueueInv, LedgerInv, Occupied
  <2> QED
    BY <2>3, <2>4 DEF IInv
<1>2. CASE TickWaits
  BY <1>2 DEF TickWaits, IInv, LogCanonical, RunningIsClosed, QueueInv,
    LedgerInv, LobbyInv, FrameInv, Occupied, Logged
<1> QED
  BY <1>1, <1>2, JoinInv, DeliverInv, TickInv DEF Next, Tick

LEMMA IInvImplies ==
  ASSUME TypeOK, IInv
  PROVE  AppliedExactlyOnce /\ AckIsApplied
<1> USE DEF IInv
<1>1. ASSUME NEW s \in Occupied
      PROVE  /\ seats[s].applied_seq \in Int
             /\ \A q \in Elements(seats[s].pending) :
                  q \in Int /\ seats[s].applied_seq < q
             /\ \A q \in Logged(s) : q \in Int /\ q <= seats[s].applied_seq
             /\ accepted[s] = Logged(s) \cup Elements(seats[s].pending)
  <2>1. seats[s] \in Session /\ s \in Seats /\ Seqs \subseteq Int
    BY MatchConstants DEF TypeOK, Occupied, Seqs
  <2>2. seats[s].applied_seq \in Int
        /\ \A i \in DOMAIN seats[s].pending : seats[s].pending[i] \in Int
    <3>1. NONE \in Int
      BY DEF NONE
    <3>2. seats[s].applied_seq \in Seqs \cup {NONE}
          /\ seats[s].pending \in Seq(Seqs)
      BY <2>1 DEF Session
    <3>3. \A i \in DOMAIN seats[s].pending : seats[s].pending[i] \in Seqs
      BY <3>2
    <3> QED
      BY <2>1, <3>1, <3>2, <3>3, Zenon
  <2>3. accepted[s] \subseteq Int
    BY <2>1 DEF TypeOK
  <2>4. \A q \in Elements(seats[s].pending) : seats[s].applied_seq < q
    BY DEF Elements, QueueInv
  <2> QED
    BY <2>2, <2>3, <2>4 DEF LedgerInv
<1>2. AppliedExactlyOnce
  BY <1>1 DEF AppliedExactlyOnce
<1>3. AckIsApplied
  <2> SUFFICES ASSUME NEW s \in DOMAIN frames \cap Occupied
               PROVE  /\ frames[s] # NONE => frames[s] \in Logged(s)
                      /\ {q \in accepted[s] : q <= frames[s]} \subseteq Logged(s)
                      /\ \A q \in Logged(s) : q <= frames[s]
    BY DEF AckIsApplied
  <2>1. frames[s] = seats[s].applied_seq
    BY DEF FrameInv
  <2> QED
    BY <1>1, <2>1 DEF LedgerInv
<1> QED
  BY <1>2, <1>3

(* The strengthening is an invariant: the log is canonical, the queue of   *)
(* every session sits between what was applied and what was accepted.      *)
THEOREM InductiveInvariant == Spec => [](TypeOK /\ IInv)
BY InitType, NextType, InitInv, NextInv, PTL DEF Spec

(* deliver() and tick() keep the log in the order `step' needs, for every  *)
(* number of seats and every stream of client messages.                    *)
THEOREM LogIsCanonical == Spec => []LogCanonical
<1>1. IInv => LogCanonical
  BY DEF IInv
<1> QED
  BY <1>1, InductiveInvariant, PTL

(* No accepted input of a live session is lost or applied twice, and no    *)
(* acknowledgement runs ahead of the log.                                  *)
THEOREM InputsAppliedOnce == Spec => [](AppliedExactlyOnce /\ AckIsApplied)
BY IInvImplies, InductiveInvariant, PTL

(* A running match is closed: nobody is seated who was not ready.          *)
THEOREM RunningStaysClosed == Spec => []RunningIsClosed
<1>1. IInv => RunningIsClosed
  BY DEF IInv
<1> QED
  BY <1>1, InductiveInvariant, PTL

-----------------------------------------------------------------------------
(* Action properties, from the same invariant.                             *)

LEMMA AckStep ==
  TypeOK /\ IInv /\ TypeOK' /\ IInv' /\ [Next]_vars =>
    [\A s \in DOMAIN frames \cap DOMAIN frames' : frames[s] <= frames'[s]]_vars
<1> SUFFICES ASSUME TypeOK, IInv, TypeOK', IInv', [Next]_vars,
                    NEW s \in DOMAIN frames \cap DOMAIN frames'
             PROVE  frames[s] <= frames'[s]
  OBVIOUS
<1>0. frames[s] \in Int /\ s \in Seats
  <2>1. NONE \in Int /\ Seqs \subseteq Int
    BY MatchConstants DEF NONE, Seqs
  <2> QED
    BY <2>1 DEF TypeOK
<1>1. CASE frames' = frames
  BY <1>0, <1>1
<1>2. CASE TickRuns
  <2>1. s \in Occupied /\ s \in Occupied'
    <3>1. s \in Occupied
      BY <1>2 DEF TickRuns
    <3>2. seats'[s] = Drained(seats[s]) /\ Drained(seats[s]) \in Session
      BY <1>0, <1>2, <3>1, DrainedType DEF TickRuns, TypeOK, Occupied
    <3> QED
      BY <1>0, <3>1, <3>2, SessionIsNotVacant DEF Occupied
  <2>2. Logged(s) \subseteq Logged(s)'
    BY <1>0, <1>2, LoggedAfterTick
  <2>3. frames[s] = NONE \/ frames[s] \in Logged(s)
    BY <2>1 DEF IInv, LedgerInv, FrameInv
  <2>4. frames'[s] = seats'[s].applied_seq
    BY <2>1 DEF IInv, FrameInv
  <2>5. \A q \in Logged(s)' : q <= frames'[s]
    BY <2>1, <2>4 DEF IInv, LedgerInv
  <2>6. CASE frames[s] = NONE
    <3>1. frames'[s] \in Seqs \cup {NONE}
      BY DEF TypeOK
    <3> QED
      BY <2>6, <3>1, MatchConstants DEF Seqs, NONE
  <2> QED
    BY <2>2, <2>3, <2>5, <2>6
<1>3. CASE TickWaits
  BY <1>3 DEF TickWaits
<1> QED
  BY <1>1, <1>2, <1>3 DEF Next, Join, JoinRefused, Deliver, Tick, vars

(* What a seat has been told is folded in is never taken back.             *)
THEOREM AckNeverRetreats == Spec => AckMonotone
BY InductiveInvariant, AckStep, PTL DEF AckMonotone, Spec

-----------------------------------------------------------------------------
(* Refinement.                                                             *)

LEMMA ContractInit == Init => Contract!Init
BY DEF Init, Contract!Init, Occupied

LEMMA ContractStep ==
  ASSUME TypeOK, IInv, [Next]_vars
  PROVE  [Contract!Next]_Contract!vars
<1> USE DEF Contract!vars
<1>1. CASE JoinRefused \/ UNCHANGED vars
  BY <1>1 DEF JoinRefused, vars, Occupied
<1>2. CASE Join
  <2>1. /\ ~started /\ UNCHANGED <<started, log>>
        /\ \A s \in Seats : seats'[s] = IF s = LowestFree THEN NewSession ELSE seats[s]
    BY <1>2 DEF Join, JoinAnswer, TypeOK
  <2>2. Occupied' = Occupied \cup ({LowestFree} \cap Seats)
    BY <2>1, NewSessionType, SessionIsNotVacant DEF Occupied
  <2>3. CASE LowestFree \in Seats \ Occupied
    BY <2>1, <2>2, <2>3 DEF Contract!Next, Contract!Sit
  <2>4. CASE LowestFree \notin Seats \ Occupied
    <3>1. Occupied' = Occupied
      BY <2>2, <2>4
    <3> QED
      BY <2>1, <3>1
  <2> QED
    BY <2>3, <2>4
<1>3. ASSUME NEW s \in Seats, NEW m \in ClientMessage, Deliver(s, m)
      PROVE  [Contract!Next]_Contract!vars
  <2> USE <1>3
  <2>1. UNCHANGED <<started, log>>
    BY DEF Deliver
  <2>2. CASE DeliverSurrender(s, m)
    <3>1. s \in Occupied /\ Occupied' = Occupied \ {s}
      BY <2>2 DEF DeliverSurrender, Verdict, Repeats, Full, Occupied, TypeOK
    <3> QED
      BY <2>1, <3>1 DEF Contract!Next, Contract!Leave
  <2>3. CASE DeliverReady(s, m) \/ DeliverInput(s, m) \/ RefuseInput(s, m)
    <3>1. seats[s] # Vacant
      BY <2>3 DEF DeliverReady, DeliverInput, RefuseInput, Verdict, Repeats, Full
    <3>2. seats[s] \in Session
      BY <3>1 DEF TypeOK
    <3>3. seats'[s] # Vacant /\ \A r \in Seats \ {s} : seats'[r] = seats[r]
      BY <2>3, <3>2 DEF DeliverReady, DeliverInput, RefuseInput, TypeOK,
        Session, Vacant
    <3>4. Occupied' = Occupied
      BY <3>1, <3>3 DEF Occupied
    <3> QED
      BY <2>1, <3>4
  <2>4. CASE DeliverRefused(s, m)
    BY <2>1, <2>4 DEF DeliverRefused, Occupied
  <2> QED
    BY <2>2, <2>3, <2>4 DEF Deliver
<1>4. CASE TickWaits
  BY <1>4 DEF TickWaits, Occupied
<1>5. CASE TickRuns
  <2>1. Occupied' = Occupied
    <3>1. \A s \in Occupied : seats'[s] = Drained(seats[s])
                              /\ Drained(seats[s]) \in Session
      BY <1>5, DrainedType DEF TickRuns, TypeOK, Occupied
    <3> QED
      BY <1>5, <3>1, SessionIsNotVacant DEF TickRuns, Occupied
  <2>2. /\ started' = TRUE
        /\ log' = Append(log, Slice)
        /\ Len(log') = Len(log) + 1 /\ log'[Len(log) + 1] = Slice
    BY <1>5 DEF TickRuns, TypeOK
  <2>3. ASSUME NEW s \in Seats PROVE Contract!FreshRun(s, Slice[s])
    <3>1. Contract!Contributed(s) = Logged(s)
      BY DEF Contract!Contributed, Logged
    <3>2. Slice[s] \in Seq([tick : {Len(log)}, seq : Seqs])
      <4>1. /\ Len(Slice[s]) \in Nat /\ DOMAIN Slice[s] = 1..Len(Slice[s])
            /\ \A i \in DOMAIN Slice[s] :
                 /\ Slice[s][i] \in TimedInput
                 /\ Slice[s][i].tick = Len(log) /\ Slice[s][i].seq \in Seqs
        BY SliceIsFresh
      <4>2. \A i \in DOMAIN Slice[s] :
              Slice[s][i] \in [tick : {Len(log)}, seq : Seqs]
        <5>1. \A x \in TimedInput :
                x = [tick |-> x.tick, seq |-> x.seq]
          BY DEF TimedInput
        <5> QED
          BY <4>1, <5>1
      <4>3. PICK n \in Nat : Slice[s] \in [1..n -> TimedInput]
        BY SliceIsFresh, SeqDef
      <4>4. Slice[s] \in [1..n -> [tick : {Len(log)}, seq : Seqs]]
        BY <4>2, <4>3
      <4> QED
        BY <4>3, <4>4, FunctionIsSeq
    <3> QED
      BY <3>1, <3>2, SliceIsFresh DEF Contract!FreshRun
  <2>4. Contract!Advance
    BY <2>1, <2>2, <2>3 DEF Contract!Advance
  <2> QED
    BY <2>4 DEF Contract!Next
<1> QED
  BY <1>1, <1>2, <1>3, <1>4, <1>5 DEF Next, Tick

(* The authority implements the contract, for every number of seats, every *)
(* rate and every client.                                                  *)
THEOREM Refinement == Spec => ImplementsContract
<1>1. TypeOK /\ IInv /\ [Next]_vars => [Contract!Next]_Contract!vars
  BY ContractStep
<1> QED
  BY <1>1, ContractInit, InductiveInvariant, PTL
  DEF Spec, ImplementsContract, Contract!Spec

-----------------------------------------------------------------------------
(* Resimulating what leaves the authority (MatchRecording.tla) is a fold   *)
(* along the flat log. A flat sequence of sequences keeps each in one      *)
(* piece and in its turn (LaidOut), so folded as far as any place, the     *)
(* buckets hold what of each slice stands before it (BucketsFilled).       *)

(* What the flat log is made of.                                           *)
Timed == [tick : Nat, player : Seats, seq : Seqs]

Buckets == INSTANCE FoldLemmas WITH Op <- Bucketed, V <- Seq(Seq(Timed)), E <- Timed

(* The sequences laid end to end: where each ends, and that nothing stands *)
(* in between.                                                             *)
LaidOut(ss, flat, off) ==
  /\ off \in [0..Len(ss) -> Nat]
  /\ off[0] = 0 /\ Len(flat) = off[Len(ss)]
  /\ \A k \in 1..Len(ss) : off[k] = off[k - 1] + Len(ss[k])
  /\ \A k \in 0..Len(ss), l \in 0..Len(ss) : k <= l => off[k] <= off[l]
  /\ \A k \in 1..Len(ss) : \A j \in 1..Len(ss[k]) :
       off[k - 1] + j \in 1..Len(flat) /\ flat[off[k - 1] + j] = ss[k][j]
  /\ \A i \in 1..Len(flat) : \E k \in 1..Len(ss) : \E j \in 1..Len(ss[k]) : i = off[k - 1] + j

LEMMA FlatPlaces ==
  ASSUME NEW T, NEW ss \in Seq(Seq(T))
  PROVE  FlattenSeq(ss) \in Seq(T) /\ \E off : LaidOut(ss, FlattenSeq(ss), off)
<1> DEFINE n == Len(ss)
           Places(off, f, k) ==
             /\ f \in Seq(T) /\ Len(f) = off[k]
             /\ \A l \in 1..k : \A j \in 1..Len(ss[l]) :
                  off[l - 1] + j \in 1..Len(f) /\ f[off[l - 1] + j] = ss[l][j]
             /\ \A i \in 1..Len(f) : \E l \in 1..k : \E j \in 1..Len(ss[l]) : i = off[l - 1] + j
           Grows(off, k) ==
             /\ off[0] = 0
             /\ \A l \in 1..k : off[l] = off[l - 1] + Len(ss[l])
             /\ \A h \in 0..k, l \in 0..k : h <= l => off[h] <= off[l]
<1>1. n \in Nat /\ \A k \in 1..n : ss[k] \in Seq(T) /\ Len(ss[k]) \in Nat
  BY LenProperties
<1> HIDE DEF n
<1> DEFINE Good(off, flat, k) ==
             /\ off \in [0..k -> Nat] /\ flat \in [1..k -> Seq(T)]
             /\ k # 0 => flat[1] = ss[1]
             /\ \A l \in 2..k : flat[l] = flat[l - 1] \o ss[l]
             /\ Grows(off, k)
             /\ \A l \in 1..k : Places(off, flat[l], l)
           S == {k \in 0..n : \E off, flat : Good(off, flat, k)}
<1>2. 0 \in S
  <2>1. Good([k \in 0..0 |-> 0], [k \in 1..0 |-> <<>>], 0)
    OBVIOUS
  <2> HIDE DEF Good
  <2> QED
    BY <1>1, <2>1
<1>3. ASSUME NEW k \in 0..(n - 1), k \in S PROVE k + 1 \in S
  <2>1. PICK off, flat : Good(off, flat, k)
    BY <1>3
  <2> DEFINE m == k + 1
             last == IF k = 0 THEN <<>> ELSE flat[k]
             more == last \o ss[m]
             far == off[k] + Len(ss[m])
             off2 == [l \in 0..m |-> IF l = m THEN far ELSE off[l]]
             flat2 == [l \in 1..m |-> IF l = m THEN more ELSE flat[l]]
  <2>2. /\ k \in Nat /\ m \in Nat /\ m = k + 1 /\ m \in 1..n /\ m \in 0..n
        /\ ss[m] \in Seq(T) /\ Len(ss[m]) \in Nat /\ off[k] \in Nat
    BY <1>1, <2>1
  <2> HIDE DEF m
  <2>3. Places(off, last, k)
    <3>1. CASE k = 0
      BY <2>1, <3>1
    <3>2. CASE k # 0
      <4>1. k \in 1..k /\ last = flat[k]
        BY <2>2, <3>2
      <4> HIDE DEF last, Places
      <4> QED
        BY <2>1, <4>1
    <3> QED
      BY <3>1, <3>2
  <2>4. /\ last \in Seq(T) /\ Len(last) = off[k]
        /\ more \in Seq(T) /\ Len(more) = far
        /\ \A i \in 1..off[k] : more[i] = last[i]
        /\ \A j \in 1..Len(ss[m]) : more[off[k] + j] = ss[m][j]
    <3>1. last \in Seq(T) /\ Len(last) = off[k]
      BY <2>3
    <3> HIDE DEF last
    <3>2. /\ more \in Seq(T) /\ Len(more) = Len(last) + Len(ss[m])
          /\ \A i \in 1..(Len(last) + Len(ss[m])) :
               more[i] = IF i <= Len(last) THEN last[i] ELSE ss[m][i - Len(last)]
      BY <2>2, <3>1, ConcatProperties
    <3> HIDE DEF more
    <3>3. \A i \in 1..off[k] : more[i] = last[i]
      BY <2>2, <3>1, <3>2
    <3>4. ASSUME NEW j \in 1..Len(ss[m]) PROVE more[off[k] + j] = ss[m][j]
      <4>1. off[k] + j \in 1..(off[k] + Len(ss[m])) /\ ~(off[k] + j <= off[k]) /\ (off[k] + j) - off[k] = j
        BY <2>2, SMTT(40)
      <4> QED
        BY <3>1, <3>2, <4>1
    <3> QED
      BY <3>1, <3>2, <3>3, <3>4
  <2> HIDE DEF more, last, far
  <2>5. /\ off2 \in [0..m -> Nat] /\ off2[m] = far /\ \A l \in 0..k : off2[l] = off[l]
        /\ flat2 \in [1..m -> Seq(T)] /\ flat2[m] = more /\ \A l \in 1..k : flat2[l] = flat[l]
        /\ far \in Nat /\ far = off[k] + Len(ss[m])
    <3>1. far \in Nat /\ far = off[k] + Len(ss[m])
      BY <2>2 DEF far
    <3>2. \A l \in 0..m : (l = m \/ (l \in 0..k /\ l # m))
      BY <2>2
    <3>3. \A l \in 1..m : (l = m \/ (l \in 1..k /\ l # m))
      BY <2>2
    <3>4. (\A l \in 0..k : l \in 0..m /\ l # m) /\ (\A l \in 1..k : l \in 1..m /\ l # m) /\ m \in 1..m /\ m \in 0..m
      BY <2>2
    <3> QED
      BY <2>1, <2>4, <3>1, <3>2, <3>3, <3>4
  <2> HIDE DEF off2, flat2
  <2>6. Grows(off2, m)
    <3>1. \A l \in 1..m : off2[l] = off2[l - 1] + Len(ss[l])
      <4> SUFFICES ASSUME NEW l \in 1..m PROVE off2[l] = off2[l - 1] + Len(ss[l])
        OBVIOUS
      <4>1. CASE l = m
        BY <2>2, <2>5, <4>1
      <4>2. CASE l # m
        <5>1. l \in 1..k /\ l \in 0..k /\ l - 1 \in 0..k
          BY <2>2, <4>2
        <5> QED
          BY <2>1, <2>5, <5>1
      <4> QED
        BY <4>1, <4>2
    <3>2. ASSUME NEW h \in 0..m, NEW l \in 0..m, h <= l PROVE off2[h] <= off2[l]
      <4>1. CASE l # m
        <5>1. l \in 0..k /\ h \in 0..k
          BY <2>2, <3>2, <4>1
        <5> QED
          BY <2>1, <2>5, <3>2, <5>1
      <4>2. CASE l = m /\ h # m
        <5>1. h \in 0..k /\ k \in 0..k /\ h <= k
          BY <2>2, <4>2
        <5>2. off[h] \in Nat /\ off[h] <= off[k] /\ off2[h] = off[h]
          BY <2>1, <2>5, <5>1
        <5> QED
          BY <2>2, <2>5, <4>2, <5>2, SMTT(40)
      <4>3. CASE h = m
        <5>1. l = m /\ off2[m] \in Nat
          BY <2>2, <2>5, <3>2, <4>3
        <5> QED
          BY <4>3, <5>1
      <4> QED
        BY <4>1, <4>2, <4>3
    <3>3. off2[0] = 0
      BY <2>1, <2>2, <2>5
    <3> QED
      BY <3>1, <3>2, <3>3
  <2>7. ASSUME NEW l \in 1..k PROVE Places(off2, flat2[l], l)
    <3>1. \A h \in 1..l : h - 1 \in 0..k
      BY <2>2
    <3>2. l \in 0..k /\ Places(off, flat[l], l) /\ flat2[l] = flat[l]
      <4>1. l \in 0..k
        BY <2>2
      <4>2. flat2[l] = flat[l]
        BY <2>5
      <4> HIDE DEF Places, Grows
      <4>3. Places(off, flat[l], l)
        BY <2>1
      <4> QED
        BY <4>1, <4>2, <4>3
    <3> DEFINE f == flat[l]
    <3>3. /\ f \in Seq(T) /\ Len(f) = off[l] /\ off2[l] = off[l]
          /\ \A h \in 1..l : off2[h - 1] = off[h - 1]
          /\ \A h \in 1..l : \A j \in 1..Len(ss[h]) :
                off[h - 1] + j \in 1..Len(f) /\ f[off[h - 1] + j] = ss[h][j]
          /\ \A i \in 1..Len(f) : \E h \in 1..l : \E j \in 1..Len(ss[h]) : i = off[h - 1] + j
      BY <2>5, <3>1, <3>2
    <3> HIDE DEF f
    <3>4. Places(off2, f, l)
      BY <3>3
    <3> HIDE DEF Places
    <3> QED
      BY <3>2, <3>4 DEF f
  <2>8. Places(off2, flat2[m], m)
    <3>1. more \in Seq(T) /\ Len(more) = off2[m] /\ flat2[m] = more
      BY <2>4, <2>5
    <3>2. ASSUME NEW l \in 1..m, NEW j \in 1..Len(ss[l])
          PROVE  off2[l - 1] + j \in 1..Len(more) /\ more[off2[l - 1] + j] = ss[l][j]
      <4>1. CASE l = m
        <5>1. l - 1 = k /\ off2[l - 1] = off[k]
          BY <2>2, <2>5, <4>1
        <5>2. j \in 1..Len(ss[m]) /\ off[k] + j \in 1..far
          BY <2>2, <2>5, <4>1, SMTT(40)
        <5> QED
          BY <2>4, <4>1, <5>1, <5>2
      <4>2. CASE l # m
        <5>1. l \in 1..k /\ l - 1 \in 0..k
          BY <2>2, <4>2
        <5>2. off2[l - 1] = off[l - 1] /\ off[l - 1] + j \in 1..Len(last) /\ last[off[l - 1] + j] = ss[l][j]
          BY <2>3, <2>5, <5>1
        <5>3. off[l - 1] + j \in 1..off[k] /\ off[l - 1] + j \in 1..far
          <6>1. PICK a \in Nat : a = off[k]
            BY <2>2
          <6>2. PICK c \in Nat : c = Len(ss[m])
            BY <2>2
          <6>3. PICK b \in Nat : b = off[l - 1]
            BY <2>1, <5>1
          <6>4. PICK d \in Nat : d = far
            BY <2>5
          <6>5. b + j \in 1..a
            BY <2>3, <5>2, <6>1, <6>3
          <6>6. d = a + c
            BY <2>5, <6>1, <6>2, <6>4
          <6>7. b + j \in 1..d
            BY <6>5, <6>6
          <6> QED
            BY <6>1, <6>3, <6>4, <6>5, <6>7
        <5> QED
          BY <2>4, <5>2, <5>3
      <4> QED
        BY <4>1, <4>2
    <3>3. ASSUME NEW i \in 1..Len(more)
          PROVE  \E l \in 1..m : \E j \in 1..Len(ss[l]) : i = off2[l - 1] + j
      <4>1. CASE i <= off[k]
        <5>1. i \in 1..Len(last)
          BY <2>2, <2>4, <4>1
        <5>2. PICK l \in 1..k : \E j \in 1..Len(ss[l]) : i = off[l - 1] + j
          BY <2>3, <5>1
        <5>3. l \in 1..m /\ l - 1 \in 0..k /\ off2[l - 1] = off[l - 1]
          BY <2>2, <2>5
        <5> QED
          BY <5>2, <5>3
      <4>2. CASE ~(i <= off[k])
        <5>1. i - off[k] \in 1..Len(ss[m]) /\ i = off[k] + (i - off[k]) /\ m - 1 = k /\ m \in 1..m
          <6>1. PICK a \in Nat, c \in Nat : a = off[k] /\ c = Len(ss[m])
            BY <2>2
          <6>2. i \in 1..(a + c) /\ ~(i <= a)
            BY <2>4, <2>5, <4>2, <6>1
          <6>3. i - a \in 1..c /\ i = a + (i - a) /\ m - 1 = k /\ m \in 1..m
            BY <2>2, <6>2
          <6> QED
            BY <6>1, <6>3
        <5>2. off2[m - 1] = off[k]
          BY <2>2, <2>5
        <5> QED
          BY <5>1, <5>2
      <4> QED
        BY <4>1, <4>2
    <3> QED
      BY <3>1, <3>2, <3>3
  <2>9. (m # 0 => flat2[1] = ss[1]) /\ \A l \in 2..m : flat2[l] = flat2[l - 1] \o ss[l]
    <3>1. flat2[1] = ss[1]
      <4>1. CASE k = 0
        <5>1. last = <<>> /\ m = 1 /\ more = <<>> \o ss[1]
          BY <2>2, <4>1 DEF last, more
        <5>2. <<>> \o ss[1] = ss[1]
          BY <2>2, <5>1, ConcatEmptySeq
        <5> QED
          BY <2>5, <5>1, <5>2
      <4>2. CASE k # 0
        <5>1. 1 \in 1..k
          BY <2>2, <4>2
        <5> QED
          BY <2>1, <2>5, <4>2, <5>1
      <4> QED
        BY <4>1, <4>2
    <3>2. ASSUME NEW l \in 2..m PROVE flat2[l] = flat2[l - 1] \o ss[l]
      <4>1. CASE l = m
        <5>1. k # 0 /\ k \in 1..k /\ l - 1 = k /\ last = flat[k]
          BY <2>2, <4>1 DEF last
        <5> QED
          BY <2>5, <4>1, <5>1 DEF more
      <4>2. CASE l # m
        <5>1. l \in 2..k /\ l \in 1..k /\ l - 1 \in 1..k
          BY <2>2, <4>2
        <5> QED
          BY <2>1, <2>5, <5>1
      <4> QED
        BY <4>1, <4>2
    <3> QED
      BY <3>1, <3>2
  <2>10. \A l \in 1..m : Places(off2, flat2[l], l)
    <3>1. \A l \in 1..m : l = m \/ l \in 1..k
      BY <2>2
    <3> HIDE DEF Places
    <3> QED
      BY <2>7, <2>8, <3>1
  <2>11. Good(off2, flat2, m)
    <3> HIDE DEF Places, Grows
    <3> QED
      BY <2>5, <2>6, <2>9, <2>10
  <2> HIDE DEF Good
  <2> QED
    BY <2>2, <2>11
<1> HIDE DEF S
<1>4. n \in S
  <2>1. \A i \in 0..n : i \in S
    BY <1>1, <1>2, <1>3, Buckets!CountingUp
  <2> QED
    BY <1>1, <2>1
<1>5. PICK off, flat : Good(off, flat, n)
  BY <1>4 DEF S
<1>6. CASE n = 0
  <2>1. ss = <<>> /\ FlattenSeq(ss) = <<>> /\ Len(ss) = 0
    BY <1>6 DEF n, FlattenSeq
  <2>2. LaidOut(ss, FlattenSeq(ss), [k \in 0..0 |-> 0])
    BY <2>1 DEF LaidOut
  <2> QED
    BY <2>1, <2>2
<1>7. CASE n # 0
  <2>1. n \in 1..n
    BY <1>1, <1>7
  <2>2. FlattenSeq(ss) = flat[n]
    <3> DEFINE Is(f) == f = [i \in 1..Len(ss) |-> IF i = 1 THEN ss[i] ELSE f[i - 1] \o ss[i]]
               f == CHOOSE f : Is(f)
    <3>1. FlattenSeq(ss) = f[n]
      BY <1>7 DEF FlattenSeq, n
    <3>2. Is(flat)
      <4>1. \A i \in 1..n : i = 1 \/ i \in 2..n
        BY <1>1
      <4> QED
        BY <1>5, <1>7, <4>1 DEF n
    <3>3. Is(f)
      <4> HIDE DEF Is
      <4> QED
        BY <3>2
    <3> HIDE DEF f
    <3>8. flat[1] = ss[1] /\ \A l \in 2..n : flat[l] = flat[l - 1] \o ss[l]
      BY <1>5, <1>7
    <3> HIDE DEF Good
    <3>4. \A i \in 1..n : f[i] = IF i = 1 THEN ss[i] ELSE f[i - 1] \o ss[i]
      BY <3>3 DEF n
    <3> DEFINE A == {i \in 0..n : i = 0 \/ f[i] = flat[i]}
    <3>5. 0 \in A
      BY <1>1
    <3>6. ASSUME NEW i \in 0..(n - 1), i \in A PROVE i + 1 \in A
      <4>1. i + 1 \in 1..n /\ i + 1 \in 0..n /\ (i + 1) - 1 = i /\ (i = 0 \/ (i + 1 \in 2..n /\ i + 1 # 1))
        BY <1>1
      <4>2. CASE i = 0
        BY <3>4, <3>8, <4>1, <4>2
      <4>3. CASE i # 0
        <5>1. f[i + 1] = f[i] \o ss[i + 1] /\ flat[i + 1] = flat[i] \o ss[i + 1] /\ f[i] = flat[i]
          BY <3>4, <3>6, <3>8, <4>1, <4>3
        <5> QED
          BY <4>1, <5>1
      <4> QED
        BY <4>2, <4>3
    <3> HIDE DEF A
    <3>7. \A i \in 0..n : i \in A
      BY <1>1, <3>5, <3>6, Buckets!CountingUp
    <3> QED
      BY <1>1, <1>7, <3>1, <3>7 DEF A
  <2>3. Places(off, flat[n], n) /\ Grows(off, n) /\ off \in [0..n -> Nat]
    <3> HIDE DEF Places, Grows
    <3> QED
      BY <1>5, <2>1
  <2> HIDE DEF Good
  <2>4. Places(off, FlattenSeq(ss), n) /\ Grows(off, n) /\ off \in [0..n -> Nat]
    BY <2>2, <2>3, ZenonT(60)
  <2>5. FlattenSeq(ss) \in Seq(T) /\ LaidOut(ss, FlattenSeq(ss), off)
    <3> DEFINE flt == FlattenSeq(ss)
    <3>1. Places(off, flt, n) /\ Grows(off, n) /\ off \in [0..n -> Nat]
      BY <2>4
    <3> HIDE DEF flt
    <3>2. flt \in Seq(T) /\ LaidOut(ss, flt, off)
      BY <3>1, Zenon DEF LaidOut, n
    <3> QED
      BY <3>2 DEF flt
  <2> QED
    BY <2>5
<1> QED
  BY <1>6, <1>7

(* An element of the whole, and its place among the sequences.             *)
StandsAt(ss, off, i, k, x) ==
  k \in 1..Len(ss) /\ x \in 1..Len(ss[k]) /\ i = off[k - 1] + x /\ i <= off[k]

LEMMA PlaceOf ==
  ASSUME NEW ss, Len(ss) \in Nat, \A k \in 1..Len(ss) : Len(ss[k]) \in Nat,
         NEW flat, NEW off, LaidOut(ss, flat, off),
         NEW i \in 1..Len(flat)
  PROVE  \E k, x : StandsAt(ss, off, i, k, x) /\ flat[i] = ss[k][x]
<1>1. PICK k \in 1..Len(ss) : \E x \in 1..Len(ss[k]) : i = off[k - 1] + x
  BY DEF LaidOut
<1>2. PICK x \in 1..Len(ss[k]) : i = off[k - 1] + x
  BY <1>1
<1>3. Len(ss[k]) \in Nat /\ k \in 0..Len(ss) /\ k - 1 \in 0..Len(ss)
  OBVIOUS
<1>4. PICK a \in Nat, b \in Nat, c \in Nat : a = off[k] /\ b = off[k - 1] /\ c = Len(ss[k])
  BY <1>3 DEF LaidOut
<1>5. off[k] = off[k - 1] + Len(ss[k]) /\ flat[off[k - 1] + x] = ss[k][x]
  BY <1>3 DEF LaidOut
<1>6. i <= off[k]
  BY <1>2, <1>4, <1>5
<1>7. StandsAt(ss, off, i, k, x) /\ flat[i] = ss[k][x]
  BY <1>2, <1>5, <1>6 DEF StandsAt
<1> QED
  BY <1>7

(* Two elements of the whole stand as their sequences do, or, in one       *)
(* sequence, as they do there.                                             *)
InTheirOrder(ss, flat, i, j, k, x, l, y) ==
  /\ k \in 1..Len(ss) /\ x \in 1..Len(ss[k]) /\ flat[i] = ss[k][x]
  /\ l \in 1..Len(ss) /\ y \in 1..Len(ss[l]) /\ flat[j] = ss[l][y]
  /\ k < l \/ (k = l /\ x < y)

LEMMA PlacesInOrder ==
  ASSUME NEW ss, Len(ss) \in Nat, \A k \in 1..Len(ss) : Len(ss[k]) \in Nat,
         NEW flat, NEW off, LaidOut(ss, flat, off),
         NEW i \in 1..Len(flat), NEW j \in 1..Len(flat), i < j
  PROVE  \E k, x, l, y : InTheirOrder(ss, flat, i, j, k, x, l, y)
<1>1a. PICK k, x : StandsAt(ss, off, i, k, x) /\ flat[i] = ss[k][x]
  BY PlaceOf
<1>1. k \in 1..Len(ss) /\ x \in 1..Len(ss[k]) /\ i = off[k - 1] + x /\ i <= off[k]
  BY <1>1a DEF StandsAt
<1>2a. PICK l, y : StandsAt(ss, off, j, l, y) /\ flat[j] = ss[l][y]
  BY PlaceOf
<1>2. l \in 1..Len(ss) /\ y \in 1..Len(ss[l]) /\ j = off[l - 1] + y /\ j <= off[l]
  BY <1>2a DEF StandsAt
<1>3. /\ off \in [0..Len(ss) -> Nat]
      /\ \A g \in 0..Len(ss), h \in 0..Len(ss) : g <= h => off[g] <= off[h]
  BY Zenon DEF LaidOut
<1>4. x \in Nat /\ y \in Nat /\ 1 <= x /\ k \in Nat /\ l \in Nat
  BY <1>1, <1>2
<1>5. ~(l < k)
  <2> SUFFICES ASSUME l < k PROVE FALSE
    OBVIOUS
  <2>1. l \in 0..Len(ss) /\ k - 1 \in 0..Len(ss) /\ l <= k - 1
    BY <1>1, <1>2
  <2>2. PICK a \in Nat, b \in Nat : a = off[l] /\ b = off[k - 1]
    BY <1>3, <2>1
  <2>3. a <= b /\ j <= a /\ i = b + x
    BY <1>1, <1>2, <1>3, <2>1, <2>2
  <2> QED
    BY <1>4, <2>2, <2>3
<1>6. k = l => x < y
  <2> SUFFICES ASSUME k = l PROVE x < y
    OBVIOUS
  <2>1. k - 1 \in 0..Len(ss)
    BY <1>1
  <2>2. PICK b \in Nat : b = off[k - 1]
    BY <1>3, <2>1
  <2> QED
    BY <1>1, <1>2, <1>4, <2>2
<1>7. InTheirOrder(ss, flat, i, j, k, x, l, y)
  BY <1>1a, <1>1, <1>2a, <1>2, <1>4, <1>5, <1>6 DEF InTheirOrder
<1> QED
  BY <1>7

-----------------------------------------------------------------------------

(* A slice lies flat in the order `step' requires: by seat, and each seat's *)
(* by number.                                                              *)
LEMMA SliceInOrder ==
  ASSUME NEW slice \in [Seats -> Seq(TimedInput)], NEW t \in Nat,
         \A s \in Seats : \A i \in DOMAIN slice[s] :
           /\ slice[s][i].tick = t
           /\ \A j \in DOMAIN slice[s] : j < i => slice[s][j].seq < slice[s][i].seq
  PROVE  /\ FlatSlice(slice) \in Seq(Timed)
         /\ \A i \in DOMAIN FlatSlice(slice) : FlatSlice(slice)[i].tick = t
         /\ InStepOrder(FlatSlice(slice))
<1> DEFINE Row(s) == [i \in DOMAIN slice[s] |->
                        [tick |-> slice[s][i].tick, player |-> s, seq |-> slice[s][i].seq]]
           ss == [n \in 1..PLAYER_COUNT |-> Row(n - 1)]
           flat == FlattenSeq(ss)
<1>1. /\ PLAYER_COUNT \in Nat
      /\ \A n \in 1..PLAYER_COUNT : n - 1 \in Seats /\ (n - 1) + 1 = n
  BY MatchConstants DEF Seats
<1>2. \A s \in Seats : /\ Len(slice[s]) \in Nat /\ DOMAIN slice[s] = 1..Len(slice[s])
                       /\ \A i \in 1..Len(slice[s]) : slice[s][i] \in TimedInput
  OBVIOUS
<1>3. ASSUME NEW s \in Seats PROVE Row(s) \in Seq(Timed) /\ Len(Row(s)) = Len(slice[s])
  <2>1. Row(s) \in [1..Len(slice[s]) -> Timed]
    BY <1>2 DEF Timed, TimedInput
  <2>2. Row(s) \in Seq(Timed)
    BY <1>2, <2>1, SeqDef
  <2> QED
    BY <1>2, <2>1, <2>2, LenProperties
<1>4. ss \in Seq(Seq(Timed)) /\ Len(ss) = PLAYER_COUNT
  <2>1. ss \in [1..PLAYER_COUNT -> Seq(Timed)]
    BY <1>1, <1>3
  <2>2. ss \in Seq(Seq(Timed))
    BY <1>1, <2>1, SeqDef
  <2> QED
    BY <1>1, <2>1, <2>2, LenProperties
<1>5. FlatSlice(slice) = flat
  BY DEF FlatSlice
<1>6. \A n \in 1..PLAYER_COUNT : ss[n] = Row(n - 1) /\ Len(ss[n]) = Len(slice[n - 1])
  BY <1>1, <1>3
<1>7. \A s \in Seats : \A i \in 1..Len(slice[s]) :
         Row(s)[i].tick = t /\ Row(s)[i].player = s /\ Row(s)[i].seq = slice[s][i].seq
  BY <1>2
<1> HIDE DEF ss, Row
<1>8. flat \in Seq(Timed) /\ \E off : LaidOut(ss, flat, off)
  BY <1>4, FlatPlaces
<1>9. PICK off : LaidOut(ss, flat, off)
  BY <1>8
<1> HIDE DEF flat
<1>10. ASSUME NEW i \in 1..Len(flat) PROVE flat[i].tick = t
  <2>1. PICK k, x : StandsAt(ss, off, i, k, x) /\ flat[i] = ss[k][x]
    BY <1>1, <1>4, <1>6, <1>9, PlaceOf, SMTT(40)
  <2>2. k \in 1..PLAYER_COUNT /\ x \in 1..Len(ss[k])
    BY <1>4, <2>1 DEF StandsAt
  <2>3. k - 1 \in Seats /\ ss[k] = Row(k - 1) /\ x \in 1..Len(slice[k - 1])
    BY <1>1, <1>6, <2>2
  <2> QED
    BY <1>7, <2>1, <2>3
<1>11. ASSUME NEW i \in 1..Len(flat), NEW j \in 1..Len(flat), i < j
       PROVE  LET a == flat[i]  b == flat[j]
              IN  \/ a.tick < b.tick
                  \/ a.tick = b.tick /\ a.player < b.player
                  \/ a.tick = b.tick /\ a.player = b.player /\ a.seq < b.seq
  <2>1. PICK k, x, l, y : InTheirOrder(ss, flat, i, j, k, x, l, y)
    BY <1>1, <1>4, <1>6, <1>9, <1>11, PlacesInOrder
  <2>3. /\ k \in 1..PLAYER_COUNT /\ x \in 1..Len(ss[k]) /\ flat[i] = ss[k][x]
        /\ l \in 1..PLAYER_COUNT /\ y \in 1..Len(ss[l]) /\ flat[j] = ss[l][y]
        /\ k < l \/ (k = l /\ x < y)
    BY <1>4, <2>1 DEF InTheirOrder
  <2>4. /\ k - 1 \in Seats /\ l - 1 \in Seats /\ k \in Nat /\ l \in Nat
        /\ x \in 1..Len(slice[k - 1]) /\ y \in 1..Len(slice[l - 1])
        /\ ss[k] = Row(k - 1) /\ ss[l] = Row(l - 1)
    BY <1>1, <1>6, <2>3
  <2>5. /\ flat[i].tick = t /\ flat[i].player = k - 1 /\ flat[i].seq = slice[k - 1][x].seq
        /\ flat[j].tick = t /\ flat[j].player = l - 1 /\ flat[j].seq = slice[l - 1][y].seq
    BY <1>7, <2>3, <2>4, SMTT(40)
  <2>6. CASE k < l
    BY <2>4, <2>5, <2>6
  <2>7. CASE k = l /\ x < y
    <3>1. slice[k - 1][x].seq < slice[l - 1][y].seq
      BY <1>2, <2>4, <2>7
    <3> QED
      BY <2>5, <2>7, <3>1
  <2> QED
    BY <2>3, <2>6, <2>7
<1>12. Len(flat) \in Nat /\ DOMAIN flat = 1..Len(flat)
  BY <1>8
<1>13. \A i \in DOMAIN flat : flat[i].tick = t
  BY <1>10, <1>12
<1>14. InStepOrder(flat)
  BY <1>11, <1>12 DEF InStepOrder
<1> QED
  BY <1>5, <1>8, <1>13, <1>14

(* So does the log, tick after tick, and each tick's slice stands where    *)
(* those before it end.                                                    *)
Slices == [k \in DOMAIN log |-> FlatSlice(log[k])]

LEMMA LogInOrder ==
  ASSUME TypeOK, LogCanonical
  PROVE  /\ FlatLog \in Seq(Timed) /\ InStepOrder(FlatLog)
         /\ Slices \in Seq(Seq(Timed)) /\ Len(Slices) = Len(log) /\ Len(log) \in Nat
         /\ \A k \in 1..Len(log) : \A i \in DOMAIN Slices[k] : Slices[k][i].tick = k - 1
         /\ \E off : LaidOut(Slices, FlatLog, off)
<1> DEFINE n == Len(log)
<1>1. n \in Nat /\ DOMAIN log = 1..n /\ \A k \in 1..n : log[k] \in [Seats -> Seq(TimedInput)]
  BY DEF TypeOK
<1>2. ASSUME NEW k \in 1..n
      PROVE  /\ FlatSlice(log[k]) \in Seq(Timed) /\ InStepOrder(FlatSlice(log[k]))
             /\ \A i \in DOMAIN FlatSlice(log[k]) : FlatSlice(log[k])[i].tick = k - 1
  <2>1. k - 1 \in Nat /\ k \in DOMAIN log /\ log[k] \in [Seats -> Seq(TimedInput)]
    BY <1>1
  <2>2. \A s \in Seats : \A i \in DOMAIN log[k][s] :
           /\ log[k][s][i].tick = k - 1
           /\ \A j \in DOMAIN log[k][s] : j < i => log[k][s][j].seq < log[k][s][i].seq
    BY <2>1 DEF LogCanonical
  <2> QED
    BY <2>1, <2>2, SliceInOrder
<1>3. Slices \in Seq(Seq(Timed)) /\ Len(Slices) = n /\ \A k \in 1..n : Slices[k] = FlatSlice(log[k])
  <2>1. Slices \in [1..n -> Seq(Timed)] /\ \A k \in 1..n : Slices[k] = FlatSlice(log[k])
    BY <1>1, <1>2 DEF Slices
  <2>2. Slices \in Seq(Seq(Timed))
    BY <1>1, <2>1, SeqDef
  <2> QED
    BY <1>1, <2>1, <2>2, LenProperties
<1>3a. Len(Slices) \in Nat /\ \A k \in 1..Len(Slices) : Len(Slices[k]) \in Nat
  BY <1>1, <1>2, <1>3, LenProperties
<1>4. FlatLog \in Seq(Timed) /\ \E off : LaidOut(Slices, FlatLog, off)
  BY <1>3, FlatPlaces DEF FlatLog, Slices
<1>5. PICK off : LaidOut(Slices, FlatLog, off)
  BY <1>4
<1>6. ASSUME NEW i \in 1..Len(FlatLog), NEW j \in 1..Len(FlatLog), i < j
      PROVE  LET a == FlatLog[i]  b == FlatLog[j]
             IN  \/ a.tick < b.tick
                 \/ a.tick = b.tick /\ a.player < b.player
                 \/ a.tick = b.tick /\ a.player = b.player /\ a.seq < b.seq
  <2>1. PICK k, x, l, y : InTheirOrder(Slices, FlatLog, i, j, k, x, l, y)
    BY <1>1, <1>3a, <1>5, <1>6, PlacesInOrder
  <2>3. /\ k \in 1..n /\ x \in 1..Len(Slices[k]) /\ FlatLog[i] = Slices[k][x]
        /\ l \in 1..n /\ y \in 1..Len(Slices[l]) /\ FlatLog[j] = Slices[l][y]
        /\ k < l \/ (k = l /\ x < y)
    BY <1>3, <2>1 DEF InTheirOrder
  <2>4. k \in Nat /\ l \in Nat
    BY <1>1, <2>3
  <2>5. /\ Slices[k] \in Seq(Timed) /\ DOMAIN Slices[k] = 1..Len(Slices[k])
        /\ Slices[l] \in Seq(Timed) /\ DOMAIN Slices[l] = 1..Len(Slices[l])
    BY <1>2, <1>3, <2>3, LenProperties
  <2>6. CASE k < l
    <3>1. FlatLog[i].tick = k - 1 /\ FlatLog[j].tick = l - 1
      BY <1>2, <1>3, <2>3, <2>5, ZenonT(60)
    <3> QED
      BY <2>4, <2>6, <3>1
  <2>7. CASE k = l /\ x < y
    <3>1. InStepOrder(Slices[k]) /\ x \in DOMAIN Slices[k] /\ y \in DOMAIN Slices[k]
      BY <1>2, <1>3, <2>3, <2>5, <2>7
    <3> QED
      BY <2>3, <2>7, <3>1 DEF InStepOrder
  <2> QED
    BY <2>3, <2>6, <2>7
<1>7. Len(FlatLog) \in Nat /\ DOMAIN FlatLog = 1..Len(FlatLog)
  BY <1>4, LenProperties
<1>8. InStepOrder(FlatLog)
  BY <1>6, <1>7 DEF InStepOrder
<1> QED
  BY <1>1, <1>2, <1>3, <1>4, <1>8

(* How many elements of the sequence from a to b stand among the first i.  *)
Among(a, b, i) == IF b <= i THEN b - a ELSE IF i <= a THEN 0 ELSE i - a

LEMMA AmongNext ==
  ASSUME NEW a \in Nat, NEW b \in Nat, NEW i \in Nat, a <= b
  PROVE  /\ Among(a, b, i) \in 0..(b - a)
         /\ Among(a, b, 0) = 0
         /\ a <= i /\ i + 1 <= b => Among(a, b, i) = i - a /\ Among(a, b, i + 1) = (i - a) + 1
         /\ b <= i \/ i + 1 <= a => Among(a, b, i + 1) = Among(a, b, i)
BY DEF Among

(* Resimulating the sequences laid end to end, the elements of each        *)
(* stamped with its place, gives them back.                                *)
LEMMA BucketsFilled ==
  ASSUME NEW ss \in Seq(Seq(Timed)), NEW flat \in Seq(Timed), NEW off, LaidOut(ss, flat, off),
         \A k \in 1..Len(ss) : \A i \in DOMAIN ss[k] : ss[k][i].tick = k - 1
  PROVE  Resimulate(Len(ss), flat) = ss
<1> DEFINE n == Len(ss)
           empty == [t \in 1..n |-> <<>>]
<1>1. /\ n \in Nat /\ DOMAIN ss = 1..n
      /\ \A k \in 1..n : ss[k] \in Seq(Timed) /\ Len(ss[k]) \in Nat /\ DOMAIN ss[k] = 1..Len(ss[k])
      /\ Len(flat) \in Nat
  BY LenProperties
<1>2. /\ off \in [0..n -> Nat] /\ off[0] = 0 /\ Len(flat) = off[n]
      /\ \A k \in 1..n : off[k] = off[k - 1] + Len(ss[k])
      /\ \A k \in 0..n, l \in 0..n : k <= l => off[k] <= off[l]
  BY Zenon DEF LaidOut
<1>2a. Len(ss) \in Nat /\ \A k \in 1..Len(ss) : Len(ss[k]) \in Nat
  BY <1>1
<1>2b. \A p \in 1..Len(flat) : \E k, x : StandsAt(ss, off, p, k, x) /\ flat[p] = ss[k][x]
  BY <1>2a, PlaceOf
<1> HIDE DEF n
<1>3. empty \in Seq(Seq(Timed))
  <2>1. empty \in [1..n -> Seq(Timed)]
    BY EmptySeq
  <2> QED
    BY <1>1, <2>1, SeqDef
<1>4. \A buckets \in Seq(Seq(Timed)), timed \in Timed : Bucketed(buckets, timed) \in Seq(Seq(Timed))
  <2> SUFFICES ASSUME NEW buckets \in Seq(Seq(Timed)), NEW timed \in Timed
               PROVE  Bucketed(buckets, timed) \in Seq(Seq(Timed))
    OBVIOUS
  <2>1. CASE timed.tick + 1 \in DOMAIN buckets
    <3>1. buckets[timed.tick + 1] \in Seq(Timed)
      BY <2>1
    <3>2. Append(buckets[timed.tick + 1], timed) \in Seq(Timed)
      BY <3>1, AppendProperties
    <3> QED
      BY <2>1, <3>2, ExceptSeq DEF Bucketed
  <2>2. CASE timed.tick + 1 \notin DOMAIN buckets
    BY <2>2 DEF Bucketed
  <2> QED
    BY <2>1, <2>2
<1>5. PICK run \in [0..Len(flat) -> Seq(Seq(Timed))] :
        /\ run[0] = empty
        /\ \A i \in 1..Len(flat) : run[i] = Bucketed(run[i - 1], flat[i])
        /\ Buckets!Folded(empty, flat) = run[Len(flat)]
  <2> HIDE DEF empty
  <2> QED
    BY <1>3, <1>4, Buckets!FoldRuns
<1>6. Resimulate(n, flat) = run[Len(flat)]
  <2>1. FoldLeft(Bucketed, empty, flat) = Buckets!Folded(empty, flat)
    BY DEF FoldLeft, MapThenFoldSet, Max, Buckets!Folded, Buckets!Greatest
  <2> QED
    BY <1>5, <2>1 DEF Resimulate
<1> DEFINE Held(i, k) == Among(off[k - 1], off[k], i)
           Fills(i, k) == /\ run[i][k] \in Seq(Timed) /\ Len(run[i][k]) = Held(i, k)
                          /\ \A x \in 1..Held(i, k) : run[i][k][x] = ss[k][x]
           A == {i \in 0..Len(flat) : /\ DOMAIN run[i] = 1..n
                                      /\ \A k \in 1..n : Fills(i, k)}
<1>7. ASSUME NEW k \in 1..n
      PROVE  k - 1 \in 0..n /\ k \in 0..n /\ off[k - 1] \in Nat /\ off[k] \in Nat /\ off[k - 1] <= off[k]
  BY <1>1, <1>2
<1>8. 0 \in A
  <2>1. ASSUME NEW k \in 1..n PROVE Fills(0, k)
    <3>1. Held(0, k) = 0
      BY <1>7, AmongNext
    <3>2. run[0][k] = <<>>
      BY <1>5
    <3> QED
      BY <3>1, <3>2, EmptySeq
  <2>2. DOMAIN run[0] = 1..n
    BY <1>5
  <2> HIDE DEF Fills
  <2> QED
    BY <1>1, <2>1, <2>2
<1>9. ASSUME NEW i \in 0..(Len(flat) - 1), i \in A PROVE i + 1 \in A
  <2>1. i \in Nat /\ i + 1 \in 1..Len(flat) /\ i + 1 \in 0..Len(flat) /\ (i + 1) - 1 = i /\ i \in 0..Len(flat)
    BY <1>1
  <2>2. PICK k, x : StandsAt(ss, off, i + 1, k, x) /\ flat[i + 1] = ss[k][x]
    <3>1. PICK p \in 1..Len(flat) : p = i + 1
      BY <2>1
    <3>2. \E k, x : StandsAt(ss, off, p, k, x) /\ flat[p] = ss[k][x]
      BY <1>2b
    <3> QED
      BY <3>1, <3>2
  <2>3. k \in 1..n /\ x \in 1..Len(ss[k]) /\ i + 1 = off[k - 1] + x /\ i + 1 <= off[k]
    BY <2>2 DEF StandsAt, n
  <2>4. flat[i + 1] = ss[k][x] /\ flat[i + 1].tick + 1 = k /\ flat[i + 1] \in Timed
    <3>1. ss[k][x].tick = k - 1 /\ ss[k][x] \in Timed
      BY <1>1, <2>3 DEF n
    <3> QED
      BY <1>1, <2>2, <2>3, <3>1
  <2>5. DOMAIN run[i] = 1..n /\ \A l \in 1..n : Fills(i, l)
    <3> HIDE DEF Fills
    <3> QED
      BY <1>9 DEF A
  <2>6. run[i + 1] = [run[i] EXCEPT ![k] = Append(@, ss[k][x])]
    BY <1>5, <2>1, <2>3, <2>4, <2>5 DEF Bucketed
  <2>7. DOMAIN run[i + 1] = 1..n
    BY <2>5, <2>6
  <2>8. ASSUME NEW l \in 1..n PROVE Fills(i + 1, l)
    <3>1. CASE l = k
      <4>1. Held(i, k) = i - off[k - 1] /\ Held(i + 1, k) = (i - off[k - 1]) + 1
        <5>1. PICK a \in Nat, b \in Nat : a = off[k - 1] /\ b = off[k] /\ a <= b
          BY <1>7, <2>3
        <5>2. x \in Nat /\ x >= 1
          BY <1>1, <2>3
        <5>3. i + 1 = a + x /\ i + 1 <= b
          BY <2>3, <5>1
        <5>4. a <= i /\ i + 1 <= b
          BY <2>1, <5>1, <5>2, <5>3
        <5> QED
          BY <2>1, <5>1, <5>4, AmongNext
      <4>2. x \in Nat /\ x >= 1 /\ i - off[k - 1] = x - 1 /\ (i - off[k - 1]) + 1 = x
        <5>1. PICK a \in Nat : a = off[k - 1]
          BY <1>7, <2>3
        <5>2. x \in Nat /\ x >= 1
          BY <1>1, <2>3
        <5>3. i + 1 = a + x
          BY <2>3, <5>1
        <5> QED
          BY <2>1, <5>1, <5>2, <5>3
      <4>3. /\ run[i][k] \in Seq(Timed) /\ Len(run[i][k]) = x - 1
            /\ \A z \in 1..(x - 1) : run[i][k][z] = ss[k][z]
        BY <2>3, <2>5, <4>1, <4>2, SMTT(40)
      <4>4. run[i + 1][k] = Append(run[i][k], ss[k][x]) /\ ss[k][x] \in Timed
        BY <2>3, <2>4, <2>5, <2>6
      <4>5. /\ run[i + 1][k] \in Seq(Timed) /\ Len(run[i + 1][k]) = x
            /\ \A z \in 1..x : run[i + 1][k][z] = IF z <= x - 1 THEN run[i][k][z] ELSE ss[k][x]
        <5> DEFINE q == run[i][k]  e == ss[k][x]
        <5>1. q \in Seq(Timed) /\ Len(q) = x - 1 /\ e \in Timed
          BY <4>3, <4>4
        <5> HIDE DEF q, e
        <5>2. /\ Append(q, e) \in Seq(Timed) /\ Len(Append(q, e)) = x
              /\ \A z \in 1..x : Append(q, e)[z] = IF z <= x - 1 THEN q[z] ELSE e
          BY <4>2, <5>1, AppendProperties
        <5> QED
          BY <4>4, <5>2 DEF q, e
      <4>6. \A z \in 1..x : run[i + 1][k][z] = ss[k][z]
        <5> SUFFICES ASSUME NEW z \in 1..x PROVE run[i + 1][k][z] = ss[k][z]
          OBVIOUS
        <5>1. z \in 1..(x - 1) \/ (z = x /\ ~(z <= x - 1))
          BY <4>2
        <5>2. CASE z \in 1..(x - 1)
          BY <4>2, <4>3, <4>5, <5>2
        <5>3. CASE z = x /\ ~(z <= x - 1)
          BY <4>5, <5>3
        <5> QED
          BY <5>1, <5>2, <5>3
      <4> QED
        BY <3>1, <4>1, <4>2, <4>5, <4>6
    <3>2. CASE l # k
      <4>1. run[i + 1][l] = run[i][l]
        BY <2>5, <2>6, <3>2
      <4>2. off[l] <= i \/ i + 1 <= off[l - 1]
        <5>1. PICK a \in Nat, b \in Nat : a = off[k - 1] /\ b = off[k] /\ i + 1 = a + x /\ i + 1 <= b
          BY <1>7, <2>3
        <5>2. PICK c \in Nat, d \in Nat : c = off[l - 1] /\ d = off[l]
          BY <1>7
        <5>3. k \in 0..n /\ k - 1 \in 0..n /\ l \in 0..n /\ l - 1 \in 0..n /\ x >= 1 /\ x \in Nat
          BY <1>1, <2>3
        <5>4. CASE l < k
          <6>1. l <= k - 1
            BY <5>3, <5>4
          <6>2. d <= a
            BY <1>2, <5>1, <5>2, <5>3, <6>1
          <6> QED
            BY <2>1, <5>1, <5>2, <5>3, <6>2, SMTT(40)
        <5>5. CASE k < l
          <6>1. k <= l - 1
            BY <5>3, <5>5
          <6>2. b <= c
            BY <1>2, <5>1, <5>2, <5>3, <6>1
          <6> QED
            BY <2>1, <5>1, <5>2, <6>2
        <5> QED
          BY <1>1, <2>3, <3>2, <5>4, <5>5
      <4>3. Held(i + 1, l) = Held(i, l)
        BY <1>7, <2>1, <4>2, AmongNext
      <4>4. Fills(i, l)
        BY <2>5
      <4> HIDE DEF Held
      <4> QED
        BY <4>1, <4>3, <4>4
    <3> QED
      BY <3>1, <3>2
  <2> HIDE DEF Fills
  <2> QED
    BY <2>1, <2>7, <2>8
<1> HIDE DEF A
<1>10. Len(flat) \in A
  <2>1. \A i \in 0..Len(flat) : i \in A
    BY <1>1, <1>8, <1>9, Buckets!CountingUp
  <2> QED
    BY <1>1, <2>1
<1>11. ASSUME NEW k \in 1..n PROVE run[Len(flat)][k] = ss[k]
  <2>1. Fills(Len(flat), k)
    BY <1>10 DEF A
  <2>2. Held(Len(flat), k) = Len(ss[k])
    <3>2. k <= n /\ n \in 0..n /\ k \in 0..n /\ Len(ss[k]) \in Nat
      BY <1>1
    <3>3. off[k - 1] \in Nat /\ off[k] \in Nat
      BY <1>7
    <3>4. off[n] \in Nat /\ off[n] = Len(flat)
      BY <1>2, <3>2
    <3>5. off[k] = off[k - 1] + Len(ss[k])
      BY <1>2
    <3>6. off[k] <= off[n]
      BY <1>2, <3>2
    <3>7. PICK a \in Nat : a = off[k - 1]
      BY <3>3
    <3>8. PICK c \in Nat : c = Len(ss[k])
      BY <3>2
    <3>9. PICK d \in Nat : d = off[n]
      BY <3>4
    <3>10. off[k] = a + c
      BY <3>5, <3>7, <3>8
    <3>11. a + c <= d
      BY <3>6, <3>9, <3>10
    <3>12. Among(a, a + c, d) = c
      BY <3>11 DEF Among
    <3> QED
      BY <3>4, <3>7, <3>8, <3>9, <3>10, <3>12
  <2> DEFINE q == run[Len(flat)][k]  r == ss[k]
  <2>3. q \in Seq(Timed) /\ r \in Seq(Timed) /\ Len(q) = Len(r) /\ \A x \in 1..Len(r) : q[x] = r[x]
    BY <1>1, <2>1, <2>2
  <2> HIDE DEF q, r
  <2>4. q = r
    BY <2>3, SeqEqual
  <2> QED
    BY <2>4 DEF q, r
<1>12. run[Len(flat)] = ss
  <2>1. DOMAIN run[Len(flat)] = 1..n
    BY <1>10 DEF A
  <2>2. run[Len(flat)] \in Seq(Seq(Timed))
    <3>1. Len(flat) \in 0..Len(flat)
      BY <1>1
    <3> HIDE DEF empty
    <3> QED
      BY <1>5, <3>1
  <2> DEFINE q == run[Len(flat)]
  <2>3. q \in Seq(Seq(Timed)) /\ Len(q) = n /\ \A k \in 1..n : q[k] = ss[k]
    <3>1. \A k \in 1..n : q[k] = ss[k]
      BY <1>11
    <3>2. q \in Seq(Seq(Timed)) /\ DOMAIN q = 1..n
      BY <2>1, <2>2
    <3> HIDE DEF q
    <3>3. n \in Nat
      BY <1>1
    <3>4. Len(q) = n
      BY <3>2, <3>3, LenProperties
    <3> QED
      BY <3>1, <3>2, <3>4
  <2> HIDE DEF q
  <2>4. q = ss
    BY <2>3, SeqEqual DEF n
  <2> QED
    BY <2>4 DEF q
<1> QED
  BY <1>6, <1>12 DEF n

(* The slices handed to `step' are those the log keeps.                    *)
SteppedAsLogged == state.slices = log

(* Whatever was played, resimulating the recording gives the world the     *)
(* authority holds, slice by slice, and the log needs no sorting for it.   *)
THEOREM RecordingIsReproduced == Spec => []RecordingReproduces
<1>1. Init => SteppedAsLogged
  BY DEF Init, SteppedAsLogged
<1>2. SteppedAsLogged /\ [Next]_vars => SteppedAsLogged'
  <2> SUFFICES ASSUME SteppedAsLogged, [Next]_vars PROVE SteppedAsLogged'
    OBVIOUS
  <2>1. CASE TickRuns
    BY <2>1 DEF TickRuns, SteppedAsLogged
  <2>2. CASE UNCHANGED <<state, log>>
    BY <2>2 DEF SteppedAsLogged
  <2> QED
    BY <2>1, <2>2 DEF Next, Join, JoinRefused, Deliver, Tick, TickWaits, vars
<1>3. Spec => []SteppedAsLogged
  BY <1>1, <1>2, PTL DEF Spec
<1>4. TypeOK /\ LogCanonical /\ SteppedAsLogged => RecordingReproduces
  <2> SUFFICES ASSUME TypeOK, LogCanonical, SteppedAsLogged PROVE RecordingReproduces
    OBVIOUS
  <2>1. /\ FlatLog \in Seq(Timed) /\ InStepOrder(FlatLog)
        /\ Slices \in Seq(Seq(Timed)) /\ Len(Slices) = Len(log)
        /\ \A k \in 1..Len(Slices) : \A i \in DOMAIN Slices[k] : Slices[k][i].tick = k - 1
        /\ \E off : LaidOut(Slices, FlatLog, off)
    BY LogInOrder
  <2>2. Resimulate(Len(Slices), FlatLog) = Slices
    BY <2>1, BucketsFilled
  <2>3. Len(Slices) = ticks_run
    BY <2>1 DEF LogCanonical
  <2>4. World = Slices
    BY DEF World, Slices, SteppedAsLogged
  <2> QED
    BY <2>1, <2>2, <2>3, <2>4 DEF RecordingReproduces, Recording
<1> QED
  BY <1>3, <1>4, TypeCorrect, LogIsCanonical, PTL
=============================================================================
