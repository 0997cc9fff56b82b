---------------------------- MODULE ProcessProofs ----------------------------
(***************************************************************************)
(* Proofs about the processes: the host (Host.tla), the executable after   *)
(* it (Sealing.tla) and a client (ClientSession.tla).                      *)
(*                                                                         *)
(* The host, for any number of connections, any capacity of the channel    *)
(* and any clients, and for as many seats and ticks as there may be.  The  *)
(* loop makes every call to the authority, so what MatchProofs says of a   *)
(* match is said of a hosted one.  What is added is about connections:     *)
(* that one arrives once, and is granted one seat.                         *)
(*                                                                         *)
(* The executable, for any seats, whoever writes a part and whenever       *)
(* anything dies: a replay on disk and the companion beside it belong      *)
(* together.  The property speaks of what is on disk at the end; the       *)
(* invariant says for every place main() can be at what is already there,  *)
(* and that what was collected was once read whole.  A part, once begun,   *)
(* is never missing again: an entry that was listed and read is never      *)
(* Absent.                                                                 *)
(*                                                                         *)
(* The client, for any capacities, any player and any server: what it sent *)
(* is anchored in what it recorded.  A wake drains the mailbox in one      *)
(* step; how far a drain has come is said once for every pass (KeepsPace), *)
(* and FoldLemmas carries it through the mailbox.                          *)
(***************************************************************************)
EXTENDS Host, Sealing, ClientSession, MatchProofs, WellFoundedInduction

HostEvent ==
  [kind : {"Arrived"}, conn : Conns]
    \cup [kind : {"Frame"}, conn : Conns, seat : Seats, msg : ClientMessage]
    \cup [kind : {"Closed"}, conn : Conns, seat : Seats]

HostTypeOK ==
  /\ hosting \in {"running", "over", "failed"}
  /\ ran \in Nat
  /\ inbox \in Seq(HostEvent)
  /\ wires \in [Seats -> Conns \cup {NoConn}]
  /\ reader \in [Conns -> Seats \cup {NoSeat}]
  /\ peer \in [Conns -> {"new", "open", "gone"}]
  /\ stream \in [Conns -> Seq(ClientMessage)]
  /\ told \in [Conns -> {"nothing", "Accepted", "AlreadyStarted", "MatchFull"}]
  /\ owner \in [Seats -> Conns \cup {NoConn}]

(* A connection is queued once, before it is anybody's, and owns one seat. *)
ArrivalInv ==
  /\ \A i \in DOMAIN inbox : inbox[i].kind = "Arrived" =>
       /\ peer[inbox[i].conn] # "new"
       /\ \A s \in Seats : owner[s] # inbox[i].conn
       /\ \A j \in DOMAIN inbox :
            inbox[j].kind = "Arrived" /\ inbox[j].conn = inbox[i].conn => i = j
  /\ \A s \in Seats : owner[s] # NoConn =>
       /\ peer[owner[s]] # "new"
       /\ \A r \in Seats : owner[r] = owner[s] => r = s

WireInv == \A s \in Seats : wires[s] \in {owner[s], NoConn}

HostInv == HostTypeOK /\ ArrivalInv /\ WireInv /\ ran = ticks_run

-----------------------------------------------------------------------------
LEMMA HeadTail ==
  ASSUME NEW T, NEW q \in Seq(T), q # <<>>
  PROVE  /\ 1 \in DOMAIN q /\ Head(q) = q[1] /\ Head(q) \in T
         /\ Tail(q) \in Seq(T)
         /\ \A i \in DOMAIN Tail(q) : i + 1 \in DOMAIN q /\ Tail(q)[i] = q[i + 1]
OBVIOUS

LEMMA Appended ==
  ASSUME NEW T, NEW q \in Seq(T), NEW x \in T
  PROVE  /\ Append(q, x) \in Seq(T)
         /\ \A i \in DOMAIN Append(q, x) :
              \/ i \in DOMAIN q /\ Append(q, x)[i] = q[i]
              \/ i = Len(q) + 1 /\ i \notin DOMAIN q /\ Append(q, x)[i] = x
OBVIOUS

LEMMA LeastOf ==
  ASSUME NEW S \in SUBSET Nat, S # {}
  PROVE  \E s \in S : \A r \in S : s <= r
<1> DEFINE R == {ss \in Nat \X Nat : ss[1] < ss[2]}
<1>1. IsWellFoundedOn(R, Nat)
  BY NatLessThanWellFounded DEF OpToRel
<1>2. \A a, b \in Nat : a < b => <<a, b>> \in R
  OBVIOUS
<1>3. PICK s \in S : \A r \in S : ~(<<r, s>> \in R)
  <2> HIDE DEF R
  <2> QED
    BY <1>1, WFMin
<1> HIDE DEF R
<1>4. \A r \in S : ~(r < s)
  BY <1>2, <1>3
<1>5. \A r \in S : s <= r
  BY <1>4
<1> QED
  BY <1>5

(* join() gives away a seat there is, and that was free.                   *)
LEMMA SeatGiven ==
  ASSUME JoinAnswer = "Accepted"
  PROVE  LowestFree \in Seats \ Occupied
<1>1. Seats \ Occupied # {} /\ Seats \ Occupied \in SUBSET Nat
  BY MatchConstants DEF JoinAnswer, Seats, Occupied
<1>2. \E s \in Seats \ Occupied : \A r \in Seats \ Occupied : s <= r
  BY <1>1, LeastOf
<1> QED
  BY <1>2 DEF LowestFree

-----------------------------------------------------------------------------
LEMMA HostInitInv == HostInit => HostInv
<1> SUFFICES ASSUME HostInit PROVE HostInv
  OBVIOUS
<1>1. HostTypeOK
  BY DEF HostInit, HostTypeOK
<1>2. ArrivalInv /\ WireInv /\ ran = ticks_run
  BY DEF HostInit, Init, ArrivalInv, WireInv
<1> QED
  BY <1>1, <1>2 DEF HostInv

(* Every step of the loop is a step of the authority, or none.             *)
LEMMA HostStepIsMatchStep ==
  ASSUME HostTypeOK, [HostNext]_allVars
  PROVE  [Next]_vars
<1>1. CASE UNCHANGED allVars
  BY <1>1 DEF allVars
<1>2. ASSUME NEW c \in Conns, Client(c) \/ Tasks(c)
      PROVE  UNCHANGED vars
  BY <1>2 DEF Client, Tasks, ClientWrites, ClientGoes, Accept, ReadFrame, ReadEnd
<1>3. CASE GrantSeat \/ RefuseSeat \/ HandshakeFails
  BY <1>3 DEF GrantSeat, RefuseSeat, HandshakeFails, Next
<1>4. CASE HandleFrame
  <2>1. Head(inbox) \in HostEvent /\ Head(inbox).kind = "Frame"
    BY <1>4, HeadTail DEF HandleFrame, Takes, HostTypeOK
  <2>2. Head(inbox).seat \in Seats /\ Head(inbox).msg \in ClientMessage
    BY <2>1 DEF HostEvent
  <2> QED
    BY <1>4, <2>2 DEF HandleFrame, Next
<1>5. CASE HandleClosed
  BY <1>5 DEF HandleClosed
<1>6. CASE TickerFires
  BY <1>6 DEF TickerFires, Next
<1> QED
  BY <1>1, <1>2, <1>3, <1>4, <1>5, <1>6 DEF HostNext, HandleEvent

-----------------------------------------------------------------------------
(* The events in the channel, when one is added and when one is taken.     *)
LEMMA QueuedType ==
  ASSUME HostTypeOK, NEW e \in HostEvent, inbox' = Append(inbox, e)
  PROVE  inbox' \in Seq(HostEvent)
BY Appended DEF HostTypeOK

LEMMA ClientsAndTasks ==
  ASSUME HostInv, NEW c \in Conns, Client(c) \/ Tasks(c)
  PROVE  HostInv'
<1> USE DEF HostInv
<1>1. UNCHANGED <<vars, hosting, ran, wires, told, owner>>
  BY DEF Client, Tasks, ClientWrites, ClientGoes, Accept, ReadFrame, ReadEnd
<1>2. WireInv' /\ (ran = ticks_run)'
  BY <1>1 DEF WireInv, vars
<1>3. /\ peer' \in [Conns -> {"new", "open", "gone"}]
      /\ \A d \in Conns : peer[d] # "new" => peer'[d] # "new"
  BY DEF Client, Tasks, ClientWrites, ClientGoes, Accept, ReadFrame, ReadEnd, HostTypeOK
<1>4. CASE ClientWrites(c) \/ ClientGoes(c)
  <2>1. UNCHANGED <<inbox, reader>>
    BY <1>4 DEF ClientWrites, ClientGoes
  <2>2. stream' \in [Conns -> Seq(ClientMessage)]
    <3>1. CASE ClientWrites(c)
      <4>1. PICK m \in ClientMessage : stream' = [stream EXCEPT ![c] = Append(@, m)]
        BY <3>1 DEF ClientWrites, Says
      <4>2. stream[c] \in Seq(ClientMessage)
        BY DEF HostTypeOK
      <4>3. Append(stream[c], m) \in Seq(ClientMessage)
        BY <4>2, Appended
      <4> QED
        BY <4>1, <4>3 DEF HostTypeOK
    <3>2. CASE ClientGoes(c)
      <4>1. stream' = stream \/ stream' = [stream EXCEPT ![c] = <<>>]
        BY <3>2 DEF ClientGoes
      <4>2. <<>> \in Seq(ClientMessage)
        BY EmptySeq
      <4> QED
        BY <4>1, <4>2 DEF HostTypeOK
    <3> QED
      BY <1>4, <3>1, <3>2
  <2>3. HostTypeOK'
    BY <1>1, <1>3, <2>1, <2>2 DEF HostTypeOK
  <2>4. \A i \in DOMAIN inbox : inbox[i].kind = "Arrived" => inbox[i].conn \in Conns
    BY DEF HostTypeOK, HostEvent
  <2>5. ArrivalInv'
    BY <1>1, <1>3, <2>1, <2>4 DEF ArrivalInv, HostTypeOK
  <2> QED
    BY <1>2, <2>3, <2>5
<1>5. ASSUME NEW e \in HostEvent, inbox' = Append(inbox, e),
             stream' \in [Conns -> Seq(ClientMessage)], reader' \in [Conns -> Seats \cup {NoSeat}],
             e.kind = "Arrived" => e.conn = c /\ peer[c] = "new" /\ peer'[c] # "new"
      PROVE  HostTypeOK' /\ ArrivalInv'
  <2>1. HostTypeOK'
    BY <1>1, <1>3, <1>5, QueuedType DEF HostTypeOK
  <2>2. \A i \in DOMAIN inbox' :
          \/ i \in DOMAIN inbox /\ inbox'[i] = inbox[i]
          \/ i = Len(inbox) + 1 /\ i \notin DOMAIN inbox /\ inbox'[i] = e
    BY <1>5, Appended DEF HostTypeOK
  <2>3. \A i \in DOMAIN inbox : inbox[i].kind = "Arrived" => inbox[i].conn \in Conns
    BY DEF HostTypeOK, HostEvent
  <2>4. \A s \in Seats : owner[s] # NoConn => owner'[s] = owner[s] /\ peer'[owner[s]] # "new"
    BY <1>1, <1>3 DEF ArrivalInv, HostTypeOK
  <2>5. ArrivalInv'
    <3>1. ASSUME NEW i \in DOMAIN inbox', inbox'[i].kind = "Arrived"
          PROVE  /\ peer'[inbox'[i].conn] # "new"
                 /\ \A s \in Seats : owner'[s] # inbox'[i].conn
                 /\ \A j \in DOMAIN inbox' :
                      inbox'[j].kind = "Arrived" /\ inbox'[j].conn = inbox'[i].conn => i = j
      <4>1. CASE i \in DOMAIN inbox /\ inbox'[i] = inbox[i]
        BY <1>1, <1>3, <1>5, <2>2, <2>3, <3>1, <4>1 DEF ArrivalInv
      <4>2. CASE i = Len(inbox) + 1 /\ inbox'[i] = e
        BY <1>1, <1>3, <1>5, <2>2, <2>3, <3>1, <4>2, HostConstants DEF ArrivalInv
      <4> QED
        BY <2>2, <4>1, <4>2
    <3> QED
      BY <1>1, <2>4, <3>1 DEF ArrivalInv
  <2> QED
    BY <2>1, <2>5
<1>6. CASE Accept(c)
  <2>1. Arrived(c) \in HostEvent /\ inbox' = Append(inbox, Arrived(c)) /\ UNCHANGED <<stream, reader>>
    BY <1>6 DEF Accept, Arrived, HostEvent
  <2>2. Arrived(c).conn = c /\ peer[c] = "new" /\ peer'[c] # "new"
    BY <1>6 DEF Accept, Arrived, HostTypeOK
  <2> QED
    BY <1>2, <1>5, <2>1, <2>2 DEF HostTypeOK
<1>7. CASE ReadFrame(c)
  <2>1. stream[c] \in Seq(ClientMessage) /\ stream[c] # <<>> /\ reader[c] \in Seats
    BY <1>7 DEF ReadFrame, HostTypeOK
  <2>2. Head(stream[c]) \in ClientMessage /\ Tail(stream[c]) \in Seq(ClientMessage)
    BY <2>1, HeadTail
  <2> DEFINE e == Frame(c, reader[c], Head(stream[c]))
  <2>3. e \in HostEvent /\ e.kind = "Frame"
    BY <2>1, <2>2 DEF Frame, HostEvent
  <2>4. inbox' = Append(inbox, e) /\ UNCHANGED reader /\ stream' = [stream EXCEPT ![c] = Tail(@)]
    BY <1>7 DEF ReadFrame
  <2>5. stream' \in [Conns -> Seq(ClientMessage)]
    BY <2>2, <2>4 DEF HostTypeOK
  <2> HIDE DEF e
  <2> QED
    BY <1>2, <1>5, <2>3, <2>4, <2>5 DEF HostTypeOK
<1>8. CASE ReadEnd(c)
  <2>1. Closed(c, reader[c]) \in HostEvent /\ Closed(c, reader[c]).kind = "Closed"
    BY <1>8 DEF ReadEnd, HostTypeOK, Closed, HostEvent
  <2>2. /\ inbox' = Append(inbox, Closed(c, reader[c])) /\ UNCHANGED stream
        /\ reader' \in [Conns -> Seats \cup {NoSeat}]
    BY <1>8 DEF ReadEnd, HostTypeOK
  <2> QED
    BY <1>2, <1>5, <2>1, <2>2 DEF HostTypeOK
<1> QED
  BY <1>4, <1>6, <1>7, <1>8 DEF Client, Tasks

(* The loop takes the head of the channel.                                 *)
LEMMA TakenType ==
  ASSUME HostTypeOK, NEW kind, Takes(kind)
  PROVE  /\ inbox' \in Seq(HostEvent)
         /\ Head(inbox) \in HostEvent /\ Head(inbox).kind = kind
         /\ 1 \in DOMAIN inbox /\ Head(inbox) = inbox[1]
         /\ \A i \in DOMAIN inbox' : /\ i \in Nat \ {0}
                                     /\ i + 1 \in DOMAIN inbox
                                     /\ inbox'[i] = inbox[i + 1]
BY HeadTail DEF HostTypeOK, Takes

(* What is left in the channel still holds each connection once.           *)
LEMMA TakenArrivals ==
  ASSUME HostInv, NEW kind, Takes(kind),
         owner' = owner,
         \A c \in Conns : peer[c] # "new" => peer'[c] # "new"
  PROVE  ArrivalInv'
<1> USE DEF HostInv
<1>1. ASSUME NEW i \in DOMAIN inbox', inbox'[i].kind = "Arrived"
      PROVE  /\ peer'[inbox'[i].conn] # "new"
             /\ \A s \in Seats : owner'[s] # inbox'[i].conn
             /\ \A j \in DOMAIN inbox' :
                  inbox'[j].kind = "Arrived" /\ inbox'[j].conn = inbox'[i].conn => i = j
  <2>1. i + 1 \in DOMAIN inbox /\ inbox'[i] = inbox[i + 1] /\ i \in Nat
    BY TakenType
  <2>2. inbox[i + 1].conn \in Conns
    <3>1. PICK e \in HostEvent : e = inbox[i + 1]
      BY <2>1 DEF HostTypeOK
    <3>2. e.kind = "Arrived"
      BY <1>1, <2>1, <3>1
    <3>3. e.conn \in Conns
      BY <3>2 DEF HostEvent
    <3> QED
      BY <3>1, <3>3
  <2>3. ASSUME NEW j \in DOMAIN inbox', inbox'[j].kind = "Arrived",
               inbox'[j].conn = inbox'[i].conn
        PROVE  i = j
    <3>1. j + 1 \in DOMAIN inbox /\ inbox'[j] = inbox[j + 1] /\ j \in Nat
      BY TakenType
    <3>2. i + 1 = j + 1
      BY <1>1, <2>1, <2>3, <3>1 DEF ArrivalInv
    <3> QED
      BY <2>1, <3>1, <3>2
  <2> QED
    BY <1>1, <2>1, <2>2, <2>3 DEF ArrivalInv
<1>2. \A s \in Seats : owner[s] # NoConn => owner[s] \in Conns
  BY DEF HostTypeOK
<1> QED
  BY <1>1, <1>2 DEF ArrivalInv

LEMMA LoopTakes ==
  ASSUME HostInv, RefuseSeat \/ HandshakeFails \/ HandleFrame \/ HandleClosed
  PROVE  HostInv'
<1> USE DEF HostInv
<1>1. PICK kind : Takes(kind)
  BY DEF RefuseSeat, HandshakeFails, HandleFrame, HandleClosed
<1>2. inbox' \in Seq(HostEvent) /\ Head(inbox) \in HostEvent
  BY <1>1, TakenType
<1>3. UNCHANGED <<ran, reader, stream, owner, ticks_run>>
  BY DEF RefuseSeat, HandshakeFails, HandleFrame, HandleClosed, Join, JoinRefused,
         Deliver, vars
<1>4. CASE RefuseSeat
  <2>1. Head(inbox).kind = "Arrived"
    BY <1>4 DEF RefuseSeat, Takes
  <2>2. Head(inbox).conn \in Conns
    BY <1>2, <2>1 DEF HostEvent
  <2>3. JoinAnswer \in {"Accepted", "AlreadyStarted", "MatchFull"}
    BY DEF JoinAnswer
  <2>4. HostTypeOK'
    BY <1>2, <1>3, <1>4, <2>2, <2>3 DEF HostTypeOK, RefuseSeat
  <2>5. ArrivalInv'
    BY <1>1, <1>3, <1>4, <2>2, TakenArrivals DEF RefuseSeat, HostTypeOK
  <2> QED
    BY <1>3, <1>4, <2>4, <2>5 DEF RefuseSeat, WireInv
<1>5. CASE HandshakeFails
  <2>1. HostTypeOK'
    BY <1>2, <1>3, <1>5 DEF HostTypeOK, HandshakeFails
  <2>2. ArrivalInv'
    BY <1>1, <1>3, <1>5, TakenArrivals DEF HandshakeFails
  <2> QED
    BY <1>3, <1>5, <2>1, <2>2 DEF HandshakeFails, WireInv
<1>6. CASE HandleFrame \/ HandleClosed
  <2>1. UNCHANGED <<hosting, peer, told>> /\ Head(inbox).kind \in {"Frame", "Closed"}
    BY <1>6 DEF HandleFrame, HandleClosed, Takes
  <2>2. Head(inbox).seat \in Seats
    BY <1>2, <2>1 DEF HostEvent
  <2>3. wires' = wires \/ wires' = [wires EXCEPT ![Head(inbox).seat] = NoConn]
    BY <1>6 DEF HandleFrame, HandleClosed
  <2>4. HostTypeOK'
    BY <1>2, <1>3, <2>1, <2>2, <2>3 DEF HostTypeOK
  <2>5. ArrivalInv'
    BY <1>1, <1>3, <2>1, TakenArrivals
  <2>6. WireInv'
    BY <1>3, <2>2, <2>3 DEF WireInv, HostTypeOK
  <2> QED
    BY <1>3, <2>4, <2>5, <2>6
<1> QED
  BY <1>4, <1>5, <1>6

(* A connection that is granted a seat owned none, and is queued no more.  *)
LEMMA LoopGrants ==
  ASSUME HostInv, GrantSeat
  PROVE  HostInv'
<1> USE DEF HostInv
<1> DEFINE c == Head(inbox).conn
           s == LowestFree
<1>1. Takes("Arrived") /\ JoinAnswer = "Accepted"
  BY DEF GrantSeat, Join
<1>2. /\ inbox' \in Seq(HostEvent)
      /\ Head(inbox) \in HostEvent /\ Head(inbox).kind = "Arrived"
      /\ 1 \in DOMAIN inbox /\ Head(inbox) = inbox[1]
  BY <1>1, TakenType
<1>3. c \in Conns
  BY <1>2 DEF HostEvent
<1>4. s \in Seats
  BY <1>1, SeatGiven
<1>5. /\ wires' = [wires EXCEPT ![s] = c] /\ reader' = [reader EXCEPT ![c] = s]
      /\ told' = [told EXCEPT ![c] = "Accepted"] /\ owner' = [owner EXCEPT ![s] = c]
      /\ UNCHANGED <<hosting, ran, peer, stream, ticks_run>>
  BY DEF GrantSeat, Wired, Join
<1>6. /\ peer[c] # "new" /\ \A r \in Seats : owner[r] # c
      /\ \A j \in DOMAIN inbox : inbox[j].kind = "Arrived" /\ inbox[j].conn = c => j = 1
  BY <1>2 DEF ArrivalInv
<1> HIDE DEF c, s
<1>7. HostTypeOK'
  BY <1>2, <1>3, <1>4, <1>5 DEF HostTypeOK
<1>8. owner'[s] = c /\ wires'[s] = c /\ \A r \in Seats \ {s} : owner'[r] = owner[r] /\ wires'[r] = wires[r]
  BY <1>4, <1>5 DEF HostTypeOK
<1>9. WireInv'
  BY <1>4, <1>8 DEF WireInv
<1>10. c # NoConn
  BY <1>3, HostConstants
<1>11. ASSUME NEW i \in DOMAIN inbox', inbox'[i].kind = "Arrived"
       PROVE  /\ peer'[inbox'[i].conn] # "new"
              /\ \A r \in Seats : owner'[r] # inbox'[i].conn
              /\ \A j \in DOMAIN inbox' :
                   inbox'[j].kind = "Arrived" /\ inbox'[j].conn = inbox'[i].conn => i = j
  <2>1. i + 1 \in DOMAIN inbox /\ inbox'[i] = inbox[i + 1] /\ i \in Nat \ {0}
    BY <1>1, TakenType
  <2>2. inbox'[i].conn # c
    BY <1>6, <1>11, <2>1
  <2>3. ASSUME NEW j \in DOMAIN inbox', inbox'[j].kind = "Arrived",
               inbox'[j].conn = inbox'[i].conn
        PROVE  i = j
    <3>1. j + 1 \in DOMAIN inbox /\ inbox'[j] = inbox[j + 1] /\ j \in Nat
      BY <1>1, TakenType
    <3>2. i + 1 = j + 1
      BY <1>11, <2>1, <2>3, <3>1 DEF ArrivalInv
    <3> QED
      BY <2>1, <3>1, <3>2
  <2> QED
    BY <1>5, <1>8, <1>11, <2>1, <2>2, <2>3 DEF ArrivalInv
<1>12. ASSUME NEW r \in Seats, owner'[r] # NoConn
       PROVE  peer'[owner'[r]] # "new" /\ \A t \in Seats : owner'[t] = owner'[r] => t = r
  BY <1>4, <1>5, <1>6, <1>8, <1>12 DEF ArrivalInv
<1>13. ArrivalInv'
  BY <1>11, <1>12 DEF ArrivalInv
<1> QED
  BY <1>5, <1>7, <1>9, <1>13

(* A tick that does not count runs nothing: before the start there is no   *)
(* frame, and afterwards there is always one to count.                     *)
LEMMA LoopTicks ==
  ASSUME HostInv, TypeOK, TickerFires
  PROVE  HostInv'
<1> USE DEF HostInv
<1>1. UNCHANGED <<inbox, wires, reader, peer, stream, told, owner>>
  BY DEF TickerFires
<1>2. ran' = ticks_run' /\ ran' \in Nat
  <2>1. CASE TickWaits
    BY <2>1 DEF TickWaits, TickerFires, Counts, Begun, HostTypeOK
  <2>2. CASE TickRuns
    BY <2>2 DEF TickRuns, TickerFires, Counts, HostTypeOK
  <2> QED
    BY <2>1, <2>2 DEF TickerFires, Tick
<1>3. HostTypeOK'
  BY <1>1, <1>2 DEF TickerFires, HostTypeOK
<1> QED
  BY <1>1, <1>2, <1>3 DEF ArrivalInv, WireInv

LEMMA HostNextInv ==
  ASSUME HostInv, TypeOK, [HostNext]_allVars
  PROVE  HostInv'
<1>1. CASE UNCHANGED allVars
  BY <1>1 DEF allVars, hostVars, vars, HostInv, HostTypeOK, ArrivalInv, WireInv
<1>2. CASE \E c \in Conns : Client(c) \/ Tasks(c)
  BY <1>2, ClientsAndTasks
<1>3. CASE HandleEvent
  BY <1>3, LoopGrants, LoopTakes DEF HandleEvent
<1>4. CASE TickerFires
  BY <1>4, LoopTicks
<1> QED
  BY <1>1, <1>2, <1>3, <1>4 DEF HostNext

-----------------------------------------------------------------------------
(* What holds of a match holds of a hosted one, and connections, wires and *)
(* the count of ticks stay as described, whatever a client sends.          *)
THEOREM HostInvariant == HostSpec => [](HostInv /\ TypeOK /\ IInv)
<1>1. HostInit => HostInv /\ TypeOK /\ IInv
  BY HostInitInv, InitType, InitInv DEF HostInit
<1>2. (HostInv /\ TypeOK /\ IInv) /\ [HostNext]_allVars => (HostInv /\ TypeOK /\ IInv)'
  <2> SUFFICES ASSUME HostInv, TypeOK, IInv, [HostNext]_allVars
               PROVE  HostInv' /\ TypeOK' /\ IInv'
    OBVIOUS
  <2>1. [Next]_vars
    BY HostStepIsMatchStep DEF HostInv
  <2> QED
    BY <2>1, HostNextInv, NextType, NextInv
<1> QED
  BY <1>1, <1>2, PTL DEF HostSpec

(* However seats change hands, a frame reaches only the connection its     *)
(* session was granted to.  net.rs: wires, Event::Arrived.                 *)
THEOREM OwnerIsWired == HostSpec => []FramesReachTheirOwner
<1>1. HostInv => FramesReachTheirOwner
  <2> SUFFICES ASSUME HostInv PROVE FramesReachTheirOwner
    OBVIOUS
  <2>1. \A s \in Seats : wires[s] \in {owner[s], NoConn}
    BY DEF HostInv, WireInv
  <2>2. \A s \in Seats : owner[s] # NoConn => \A r \in Seats : owner[r] = owner[s] => r = s
    BY DEF HostInv, ArrivalInv
  <2> QED
    BY <2>1, <2>2 DEF FramesReachTheirOwner, Occupied
<1> QED
  BY <1>1, HostInvariant, PTL

(* A counted tick leaves nothing accepted unrecorded, and the loop counts  *)
(* the authority's own ticks.  net.rs: the ticker; lib.rs: tick().         *)
THEOREM TicksAreRecorded == HostSpec => AcceptedIsRecorded
<1>1. (HostInv /\ TypeOK /\ IInv) /\ (HostInv /\ TypeOK /\ IInv)' /\ [HostNext]_allVars
        => [/\ ran' = ticks_run'
            /\ ran' > ran => \A s \in Occupied : accepted[s] \subseteq Logged(s)']_allVars
  <2> SUFFICES ASSUME HostInv, TypeOK, IInv, HostInv', [HostNext]_allVars,
                      ran' > ran, NEW s \in Occupied
               PROVE  accepted[s] \subseteq Logged(s)'
    BY DEF HostInv
  <2>1. ticks_run' > ticks_run
    BY DEF HostInv
  <2>2. TypeOK => ticks_run \in Nat
    BY MatchConstants DEF TypeOK
  <2>3. [Next]_vars
    BY HostStepIsMatchStep DEF HostInv
  <2>4. TickRuns
    BY <2>1, <2>2, <2>3 DEF Next, vars, Join, JoinRefused, Deliver, Tick, TickWaits
  <2>5. s \in Seats /\ Logged(s)' = Logged(s) \cup Elements(seats[s].pending)
    BY <2>4, LoggedAfterTick DEF Occupied
  <2>6. accepted[s] = Logged(s) \cup Elements(seats[s].pending)
    BY DEF IInv, LedgerInv
  <2> QED
    BY <2>5, <2>6
<1> QED
  BY <1>1, HostInvariant, PTL DEF HostSpec, AcceptedIsRecorded

-----------------------------------------------------------------------------
(* Who speaks for a seat.  An event names a seat, and a seat changes hands; *)
(* what ties the two is that a client that leaves says nothing more, so    *)
(* the words still on their way are those of the seat's present owner.     *)
LiveIn(c, s) == s \in Occupied /\ owner[s] = c
IsFrame(i, c) == inbox[i].kind = "Frame" /\ inbox[i].conn = c
Leaves(m) == m.kind = "Surrender"

(* From the handshake to the end of the stream: a connection is readable   *)
(* exactly between the two, and is never granted a second seat.            *)
PhaseOf(c) ==
  /\ peer[c] = "new" => told[c] = "nothing"
  /\ told[c] # "Accepted" =>
       /\ reader[c] = NoSeat /\ stream[c] = <<>>
       /\ \A i \in DOMAIN inbox : ~IsFrame(i, c)
  /\ told[c] = "Accepted" =>
       /\ \A i \in DOMAIN inbox : inbox[i].kind = "Arrived" => inbox[i].conn # c
       /\ reader[c] = NoSeat => peer[c] = "gone" /\ stream[c] = <<>>

(* What it has said, or may yet say, is under a seat it holds, and its     *)
(* surrender is the last of it.                                            *)
WordsOf(c) ==
  /\ reader[c] # NoSeat /\ (c \notin left \/ stream[c] # <<>>) => LiveIn(c, reader[c])
  /\ \A i \in DOMAIN stream[c] : Leaves(stream[c][i]) => c \in left /\ i = Len(stream[c])
  /\ \A i \in DOMAIN inbox : IsFrame(i, c) =>
       /\ LiveIn(c, inbox[i].seat)
       /\ Leaves(inbox[i].msg) =>
            /\ c \in left /\ stream[c] = <<>>
            /\ \A j \in DOMAIN inbox : IsFrame(j, c) => j <= i

SpeaksInv == hosting = "running" => \A c \in Conns : PhaseOf(c) /\ WordsOf(c)

LEMMA SpeaksInit == HostInit => SpeaksInv
BY DEF HostInit, SpeaksInv, PhaseOf, WordsOf

(* A frame handed to the authority takes nobody's seat but the speaker's,  *)
(* and that only when it says it leaves.                                   *)
LEMMA DeliverSeats ==
  ASSUME TypeOK, NEW s \in Seats, NEW m \in ClientMessage, Deliver(s, m)
  PROVE  /\ Occupied' \subseteq Occupied
         /\ Occupied \ {s} \subseteq Occupied'
         /\ ~Leaves(m) => Occupied \subseteq Occupied'
<1>1. \A r \in Seats : seats[r] # Vacant => seats[r] \in Session
  BY DEF TypeOK
<1>2. \A x \in Session : x # Vacant
  BY SessionIsNotVacant
<1>4. \A r \in Seats \ {s} : seats'[r] = seats[r]
  BY DEF Deliver, DeliverReady, DeliverInput, RefuseInput, DeliverSurrender,
         DeliverRefused, TypeOK
<1>5. CASE seats' = seats
  BY <1>5 DEF Occupied
<1>6. CASE DeliverSurrender(s, m)
  BY <1>4, <1>6 DEF DeliverSurrender, Leaves, Occupied, TypeOK
<1>7. CASE DeliverReady(s, m) \/ DeliverInput(s, m) \/ RefuseInput(s, m)
  <2>1. seats[s] # Vacant
    BY <1>7 DEF DeliverReady, DeliverInput, RefuseInput, Verdict, Repeats, Full,
                ClientMessage
  <2>2. seats[s] \in Session
    BY <1>1, <2>1
  <2>3. seats'[s] \in Session
    <3>1. CASE DeliverReady(s, m)
      BY <2>2, <3>1 DEF DeliverReady, TypeOK, Session
    <3>2. CASE DeliverInput(s, m)
      <4>1. m.seq \in Seqs
        BY <2>1, <3>2 DEF DeliverInput, ClientMessage
      <4>2. Append(seats[s].pending, m.seq) \in Seq(Seqs)
        BY <2>2, <4>1 DEF Session
      <4> QED
        BY <2>2, <3>2, <4>1, <4>2 DEF DeliverInput, TypeOK, Session
    <3>3. CASE RefuseInput(s, m)
      <4>1. (IF seats[s].refused < REFUSED_MAX THEN seats[s].refused + 1
               ELSE seats[s].refused) \in 0..REFUSED_MAX
        BY <2>2, MatchConstants DEF Session
      <4> QED
        BY <2>2, <3>3, <4>1 DEF RefuseInput, TypeOK, Session
    <3> QED
      BY <1>7, <3>1, <3>2, <3>3
  <2> QED
    BY <1>2, <1>4, <2>1, <2>3 DEF Occupied
<1> QED
  BY <1>5, <1>6, <1>7 DEF Deliver, DeliverRefused

(* The client: a seated one says more, or nothing after it leaves.         *)
LEMMA ClientSpeaks ==
  ASSUME HostInv, SpeaksInv, Hostile = {}, NEW c \in Conns, Client(c)
  PROVE  SpeaksInv'
<1> SUFFICES ASSUME hosting' = "running", NEW d \in Conns
             PROVE  PhaseOf(d)' /\ WordsOf(d)'
  BY DEF SpeaksInv
<1> USE DEF HostInv
<1>1. UNCHANGED <<vars, hosting, inbox, reader, told, owner>>
  BY DEF Client, ClientWrites, ClientGoes
<1>2. PhaseOf(d) /\ WordsOf(d) /\ PhaseOf(c) /\ WordsOf(c)
  BY <1>1 DEF SpeaksInv
<1>3. Occupied' = Occupied /\ \A s : LiveIn(d, s)' <=> LiveIn(d, s)
  BY <1>1 DEF Occupied, LiveIn, vars
<1>4. \A i : IsFrame(i, d)' <=> IsFrame(i, d)
  BY <1>1 DEF IsFrame
<1>5. stream[c] \in Seq(ClientMessage)
  BY DEF HostTypeOK
<1>6. CASE d # c
  <2>1. stream'[d] = stream[d] /\ peer'[d] = peer[d] /\ (d \in left' <=> d \in left)
    BY <1>6 DEF Client, ClientWrites, ClientGoes, HostTypeOK
  <2>2. PhaseOf(d)'
    BY <1>1, <1>2, <1>4, <2>1 DEF PhaseOf
  <2>3. WordsOf(d)'
    BY <1>1, <1>2, <1>3, <1>4, <2>1 DEF WordsOf
  <2> QED
    BY <2>2, <2>3
<1>7. CASE d = c /\ ClientWrites(c)
  <2>1. PICK m \in Says(c) :
          /\ stream' = [stream EXCEPT ![c] = Append(@, m)]
          /\ left' = IF Leaves(m) THEN left \cup {c} ELSE left
    BY <1>7 DEF ClientWrites, Leaves
  <2>2. m \in ClientMessage /\ c \notin left
    BY <2>1 DEF Says
  <2>3. told[c] = "Accepted" /\ peer[c] = "open" /\ peer' = peer
    BY <1>7 DEF ClientWrites
  <2>4. reader[c] # NoSeat /\ LiveIn(c, reader[c])
    BY <1>2, <2>2, <2>3 DEF PhaseOf, WordsOf
  <2>5. stream'[c] = Append(stream[c], m)
    BY <2>1 DEF HostTypeOK
  <2>6. \A i \in DOMAIN stream'[c] : Leaves(stream'[c][i]) => c \in left' /\ i = Len(stream'[c])
    <3> SUFFICES ASSUME NEW i \in DOMAIN stream'[c], Leaves(stream'[c][i])
                 PROVE  c \in left' /\ i = Len(stream'[c])
      OBVIOUS
    <3>1. CASE i \in DOMAIN stream[c] /\ stream'[c][i] = stream[c][i]
      BY <1>2, <2>2, <3>1 DEF WordsOf
    <3>2. CASE i = Len(stream[c]) + 1 /\ stream'[c][i] = m
      BY <1>5, <2>1, <2>2, <2>5, <3>2
    <3> QED
      BY <1>5, <2>2, <2>5, <3>1, <3>2, Appended
  <2>7. \A i \in DOMAIN inbox : IsFrame(i, c) => ~Leaves(inbox[i].msg)
    BY <1>2, <2>2 DEF WordsOf
  <2>8. PhaseOf(c)'
    BY <1>1, <1>2, <2>3, <2>4 DEF PhaseOf
  <2>9. WordsOf(c)'
    BY <1>1, <1>2, <1>3, <1>4, <1>7, <2>4, <2>6, <2>7 DEF WordsOf
  <2> QED
    BY <1>7, <2>8, <2>9
<1>8. CASE d = c /\ ClientGoes(c)
  <2>1. /\ peer[c] = "open" /\ peer'[c] = "gone" /\ left' = left
        /\ stream'[c] = stream[c] \/ stream'[c] = <<>>
    BY <1>8 DEF ClientGoes, HostTypeOK
  <2>2. PhaseOf(c)'
    BY <1>1, <1>2, <1>4, <1>8, <2>1 DEF PhaseOf
  <2>3. WordsOf(c)'
    BY <1>1, <1>2, <1>3, <1>4, <1>8, <2>1 DEF WordsOf
  <2> QED
    BY <1>8, <2>2, <2>3
<1> QED
  BY <1>6, <1>7, <1>8 DEF Client

(* The tasks: what is queued was the head of the stream.                   *)
LEMMA TasksSpeak ==
  ASSUME HostInv, SpeaksInv, NEW c \in Conns, Tasks(c)
  PROVE  SpeaksInv'
<1> SUFFICES ASSUME hosting' = "running", NEW d \in Conns
             PROVE  PhaseOf(d)' /\ WordsOf(d)'
  BY DEF SpeaksInv
<1> USE DEF HostInv
<1>1. UNCHANGED <<vars, hosting, told, owner, left>>
  BY DEF Tasks, Accept, ReadFrame, ReadEnd
<1>2. PhaseOf(d) /\ WordsOf(d) /\ PhaseOf(c) /\ WordsOf(c)
  BY <1>1 DEF SpeaksInv, Tasks, Accept, ReadFrame, ReadEnd
<1>3. Occupied' = Occupied /\ \A s : LiveIn(d, s)' <=> LiveIn(d, s)
  BY <1>1 DEF Occupied, LiveIn, vars
<1>4. PICK e \in HostEvent :
        /\ inbox' = Append(inbox, e) /\ e.conn = c
        /\ \/ Accept(c) /\ e.kind = "Arrived"
           \/ ReadFrame(c) /\ e = Frame(c, reader[c], Head(stream[c]))
           \/ ReadEnd(c) /\ e.kind = "Closed"
  <2>1. CASE Accept(c)
    <3>1. Arrived(c) \in HostEvent /\ Arrived(c).kind = "Arrived" /\ Arrived(c).conn = c
      BY DEF Arrived, HostEvent
    <3> QED
      BY <2>1, <3>1 DEF Accept
  <2>2. CASE ReadFrame(c)
    <3>1. stream[c] \in Seq(ClientMessage) /\ stream[c] # <<>> /\ reader[c] \in Seats
      BY <2>2 DEF ReadFrame, HostTypeOK
    <3>2. Head(stream[c]) \in ClientMessage
      BY <3>1, HeadTail
    <3>3. /\ Frame(c, reader[c], Head(stream[c])) \in HostEvent
          /\ Frame(c, reader[c], Head(stream[c])).conn = c
      BY <3>1, <3>2 DEF Frame, HostEvent
    <3> QED
      BY <2>2, <3>3 DEF ReadFrame
  <2>3. CASE ReadEnd(c)
    <3>1. /\ Closed(c, reader[c]) \in HostEvent
          /\ Closed(c, reader[c]).kind = "Closed" /\ Closed(c, reader[c]).conn = c
      BY <2>3 DEF ReadEnd, HostTypeOK, Closed, HostEvent
    <3> QED
      BY <2>3, <3>1 DEF ReadEnd
  <2> QED
    BY <2>1, <2>2, <2>3 DEF Tasks
<1>5. inbox \in Seq(HostEvent) /\ Len(inbox) \in Nat /\ DOMAIN inbox = 1..Len(inbox)
  BY DEF HostTypeOK
<1>6. \A i \in DOMAIN inbox' :
        \/ i \in DOMAIN inbox /\ inbox'[i] = inbox[i]
        \/ i = Len(inbox) + 1 /\ i \notin DOMAIN inbox /\ inbox'[i] = e
  BY <1>4, <1>5, Appended
<1>7. DOMAIN inbox \subseteq DOMAIN inbox'
  BY <1>4, <1>5
<1>8. CASE d # c
  <2>1. stream'[d] = stream[d] /\ peer'[d] = peer[d] /\ reader'[d] = reader[d]
    BY <1>8 DEF Tasks, Accept, ReadFrame, ReadEnd, HostTypeOK
  <2>2. \A i \in DOMAIN inbox' :
          IsFrame(i, d)' \/ (inbox'[i].kind = "Arrived" /\ inbox'[i].conn = d) =>
            i \in DOMAIN inbox /\ inbox'[i] = inbox[i]
    BY <1>4, <1>6, <1>8 DEF IsFrame
  <2>3. PhaseOf(d)'
    BY <1>1, <1>2, <2>1, <2>2 DEF PhaseOf, IsFrame
  <2>4. WordsOf(d)'
    BY <1>1, <1>2, <1>3, <2>1, <2>2 DEF WordsOf, IsFrame
  <2> QED
    BY <2>3, <2>4
<1>9. CASE d = c /\ ReadFrame(c)
  <2>1. /\ stream[c] \in Seq(ClientMessage) /\ stream[c] # <<>> /\ reader[c] # NoSeat
        /\ stream'[c] = Tail(stream[c]) /\ UNCHANGED <<reader, peer>>
    BY <1>9 DEF ReadFrame, HostTypeOK
  <2>2. LiveIn(c, reader[c]) /\ told[c] = "Accepted"
    BY <1>2, <2>1 DEF WordsOf, PhaseOf
  <2>3. /\ e.kind = "Frame" /\ e.seat = reader[c]
        /\ e.msg = stream[c][1]
    <3>1. peer[c] # "new"
      BY <1>2, <2>2 DEF PhaseOf
    <3>2. ~Accept(c) /\ ~ReadEnd(c)
      BY <2>1, <3>1 DEF Accept, ReadEnd
    <3>3. e = Frame(c, reader[c], Head(stream[c]))
      BY <1>4, <3>2
    <3>4. Head(stream[c]) = stream[c][1]
      BY <2>1, HeadTail
    <3> QED
      BY <3>3, <3>4 DEF Frame
  <2>4. \A i \in DOMAIN inbox : IsFrame(i, c) => ~Leaves(inbox[i].msg)
    BY <1>2, <2>1 DEF WordsOf
  <2>5. \A i \in DOMAIN stream'[c] :
          i + 1 \in DOMAIN stream[c] /\ stream'[c][i] = stream[c][i + 1]
    BY <2>1, HeadTail
  <2>6. Len(stream'[c]) = Len(stream[c]) - 1 /\ DOMAIN stream[c] = 1..Len(stream[c])
    BY <2>1
  <2>7. \A i \in DOMAIN stream'[c] : Leaves(stream'[c][i]) => c \in left /\ i = Len(stream'[c])
    BY <1>2, <2>1, <2>5, <2>6 DEF WordsOf
  <2>8. Leaves(e.msg) => c \in left /\ stream'[c] = <<>>
    BY <1>2, <2>1, <2>3, <2>6 DEF WordsOf
  <2>9. PhaseOf(c)'
    BY <1>1, <1>2, <1>4, <1>6, <1>9, <2>1, <2>2, <2>3 DEF PhaseOf
  <2>10. \A i \in DOMAIN inbox' : IsFrame(i, c)' =>
           /\ LiveIn(c, inbox'[i].seat)
           /\ Leaves(inbox'[i].msg) =>
                c \in left /\ stream'[c] = <<>> /\ \A j \in DOMAIN inbox' : j <= i
    <3> SUFFICES ASSUME NEW i \in DOMAIN inbox', IsFrame(i, c)'
                 PROVE  /\ LiveIn(c, inbox'[i].seat)
                        /\ Leaves(inbox'[i].msg) =>
                             c \in left /\ stream'[c] = <<>> /\ \A j \in DOMAIN inbox' : j <= i
      OBVIOUS
    <3>1. CASE i \in DOMAIN inbox /\ inbox'[i] = inbox[i]
      BY <1>2, <2>4, <3>1 DEF WordsOf, IsFrame
    <3>2. CASE i = Len(inbox) + 1 /\ inbox'[i] = e
      BY <1>5, <1>6, <2>2, <2>3, <2>8, <3>2
    <3> QED
      BY <1>6, <3>1, <3>2
  <2>11. WordsOf(c)'
    BY <1>1, <1>3, <1>9, <2>1, <2>2, <2>7, <2>10 DEF WordsOf
  <2> QED
    BY <1>9, <2>9, <2>11
<1>10. CASE d = c /\ (Accept(c) \/ ReadEnd(c))
  <2>1. e.kind \in {"Arrived", "Closed"} /\ UNCHANGED stream
    BY <1>4, <1>10 DEF Accept, ReadEnd, ReadFrame, HostTypeOK
  <2>2. \A i \in DOMAIN inbox' : IsFrame(i, c)' =>
          i \in DOMAIN inbox /\ inbox'[i] = inbox[i]
    BY <1>4, <1>6, <2>1 DEF IsFrame
  <2>3. CASE Accept(c)
    <3>1. told[c] = "nothing" /\ peer'[c] = "open" /\ UNCHANGED reader
      BY <1>2, <2>3 DEF Accept, PhaseOf, HostTypeOK
    <3>2. PhaseOf(c)'
      BY <1>1, <1>2, <2>1, <2>2, <3>1 DEF PhaseOf, IsFrame
    <3>3. WordsOf(c)'
      BY <1>1, <1>2, <1>3, <1>10, <2>1, <2>2, <3>1 DEF WordsOf, IsFrame
    <3> QED
      BY <1>10, <3>2, <3>3
  <2>4. CASE ReadEnd(c)
    <3>1. /\ reader[c] # NoSeat /\ stream[c] = <<>> /\ peer[c] = "gone"
          /\ reader'[c] = NoSeat /\ UNCHANGED peer /\ inbox' = Append(inbox, Closed(c, reader[c]))
      BY <2>4 DEF ReadEnd, HostTypeOK
    <3>2. e.kind = "Closed"
      BY <1>4, <2>4 DEF Accept, ReadFrame, ReadEnd, HostTypeOK
    <3>3. PhaseOf(c)'
      BY <1>1, <1>2, <1>6, <2>1, <2>2, <3>1, <3>2 DEF PhaseOf, IsFrame
    <3>4. WordsOf(c)'
      BY <1>1, <1>2, <1>3, <1>10, <2>1, <2>2, <3>1 DEF WordsOf, IsFrame
    <3> QED
      BY <1>10, <3>3, <3>4
  <2> QED
    BY <1>10, <2>3, <2>4
<1> QED
  BY <1>8, <1>9, <1>10 DEF Tasks

(* What stands in the channel once its head is taken.                      *)
LEMMA TakenFrames ==
  ASSUME HostTypeOK, NEW kind, Takes(kind)
  PROVE  \A c \in Conns : \A i \in DOMAIN inbox' :
           /\ i \in Nat \ {0} /\ i + 1 \in DOMAIN inbox /\ inbox'[i] = inbox[i + 1]
           /\ IsFrame(i, c)' => IsFrame(i + 1, c)
BY TakenType DEF IsFrame

(* Nothing is said and no seat is lost when the head is not a surrender.   *)
LEMMA TakenSpeaks ==
  ASSUME HostInv, SpeaksInv, hosting = "running", NEW kind, Takes(kind),
         UNCHANGED <<reader, stream, owner, left>>,
         NEW c \in Conns, told'[c] = told[c], peer'[c] = peer[c],
         \A s : LiveIn(c, s) /\ (\E i \in DOMAIN inbox' :
                                    IsFrame(i, c)' /\ inbox'[i].seat = s)
                  => s \in Occupied',
         reader[c] # NoSeat /\ (c \notin left \/ stream[c] # <<>>) =>
           reader[c] \in Occupied'
  PROVE  PhaseOf(c)' /\ WordsOf(c)'
<1> USE DEF HostInv
<1>1. PhaseOf(c) /\ WordsOf(c)
  BY DEF SpeaksInv
<1>2. \A i \in DOMAIN inbox' :
        /\ i \in Nat \ {0} /\ i + 1 \in DOMAIN inbox /\ inbox'[i] = inbox[i + 1]
        /\ IsFrame(i, c)' => IsFrame(i + 1, c)
  BY TakenFrames
<1>3. PhaseOf(c)'
  BY <1>1, <1>2 DEF PhaseOf
<1>4. \A s : s \in Occupied' /\ LiveIn(c, s) => LiveIn(c, s)'
  BY DEF LiveIn
<1>5. reader[c] # NoSeat /\ (c \notin left \/ stream[c] # <<>>) => LiveIn(c, reader[c])'
  BY <1>1, <1>4 DEF WordsOf
<1>6. ASSUME NEW i \in DOMAIN inbox', IsFrame(i, c)'
      PROVE  /\ LiveIn(c, inbox[i].seat)'
             /\ Leaves(inbox'[i].msg) =>
                  /\ c \in left /\ stream[c] = <<>>
                  /\ \A j \in DOMAIN inbox' : IsFrame(j, c)' => j <= i
  <2>1. i + 1 \in DOMAIN inbox /\ inbox'[i] = inbox[i + 1] /\ IsFrame(i + 1, c) /\ i \in Nat
    BY <1>2, <1>6
  <2>2. LiveIn(c, inbox'[i].seat)
    BY <1>1, <2>1 DEF WordsOf
  <2>3. LiveIn(c, inbox[i].seat)'
    BY <1>4, <1>6, <2>2
  <2>4. ASSUME Leaves(inbox'[i].msg)
        PROVE  /\ c \in left /\ stream[c] = <<>>
               /\ \A j \in DOMAIN inbox' : IsFrame(j, c)' => j <= i
    <3>1. /\ c \in left /\ stream[c] = <<>>
          /\ \A j \in DOMAIN inbox : IsFrame(j, c) => j <= i + 1
      BY <1>1, <2>1, <2>4 DEF WordsOf
    <3>2. ASSUME NEW j \in DOMAIN inbox', IsFrame(j, c)' PROVE j <= i
      <4>1. j \in Nat /\ j + 1 \in DOMAIN inbox /\ IsFrame(j + 1, c)
        BY <1>2, <3>2
      <4>2. j + 1 <= i + 1
        BY <3>1, <4>1
      <4> QED
        BY <2>1, <4>1, <4>2
    <3> QED
      BY <3>1, <3>2
  <2> QED
    BY <2>3, <2>4
<1>7. WordsOf(c)'
  BY <1>1, <1>5, <1>6 DEF WordsOf
<1> QED
  BY <1>3, <1>7

LEMMA GrantSpeaks ==
  ASSUME HostInv, TypeOK, SpeaksInv, GrantSeat
  PROVE  SpeaksInv'
<1> SUFFICES ASSUME NEW d \in Conns PROVE PhaseOf(d)' /\ WordsOf(d)'
  BY DEF SpeaksInv
<1> USE DEF HostInv
<1>1. Takes("Arrived") /\ JoinAnswer = "Accepted" /\ hosting = "running"
  BY DEF GrantSeat, Join, Takes
<1>2. /\ Head(inbox) \in HostEvent /\ Head(inbox).kind = "Arrived"
      /\ 1 \in DOMAIN inbox /\ Head(inbox) = inbox[1]
  BY <1>1, TakenType
<1>3. PICK c \in Conns : c = Head(inbox).conn
  BY <1>2 DEF HostEvent
<1>4. PICK s \in Seats : s = LowestFree /\ s \notin Occupied
  BY <1>1, SeatGiven
<1>5. /\ reader' = [reader EXCEPT ![c] = s] /\ told' = [told EXCEPT ![c] = "Accepted"]
      /\ owner' = [owner EXCEPT ![s] = c]
      /\ seats' = [seats EXCEPT ![s] = NewSession]
      /\ UNCHANGED <<peer, stream, left>>
  BY <1>3, <1>4 DEF GrantSeat, Wired, Join
<1>6. peer[c] # "new" /\ \A j \in DOMAIN inbox : inbox[j].kind = "Arrived" /\ inbox[j].conn = c => j = 1
  BY <1>2, <1>3 DEF ArrivalInv
<1>7. PhaseOf(c) /\ PhaseOf(d) /\ WordsOf(d)
  BY <1>1, <1>3 DEF SpeaksInv
<1>8. told[c] # "Accepted"
  BY <1>2, <1>3, <1>7 DEF PhaseOf
<1>9. /\ reader[c] = NoSeat /\ stream[c] = <<>>
      /\ \A i \in DOMAIN inbox : ~IsFrame(i, c)
  BY <1>7, <1>8 DEF PhaseOf
<1>10. Occupied' = Occupied \cup {s}
  <2>1. NewSession # Vacant
    BY NewSessionType, SessionIsNotVacant
  <2> QED
    BY <1>4, <1>5, <2>1 DEF Occupied, TypeOK
<1>11. \A e \in Conns : \A i \in DOMAIN inbox' :
         /\ i \in Nat \ {0} /\ i + 1 \in DOMAIN inbox /\ inbox'[i] = inbox[i + 1]
         /\ IsFrame(i, e)' => IsFrame(i + 1, e)
  BY <1>1, TakenFrames
<1>12. CASE d = c
  <2>1. \A i \in DOMAIN inbox' : ~IsFrame(i, c)'
    BY <1>3, <1>9, <1>11
  <2>2. \A i \in DOMAIN inbox' : inbox'[i].kind = "Arrived" => inbox'[i].conn # c
    <3> SUFFICES ASSUME NEW i \in DOMAIN inbox', inbox'[i].kind = "Arrived", inbox'[i].conn = c
                 PROVE  FALSE
      OBVIOUS
    <3>1. i \in Nat \ {0} /\ i + 1 \in DOMAIN inbox /\ inbox'[i] = inbox[i + 1]
      BY <1>3, <1>11
    <3>2. i + 1 = 1
      BY <1>6, <3>1
    <3> QED
      BY <3>1, <3>2
  <2>3. /\ reader'[c] = s /\ told'[c] = "Accepted" /\ stream'[c] = <<>> /\ peer'[c] # "new"
        /\ LiveIn(c, s)'
    BY <1>3, <1>4, <1>5, <1>6, <1>9, <1>10 DEF HostTypeOK, LiveIn
  <2>4. s # NoSeat
    BY <1>4, HostConstants
  <2>5. PhaseOf(c)'
    BY <2>1, <2>2, <2>3, <2>4 DEF PhaseOf
  <2>6. WordsOf(c)'
    BY <2>1, <2>3 DEF WordsOf
  <2> QED
    BY <1>12, <2>5, <2>6
<1>13. CASE d # c
  <2>1. reader'[d] = reader[d] /\ told'[d] = told[d] /\ stream'[d] = stream[d] /\ peer'[d] = peer[d]
    BY <1>5, <1>13 DEF HostTypeOK
  <2>2. PhaseOf(d)'
    BY <1>7, <1>11, <2>1 DEF PhaseOf
  <2>3. \A r : LiveIn(d, r) => LiveIn(d, r)'
    BY <1>4, <1>5, <1>10 DEF LiveIn, Occupied, HostTypeOK
  <2>4. WordsOf(d)'
    <3>1. ASSUME NEW i \in DOMAIN inbox', IsFrame(i, d)'
          PROVE  /\ LiveIn(d, inbox[i].seat)'
                 /\ Leaves(inbox'[i].msg) =>
                      /\ d \in left /\ stream[d] = <<>>
                      /\ \A j \in DOMAIN inbox' : IsFrame(j, d)' => j <= i
      <4>1. i + 1 \in DOMAIN inbox /\ inbox'[i] = inbox[i + 1] /\ IsFrame(i + 1, d) /\ i \in Nat
        BY <1>11, <3>1
      <4>2. LiveIn(d, inbox[i].seat)'
        BY <1>7, <2>3, <4>1 DEF WordsOf
      <4>3. ASSUME Leaves(inbox'[i].msg), NEW j \in DOMAIN inbox', IsFrame(j, d)'
            PROVE  j <= i
        <5>1. j \in Nat /\ j + 1 \in DOMAIN inbox /\ IsFrame(j + 1, d)
          BY <1>11, <4>3
        <5>2. j + 1 <= i + 1
          BY <1>7, <4>1, <4>3, <5>1 DEF WordsOf
        <5> QED
          BY <4>1, <5>1, <5>2
      <4>4. Leaves(inbox'[i].msg) => d \in left /\ stream[d] = <<>>
        BY <1>7, <4>1 DEF WordsOf
      <4> QED
        BY <4>2, <4>3, <4>4
    <3> QED
      BY <1>5, <1>7, <2>1, <2>3, <3>1 DEF WordsOf
  <2> QED
    BY <2>2, <2>4
<1> QED
  BY <1>12, <1>13

(* The other arms of the loop: only a surrender frees a seat, and whoever  *)
(* held it has nothing more under way.                                     *)
LEMMA LoopSpeaks ==
  ASSUME HostInv, TypeOK, SpeaksInv, RefuseSeat \/ HandshakeFails \/ HandleFrame \/ HandleClosed
  PROVE  SpeaksInv'
<1> SUFFICES ASSUME hosting' = "running", NEW d \in Conns
             PROVE  PhaseOf(d)' /\ WordsOf(d)'
  BY DEF SpeaksInv
<1> USE DEF HostInv
<1>1. ~HandshakeFails
  BY DEF HandshakeFails
<1>2. PICK kind : Takes(kind)
  BY <1>1 DEF RefuseSeat, HandleFrame, HandleClosed
<1>3. /\ hosting = "running" /\ UNCHANGED <<reader, stream, owner, left>>
      /\ Head(inbox) \in HostEvent /\ 1 \in DOMAIN inbox /\ Head(inbox) = inbox[1]
  BY <1>1, <1>2, TakenType DEF RefuseSeat, HandleFrame, HandleClosed, Takes
<1>4. PhaseOf(d) /\ WordsOf(d)
  BY <1>3 DEF SpeaksInv
<1>5. \A i \in DOMAIN inbox' :
        /\ i \in Nat \ {0} /\ i + 1 \in DOMAIN inbox /\ inbox'[i] = inbox[i + 1]
        /\ IsFrame(i, d)' => IsFrame(i + 1, d)
  BY <1>2, TakenFrames
<1>6. CASE RefuseSeat
  <2>1. Head(inbox).kind = "Arrived" /\ JoinAnswer # "Accepted" /\ seats' = seats
    BY <1>6 DEF RefuseSeat, JoinRefused, Takes, vars
  <2>2. PICK c \in Conns :
          /\ c = Head(inbox).conn
          /\ told' = [told EXCEPT ![c] = JoinAnswer]
          /\ peer' = [peer EXCEPT ![c] = "gone"]
    BY <1>3, <1>6, <2>1 DEF RefuseSeat, HostEvent
  <2>3. CASE d # c
    <3>1. told'[d] = told[d] /\ peer'[d] = peer[d]
      BY <2>2, <2>3 DEF HostTypeOK
    <3>2. Occupied' = Occupied
      BY <2>1 DEF Occupied
    <3> QED
      BY <1>2, <1>3, <1>4, <3>1, <3>2, TakenSpeaks DEF LiveIn, WordsOf
  <2>4. CASE d = c
    <3>1. told[c] # "Accepted"
      BY <1>3, <1>4, <2>1, <2>2, <2>4 DEF PhaseOf
    <3>2. told'[c] # "Accepted" /\ peer'[c] = "gone"
      BY <2>1, <2>2 DEF HostTypeOK
    <3>3. reader[c] = NoSeat /\ stream[c] = <<>> /\ \A i \in DOMAIN inbox : ~IsFrame(i, c)
      BY <1>4, <2>4, <3>1 DEF PhaseOf
    <3>4. \A i \in DOMAIN inbox' : ~IsFrame(i, c)'
      BY <1>5, <2>4, <3>3
    <3> QED
      BY <1>3, <2>4, <3>2, <3>3, <3>4 DEF PhaseOf, WordsOf
  <2> QED
    BY <2>3, <2>4
<1>7. CASE HandleClosed
  <2>1. Occupied' = Occupied /\ UNCHANGED <<told, peer>>
    BY <1>7 DEF HandleClosed, vars, Occupied
  <2> QED
    BY <1>2, <1>3, <1>4, <2>1, TakenSpeaks DEF LiveIn, WordsOf
<1>8. CASE HandleFrame
  <2> DEFINE e == Head(inbox)
  <2>1. e.kind = "Frame" /\ UNCHANGED <<told, peer>> /\ Deliver(e.seat, e.msg)
    BY <1>8 DEF HandleFrame, Takes
  <2>2. e.conn \in Conns /\ e.seat \in Seats /\ e.msg \in ClientMessage
    BY <1>3, <2>1 DEF HostEvent
  <2>3. IsFrame(1, e.conn) /\ inbox[1] = e
    BY <1>3, <2>1 DEF IsFrame
  <2>4. LiveIn(e.conn, e.seat)
    BY <1>3, <2>2, <2>3 DEF SpeaksInv, WordsOf
  <2>5. Leaves(e.msg) =>
          /\ e.conn \in left /\ stream[e.conn] = <<>>
          /\ \A j \in DOMAIN inbox : IsFrame(j, e.conn) => j <= 1
    BY <1>3, <2>2, <2>3 DEF SpeaksInv, WordsOf
  <2>6. Occupied \ {e.seat} \subseteq Occupied' /\ (~Leaves(e.msg) => Occupied \subseteq Occupied')
    BY <2>1, <2>2, DeliverSeats
  <2> HIDE DEF e
  <2>7. ASSUME NEW s, LiveIn(d, s), s \notin Occupied'
        PROVE  d = e.conn /\ Leaves(e.msg)
    <3>1. s = e.seat /\ Leaves(e.msg)
      BY <2>6, <2>7 DEF LiveIn
    <3> QED
      BY <2>4, <2>7, <3>1 DEF LiveIn
  <2>8. ASSUME NEW i \in DOMAIN inbox', IsFrame(i, d)'
        PROVE  ~(d = e.conn /\ Leaves(e.msg))
    <3>1. i \in Nat \ {0} /\ i + 1 \in DOMAIN inbox /\ IsFrame(i + 1, d)
      BY <1>5, <2>8
    <3>2. ~(i + 1 <= 1)
      BY <3>1
    <3> QED
      BY <2>5, <3>1, <3>2
  <2>9. \A s : LiveIn(d, s) /\ (\E i \in DOMAIN inbox' : IsFrame(i, d)' /\ inbox'[i].seat = s)
               => s \in Occupied'
    BY <2>7, <2>8
  <2>10. reader[d] # NoSeat /\ (d \notin left \/ stream[d] # <<>>) => reader[d] \in Occupied'
    <3> SUFFICES ASSUME reader[d] # NoSeat, d \notin left \/ stream[d] # <<>>
                 PROVE  reader[d] \in Occupied'
      OBVIOUS
    <3>1. LiveIn(d, reader[d])
      BY <1>4 DEF WordsOf
    <3> QED
      BY <2>5, <2>7, <3>1
  <2> QED
    BY <1>2, <1>3, <2>1, <2>9, <2>10, TakenSpeaks
<1> QED
  BY <1>1, <1>6, <1>7, <1>8

LEMMA TickSpeaks ==
  ASSUME HostInv, TypeOK, SpeaksInv, TickerFires
  PROVE  SpeaksInv'
<1>1. UNCHANGED <<inbox, reader, peer, stream, told, owner, left>> /\ hosting = "running"
  BY DEF TickerFires
<1>2. Occupied' = Occupied
  <2>1. CASE TickWaits
    BY <2>1 DEF TickWaits, Occupied
  <2>2. CASE TickRuns
    <3>1. \A s \in Occupied : Drained(seats[s]) # Vacant
      BY DrainedType, SessionIsNotVacant DEF TypeOK, Occupied
    <3> QED
      BY <2>2, <3>1 DEF TickRuns, Occupied
  <2> QED
    BY <2>1, <2>2 DEF TickerFires, Tick
<1> QED
  BY <1>1, <1>2 DEF SpeaksInv, PhaseOf, WordsOf, LiveIn, IsFrame

LEMMA SpeaksNext ==
  ASSUME HostInv, TypeOK, SpeaksInv, Hostile = {}, [HostNext]_allVars
  PROVE  SpeaksInv'
<1>1. CASE UNCHANGED allVars
  BY <1>1 DEF allVars, hostVars, vars, SpeaksInv, PhaseOf, WordsOf, LiveIn, IsFrame, Occupied
<1>2. CASE \E c \in Conns : Client(c) \/ Tasks(c)
  BY <1>2, ClientSpeaks, TasksSpeak
<1>3. CASE HandleEvent
  BY <1>3, GrantSpeaks, LoopSpeaks DEF HandleEvent
<1>4. CASE TickerFires
  BY <1>4, TickSpeaks
<1> QED
  BY <1>1, <1>2, <1>3, <1>4 DEF HostNext

(* With clients that stop talking once they leave, what is accepted under  *)
(* a seat was said by its owner, for any number of connections queueing in *)
(* any order.  net.rs: read_loop; lib.rs: deliver().                       *)
THEOREM OwnersSpeak ==
  ASSUME Hostile = {}
  PROVE  HostSpec => SeatSpeaksForItsOwner
<1> DEFINE J == HostInv /\ TypeOK /\ IInv
<1>1. HostInit => SpeaksInv
  BY SpeaksInit
<1>2. J /\ SpeaksInv /\ [HostNext]_allVars => SpeaksInv'
  BY SpeaksNext
<1>3. J /\ SpeaksInv /\ [HostNext]_allVars =>
        [\A s \in Seats :
           accepted'[s] # accepted[s] /\ accepted'[s] # {} =>
             Head(inbox).conn = owner[s]]_allVars
  <2> SUFFICES ASSUME HostInv, TypeOK, SpeaksInv, [HostNext]_allVars, NEW s \in Seats,
                      accepted'[s] # accepted[s], accepted'[s] # {}
               PROVE  Head(inbox).conn = owner[s]
    OBVIOUS
  <2>1. HandleFrame
    <3>1. CASE UNCHANGED allVars
      BY <3>1 DEF allVars, vars
    <3>2. CASE \E c \in Conns : Client(c) \/ Tasks(c)
      BY <3>2 DEF Client, Tasks, ClientWrites, ClientGoes, Accept, ReadFrame, ReadEnd, vars
    <3>3. CASE GrantSeat \/ RefuseSeat \/ HandshakeFails
      <4>1. Join \/ JoinRefused
        BY <3>3 DEF GrantSeat, RefuseSeat, HandshakeFails
      <4>2. accepted \in [Seats -> SUBSET Seqs]
        BY DEF TypeOK
      <4> QED
        BY <4>1, <4>2 DEF Join, JoinRefused, vars
    <3>4. CASE HandleClosed
      BY <3>4 DEF HandleClosed, vars
    <3>5. CASE TickerFires
      BY <3>5 DEF TickerFires, Tick, TickWaits, TickRuns
    <3> QED
      BY <3>1, <3>2, <3>3, <3>4, <3>5 DEF HostNext, HandleEvent
  <2>2. Takes("Frame") /\ Deliver(Head(inbox).seat, Head(inbox).msg)
    BY <2>1 DEF HandleFrame
  <2>3. /\ Head(inbox) \in HostEvent /\ Head(inbox).kind = "Frame"
        /\ 1 \in DOMAIN inbox /\ Head(inbox) = inbox[1] /\ hosting = "running"
    BY <2>2, TakenType DEF HostInv, Takes
  <2>4. Head(inbox).conn \in Conns /\ Head(inbox).seat \in Seats
    BY <2>3 DEF HostEvent
  <2>5. LiveIn(Head(inbox).conn, Head(inbox).seat)
    BY <2>3, <2>4 DEF SpeaksInv, WordsOf, IsFrame
  <2>6. s = Head(inbox).seat
    <3>1. accepted \in [Seats -> SUBSET Seqs]
      BY DEF TypeOK
    <3> QED
      BY <2>2, <2>4, <3>1 DEF Deliver, DeliverReady, DeliverInput, RefuseInput,
                              DeliverSurrender, DeliverRefused
  <2> QED
    BY <2>5, <2>6 DEF LiveIn
<1> QED
  BY <1>1, <1>2, <1>3, HostInvariant, PTL DEF HostSpec, SeatSpeaksForItsOwner

-----------------------------------------------------------------------------
(* The executable: what a part is worth.                                   *)
Worths == {Absent, Torn, Now, Before}

SealTypeOK ==
  /\ given \in [key : BOOLEAN, parts : BOOLEAN]
  /\ fresh \in BOOLEAN
  /\ phase \in {"hosting", "listing", "reading", "companion", "replay", "over"}
  /\ spoke \subseteq SeatNumbers
  /\ client \in [SeatNumbers -> {"playing", "writing", "gone"}]
  /\ part \in [SeatNumbers -> Worths]
  /\ toRead \subseteq SeatNumbers
  /\ overdue \in BOOLEAN

(* What a seat's part may be worth once it was read.                       *)
Readable(worth) == worth \in {Torn, Now, Before} /\ (fresh => worth # Before)

PartsInv ==
  /\ \A s \in SeatNumbers : fresh => part[s] # Before
  /\ \A s \in toRead : part[s] # Absent
  /\ \A s \in DOMAIN found : Readable(found[s])

(* What was collected is of those who spoke, and torn nowhere.             *)
Collects(parts) ==
  /\ DOMAIN parts = spoke
  /\ \A s \in spoke : Readable(parts[s]) /\ parts[s] # Torn
CollectedInv == collected = None \/ \E parts : collected = Some(parts) /\ Collects(parts)

(* What is on disk, by where main() is.                                    *)
Beside == IF collected = None THEN Missing ELSE Holds(collected)
Early  == collected = None /\ companion = Missing /\ replay = Missing /\ exit = "none"
DiskInv ==
  /\ phase = "hosting" => Early
  /\ phase \in {"listing", "reading"} => Early /\ given.key
  /\ phase = "companion" =>
       /\ collected # None /\ companion \in {Missing, Partial} /\ replay = Missing
       /\ exit = "none" /\ given.key
  /\ phase = "replay" =>
       companion = Beside /\ replay \in {Missing, Partial} /\ exit = "none" /\ given.key
  /\ phase = "over" =>
       /\ companion \in {Missing, Partial, Beside}
       /\ replay \notin {Missing, Partial} => replay = Holds(collected) /\ companion = Beside
       /\ exit = "SUCCESS" /\ given.key => replay = Holds(collected)
       /\ exit = "FAILURE" => replay \in {Missing, Partial}

SealInv == SealTypeOK /\ PartsInv /\ CollectedInv /\ DiskInv

-----------------------------------------------------------------------------
(* A file that was opened is not yet whole, one that was filled is.        *)
LEMMA WholeFiles ==
  /\ ~Whole(Missing) /\ ~Whole(Partial)
  /\ \A x : Whole(Holds(x)) /\ Holds(x)[2] = x
  /\ \A x : Some(x)[1] = x /\ Some(x) # None
BY DEF Whole, Missing, Partial, Holds, Some, None

LEMMA SealStarts == SInit => SealInv
<1> SUFFICES ASSUME SInit PROVE SealInv
  OBVIOUS
<1>1. SealTypeOK
  <2>1. part \in [SeatNumbers -> Worths]
    BY DEF SInit, Worths
  <2> QED
    BY <2>1 DEF SInit, SealTypeOK
<1>2. PartsInv
  BY DEF SInit, PartsInv, Absent, Before, Nothing
<1>3. CollectedInv /\ DiskInv
  BY DEF SInit, CollectedInv, DiskInv, Early
<1> QED
  BY <1>1, <1>2, <1>3 DEF SealInv

-----------------------------------------------------------------------------
(* The clients touch their parts alone, and never take one away.           *)
LEMMA SealClients ==
  ASSUME SealInv, NEW s \in SeatNumbers, ClientOpens(s) \/ ClientFills(s) \/ ClientDies(s)
  PROVE  SealInv'
<1> USE DEF SealInv
<1>1. UNCHANGED <<given, fresh, phase, spoke, toRead, found, overdue, collected, companion, replay, exit>>
  BY DEF ClientOpens, ClientFills, ClientDies, serverOnly
<1>2. \A t \in SeatNumbers : part'[t] \in {part[t], Torn, Now}
  BY DEF SealTypeOK, ClientOpens, ClientFills, ClientDies
<1>3. SealTypeOK'
  <2>1. part' \in [SeatNumbers -> Worths]
    BY DEF SealTypeOK, Worths, ClientOpens, ClientFills, ClientDies
  <2>2. client' \in [SeatNumbers -> {"playing", "writing", "gone"}]
    BY DEF SealTypeOK, ClientOpens, ClientFills, ClientDies
  <2> QED
    BY <1>1, <2>1, <2>2 DEF SealTypeOK
<1>4. PartsInv'
  BY <1>1, <1>2 DEF SealTypeOK, PartsInv, Readable, Absent, Torn, Now, Before
<1>5. CollectedInv' /\ DiskInv'
  BY <1>1 DEF CollectedInv, Collects, Readable, DiskInv, Early, Beside
<1> QED
  BY <1>3, <1>4, <1>5

(* Hosting ends: with nothing on disk, and nothing collected.              *)
LEMMA HostingEnds ==
  ASSUME SealInv, Hosted \/ HostFails
  PROVE  SealInv'
<1> USE DEF SealInv
<1>1. Early /\ UNCHANGED <<given, fresh, client, part, toRead, found, overdue, collected, companion, replay>>
  BY DEF Hosted, HostFails, DiskInv
<1>2. SealTypeOK'
  BY <1>1 DEF Hosted, HostFails, Exit, SealTypeOK
<1>3. PartsInv'
  BY <1>1 DEF PartsInv, Readable
<1>4. CollectedInv'
  BY <1>1 DEF CollectedInv, Early
<1>5. DiskInv'
  BY <1>1 DEF Hosted, HostFails, Exit, DiskInv, Early, Beside
<1> QED
  BY <1>2, <1>3, <1>4, <1>5

(* A round: what is listed is there, and what is read of it is a part of   *)
(* some worth.                                                             *)
LEMMA Rounds ==
  ASSUME SealInv, List \/ Deadline \/ \E s \in SeatNumbers : Read(s)
  PROVE  SealInv'
<1> USE DEF SealInv
<1>1. UNCHANGED <<given, fresh, spoke, client, part, collected, companion, replay, exit>>
  BY DEF List, Deadline, Read
<1>2. phase \in {"listing", "reading"} /\ phase' \in {"listing", "reading"}
  BY DEF List, Deadline, Read
<1>3. SealTypeOK'
  BY <1>1, <1>2 DEF List, Deadline, Read, SealTypeOK
<1>4. CollectedInv' /\ DiskInv'
  BY <1>1, <1>2 DEF CollectedInv, Collects, Readable, DiskInv, Early, Beside
<1>5. PartsInv'
  <2>1. CASE List
    BY <2>1, <1>1 DEF List, PartsInv, Nothing
  <2>2. CASE Deadline
    BY <2>2, <1>1 DEF Deadline, PartsInv, Readable
  <2>3. ASSUME NEW s \in SeatNumbers, Read(s)
        PROVE  PartsInv'
    <3>1. Readable(part[s])
      BY <2>3 DEF Read, PartsInv, Readable, SealTypeOK, Worths
    <3>2. \A t \in DOMAIN found' : Readable(found'[t])
      BY <2>3, <3>1 DEF Read, PartsInv
    <3> QED
      BY <2>3, <1>1, <3>2 DEF Read, PartsInv, Readable
  <2> QED
    BY <2>1, <2>2, <2>3
<1> QED
  BY <1>3, <1>4, <1>5

(* Judged whole, and of those who spoke: then, and only then, collected.   *)
LEMMA Judging ==
  ASSUME SealInv, Judge
  PROVE  SealInv'
<1> USE DEF SealInv
<1>1. /\ UNCHANGED <<given, fresh, spoke, client, part, toRead, found, overdue, companion, replay, exit>>
      /\ Early /\ given.key
  BY DEF Judge, DiskInv
<1>2. PartsInv'
  BY <1>1 DEF PartsInv, Readable
<1>3. CASE ~(Assembles /\ Covers)
  <2>1. phase' \in {"listing", "replay"} /\ UNCHANGED collected
    BY <1>3 DEF Judge, JudgeRound, GivesUp, Waits
  <2>2. SealTypeOK' /\ CollectedInv'
    BY <1>1, <2>1 DEF SealTypeOK, CollectedInv, Early
  <2>3. DiskInv'
    BY <1>1, <2>1 DEF DiskInv, Early, Beside
  <2> QED
    BY <1>2, <2>2, <2>3
<1>4. CASE Assembles /\ Covers
  <2>1. phase' = "companion" /\ collected' = Some(found)
    BY <1>4 DEF Judge, JudgeRound
  <2>2. Collects(found)
    BY <1>4 DEF Assembles, Covers, Collects, PartsInv
  <2>3. CollectedInv'
    BY <1>1, <2>1, <2>2 DEF CollectedInv, Collects, Readable
  <2>4. SealTypeOK'
    BY <1>1, <2>1 DEF SealTypeOK
  <2>5. DiskInv'
    BY <1>1, <2>1, WholeFiles DEF DiskInv, Early
  <2> QED
    BY <1>2, <2>3, <2>4, <2>5
<1> QED
  BY <1>3, <1>4

(* The writes, each of which may fail before or after it began, and death. *)
LEMMA Writing ==
  ASSUME SealInv, WriteCompanion \/ WriteReplay \/ Killed
  PROVE  SealInv'
<1> USE DEF SealInv
<1>1. UNCHANGED <<given, fresh, spoke, client, part, toRead, found, overdue, collected>>
  BY DEF WriteCompanion, WriteReplay, Killed
<1>2. PartsInv' /\ CollectedInv'
  BY <1>1 DEF PartsInv, CollectedInv, Collects, Readable
<1>3. SealTypeOK'
  BY <1>1 DEF SealTypeOK, WriteCompanion, WriteReplay, Killed, Fails, Exit
<1>4. DiskInv'
  <2>1. CASE WriteCompanion
    BY <1>1, <2>1, WholeFiles DEF WriteCompanion, Fails, Exit, DiskInv, Beside
  <2>2. CASE WriteReplay
    BY <1>1, <2>2, WholeFiles DEF WriteReplay, Commitment, Fails, Exit, DiskInv, Beside
  <2>3. CASE Killed
    BY <1>1, <2>3 DEF Killed, Exit, SealTypeOK, DiskInv, Early, Beside
  <2> QED
    BY <2>1, <2>2, <2>3
<1> QED
  BY <1>2, <1>3, <1>4

LEMMA SealSteps == SealInv /\ [SNext]_svars => SealInv'
<1> SUFFICES ASSUME SealInv, [SNext]_svars
             PROVE  SealInv'
  OBVIOUS
<1>1. CASE UNCHANGED svars
  BY <1>1 DEF svars, SealInv, SealTypeOK, PartsInv, Readable, CollectedInv, Collects, DiskInv, Early, Beside
<1>2. CASE SNext
  <2>1. ASSUME NEW s \in SeatNumbers, ClientOpens(s) \/ ClientFills(s) \/ ClientDies(s)
        PROVE  SealInv'
    BY <2>1, SealClients
  <2>2. CASE Hosted \/ HostFails
    BY <2>2, HostingEnds
  <2>3. CASE List \/ Deadline \/ \E s \in SeatNumbers : Read(s)
    BY <2>3, Rounds
  <2>4. CASE Judge
    BY <2>4, Judging
  <2>5. CASE WriteCompanion \/ WriteReplay \/ Killed
    BY <2>5, Writing
  <2> QED
    BY <1>2, <2>1, <2>2, <2>3, <2>4, <2>5 DEF SNext, Server
<1> QED
  BY <1>1, <1>2

-----------------------------------------------------------------------------
(* What main() left on disk is, at every place it can be, what DiskInv     *)
(* says: the invariant of the executable, for any set of seats.            *)
THEOREM SealingInvariant == SSpec => []SealInv
<1>1. SInit => SealInv
  BY SealStarts
<1>2. SealInv /\ [SNext]_svars => SealInv'
  BY SealSteps
<1> QED
  BY <1>1, <1>2, PTL DEF SSpec

(* A replay that commits to a companion has it beside it, one that commits *)
(* to none has none, the companion covers who spoke with whole parts, and  *)
(* success is said of nothing less, wherever the process died (main.rs).   *)
THEOREM SealedTogether == SSpec => []ReplayFindsItsCompanion
<1>1. SealInv => ReplayFindsItsCompanion
  <2> SUFFICES ASSUME SealInv PROVE ReplayFindsItsCompanion
    OBVIOUS
  <2>1. Whole(companion) => collected # None /\ companion = Holds(collected)
    BY WholeFiles DEF SealInv, SealTypeOK, DiskInv, Early, Beside
  <2>2. Whole(replay) => replay = Holds(collected) /\ companion = Beside
    BY WholeFiles DEF SealInv, SealTypeOK, DiskInv, Early
  <2>3. CompanionIsWhole
    <3> SUFFICES ASSUME Whole(companion)
                 PROVE  /\ DOMAIN companion[2][1] = spoke
                        /\ \A s \in spoke : companion[2][1][s] \in (IF fresh THEN {Now} ELSE {Now, Before})
      BY DEF CompanionIsWhole
    <3>1. PICK parts : collected = Some(parts) /\ Collects(parts)
      BY <2>1 DEF SealInv, CollectedInv
    <3>2. companion[2][1] = parts
      BY <2>1, <3>1, WholeFiles
    <3> QED
      BY <3>1, <3>2 DEF Collects, Readable
  <2>4. Whole(replay) => companion = IF replay[2] = None THEN Missing ELSE replay
    BY <2>2, WholeFiles DEF Beside
  <2>5. exit = "SUCCESS" /\ given.key => Whole(replay)
    BY WholeFiles DEF SealInv, SealTypeOK, DiskInv, Early
  <2>6. exit = "FAILURE" => ~Whole(replay)
    BY WholeFiles DEF SealInv, SealTypeOK, DiskInv, Early
  <2> QED
    BY <2>3, <2>4, <2>5, <2>6 DEF ReplayFindsItsCompanion
<1> QED
  BY <1>1, SealingInvariant, PTL

-----------------------------------------------------------------------------
(* What the recording is made of, and what the wire carries.               *)
Sample == [kind : {"Pressed"}, down : BOOLEAN] \cup [kind : {"Viewed"}, tick : Nat, seq : Nat]
AFrame == [kind : {"Ready", "Surrender"}]
            \cup [kind : {"Input"}, seq : Nat, action : Orders \cup {"Cast"}, view : Nat]

ClientTypeOK ==
  /\ view \in Nat /\ seq \in Nat /\ standing \in Orders /\ once \in BOOLEAN
  /\ trace \in Seq(Sample) /\ Len(trace) <= MAX_SAMPLES /\ dropped \in Nat
  /\ mailbox \in Seq(Nat) /\ sent \in Nat
  /\ outbox \in Seq(AFrame) /\ heard \in Seq(AFrame)
  /\ outcome \in {"none", "Over", "Failed"}

(* Where a drain may have come to: a sample and a frame for each number it *)
(* spent, the frame missing from the last one only when the session ended. *)
KeepsPace(d) ==
  /\ d.seq \in Nat /\ seq <= d.seq /\ d.view \in Nat /\ d.once \in BOOLEAN
  /\ d.samples \in Seq(Sample) /\ Len(d.samples) = d.seq - seq
  /\ d.frames \in Seq(AFrame) /\ Len(d.frames) <= Len(d.samples)
  /\ d.outcome \in {"none", "Over", "Failed"}
  /\ d.outcome = "none" => outcome = "none"
  /\ d.outcome = "none" \/ ~d.stop => Len(d.frames) = Len(d.samples)
  /\ \A i \in 1..Len(d.samples) :
       /\ d.samples[i].kind = "Viewed" /\ d.samples[i].seq = seq + i - 1
       /\ i <= Len(d.frames) =>
            /\ d.frames[i].kind = "Input" /\ d.frames[i].seq = seq + i - 1
            /\ d.samples[i] = Viewed(d.frames[i].view, d.frames[i].seq)

Drains ==
  {d \in [view : Nat, seq : Nat, once : BOOLEAN, samples : Seq(Sample), frames : Seq(AFrame),
          outcome : {"none", "Over", "Failed"}, stop : BOOLEAN] : KeepsPace(d)}

Passes == INSTANCE FoldLemmas WITH Op <- Pass, V <- Drains, E <- Nat

(* One pass of the drain keeps to it.                                      *)
LEMMA PassDrains ==
  ASSUME ClientTypeOK, NEW d \in Drains, NEW t \in Nat
  PROVE  Pass(d, t) \in Drains
<1> DEFINE v  == Folded(d.view, t)
           f  == Input(d.seq, Intention(d), v)
           a  == Anchor(d, v)
           fs == Append(d.frames, f)
           ss == Append(d.samples, a)
<1>1. KeepsPace(d) /\ d.stop \in BOOLEAN
  BY DEF Drains
<1>2. CASE d.stop
  BY <1>2 DEF Pass
<1>3. CASE ~d.stop /\ t = Bad
  <2>1. Pass(d, t) = [d EXCEPT !.stop = TRUE, !.outcome = "Failed"]
    BY <1>3 DEF Pass
  <2>2. Pass(d, t) = [view |-> d.view, seq |-> d.seq, once |-> d.once, samples |-> d.samples,
                      frames |-> d.frames, outcome |-> "Failed", stop |-> TRUE]
    BY <2>1 DEF Drains
  <2> DEFINE p == Pass(d, t)
  <2>3. KeepsPace(p)
    BY <1>1, <2>2 DEF KeepsPace
  <2> QED
    BY <1>1, <2>2, <2>3 DEF Drains
<1>4. CASE ~d.stop /\ t # Bad
  <2>1. v \in Nat
    BY <1>1 DEF Folded, KeepsPace
  <2>2. f \in AFrame /\ f.kind = "Input" /\ f.seq = d.seq /\ f.view = v
    BY <1>1, <2>1 DEF AFrame, Input, Intention, KeepsPace, ClientTypeOK
  <2>3. a \in Sample /\ a = Viewed(v, d.seq) /\ a.kind = "Viewed" /\ a.seq = d.seq
    BY <1>1, <2>1 DEF Sample, Anchor, Viewed, KeepsPace
  <2> HIDE DEF v, f, a
  <2>4. /\ Len(d.frames) = Len(d.samples) /\ Len(d.samples) = d.seq - seq
        /\ d.samples \in Seq(Sample) /\ d.frames \in Seq(AFrame) /\ seq \in Nat /\ d.seq \in Nat
        /\ Len(d.samples) \in Nat
    BY <1>1, <1>4, LenProperties DEF KeepsPace, ClientTypeOK
  <2> DEFINE n == Len(d.samples) + 1
  <2>5. /\ ss \in Seq(Sample) /\ Len(ss) = n /\ n \in Nat
        /\ \A i \in 1..n : ss[i] = IF i < n THEN d.samples[i] ELSE a
    BY <2>3, <2>4, AppendProperties, SMTT(40)
  <2>6. /\ fs \in Seq(AFrame) /\ Len(fs) = n
        /\ \A i \in 1..n : fs[i] = IF i < n THEN d.frames[i] ELSE f
    BY <2>2, <2>4, AppendProperties
  <2>7. ASSUME NEW i \in 1..n
        PROVE  /\ ss[i].kind = "Viewed" /\ ss[i].seq = seq + i - 1
               /\ fs[i].kind = "Input" /\ fs[i].seq = seq + i - 1
               /\ ss[i] = Viewed(fs[i].view, fs[i].seq)
               /\ i < n => fs[i] = d.frames[i]
    <3>1. CASE i < n
      <4>1. i \in 1..Len(d.samples) /\ i <= Len(d.frames) /\ ss[i] = d.samples[i] /\ fs[i] = d.frames[i]
        BY <2>4, <2>5, <2>6, <3>1
      <4> QED
        BY <1>1, <4>1 DEF KeepsPace
    <3>2. CASE ~(i < n)
      <4>1. ss[i] = a /\ fs[i] = f
        BY <2>5, <2>6, <3>2
      <4>2. d.seq = seq + i - 1
        <5>1. PICK l \in Nat, x \in Nat, y \in Nat : l = Len(d.samples) /\ x = d.seq /\ y = seq
          BY <2>4
        <5>2. i \in 1..(l + 1) /\ ~(i < l + 1) /\ l = x - y
          BY <2>4, <3>2, <5>1
        <5>3. x = y + i - 1
          BY <5>2
        <5> QED
          BY <5>1, <5>3
      <4> QED
        BY <2>2, <2>3, <3>2, <4>1, <4>2
    <3> QED
      BY <3>1, <3>2
  <2> DEFINE open == [d EXCEPT !.view = v, !.seq = @ + 1, !.once = FALSE, !.samples = ss]
             p == Pass(d, t)
  <2>8. p = IF Fits(fs) THEN [open EXCEPT !.frames = fs]
            ELSE [open EXCEPT !.stop = TRUE, !.outcome = FirstReason("Over")]
    BY <1>4 DEF Pass, Answered, v, f, a
  <2> HIDE DEF ss, fs
  <2>9. n = (d.seq + 1) - seq /\ d.seq + 1 \in Nat /\ seq <= d.seq + 1
    BY <1>1, <2>4 DEF KeepsPace
  <2>10. CASE Fits(fs)
    <3>1. p = [open EXCEPT !.frames = fs]
      BY <2>8, <2>10
    <3>2. p = [view |-> v, seq |-> d.seq + 1, once |-> FALSE, samples |-> ss, frames |-> fs,
               outcome |-> d.outcome, stop |-> d.stop]
      BY <3>1 DEF Drains
    <3> HIDE DEF p, n
    <3>3. d.outcome \in {"none", "Over", "Failed"} /\ (d.outcome = "none" => outcome = "none")
      BY <1>1 DEF KeepsPace
    <3>4. KeepsPace(p)
      BY <2>1, <2>5, <2>6, <2>7, <2>9, <3>2, <3>3 DEF KeepsPace
    <3>5. p \in Drains
      BY <1>1, <2>1, <2>5, <2>6, <2>9, <3>2, <3>3, <3>4 DEF Drains
    <3> QED
      BY <3>5 DEF p
  <2>11. CASE ~Fits(fs)
    <3>1. p = [open EXCEPT !.stop = TRUE, !.outcome = FirstReason("Over")]
      BY <2>8, <2>11
    <3>2. p = [view |-> v, seq |-> d.seq + 1, once |-> FALSE, samples |-> ss, frames |-> d.frames,
               outcome |-> FirstReason("Over"), stop |-> TRUE]
      BY <3>1 DEF Drains
    <3>3. FirstReason("Over") \in {"Over", "Failed"}
      BY DEF FirstReason, ClientTypeOK
    <3>4. Len(d.frames) = n - 1 /\ \A i \in 1..n : i <= Len(d.frames) => i < n
      BY <2>4
    <3>7. Len(d.frames) <= n
      BY <2>4
    <3> HIDE DEF p, n
    <3>8. \A i \in 1..n :
            /\ ss[i].kind = "Viewed" /\ ss[i].seq = seq + i - 1
            /\ i <= Len(d.frames) =>
                 /\ d.frames[i].kind = "Input" /\ d.frames[i].seq = seq + i - 1
                 /\ ss[i] = Viewed(d.frames[i].view, d.frames[i].seq)
      BY <2>7, <3>4
    <3>5. KeepsPace(p)
      BY <2>1, <2>4, <2>5, <2>9, <3>2, <3>3, <3>7, <3>8 DEF KeepsPace
    <3>6. p \in Drains
      BY <2>1, <2>4, <2>5, <2>9, <3>2, <3>3, <3>5 DEF Drains
    <3> QED
      BY <3>6 DEF p
  <2> QED
    BY <2>10, <2>11
<1> QED
  BY <1>2, <1>3, <1>4

(* So does the drain of the whole mailbox, whatever is in it.              *)
LEMMA AdvanceDrains ==
  ASSUME ClientTypeOK
  PROVE  Advanced \in Drains
<1>1. Drain \in Drains
  <2>1. Drain = [view |-> view, seq |-> seq, once |-> once, samples |-> <<>>, frames |-> <<>>,
                 outcome |-> outcome, stop |-> FALSE]
    BY DEF Drain
  <2>2. <<>> \in Seq(Sample) /\ <<>> \in Seq(AFrame) /\ Len(<<>>) = 0
    BY EmptySeq
  <2>3. /\ view \in Nat /\ seq \in Nat /\ once \in BOOLEAN
        /\ outcome \in {"none", "Over", "Failed"} /\ seq - seq = 0 /\ seq <= seq
    BY DEF ClientTypeOK
  <2>4. KeepsPace(Drain)
    BY <2>1, <2>2, <2>3 DEF KeepsPace
  <2> QED
    BY <2>1, <2>2, <2>3, <2>4 DEF Drains
<1>2. \A d \in Drains, t \in Nat : Pass(d, t) \in Drains
  BY PassDrains
<1>3. mailbox \in Seq(Nat) /\ Len(mailbox) \in Nat
  BY LenProperties DEF ClientTypeOK
<1>4. PICK run \in [0..Len(mailbox) -> Drains] : Passes!Folded(Drain, mailbox) = run[Len(mailbox)]
  BY <1>1, <1>2, <1>3, Passes!FoldRuns
<1>5. Advanced = Passes!Folded(Drain, mailbox)
  BY DEF Advanced, FoldLeft, MapThenFoldSet, Max, Passes!Folded, Passes!Greatest
<1> QED
  BY <1>3, <1>4, <1>5

-----------------------------------------------------------------------------
(* The numbers the elements of one kind carry: below n, each once and in   *)
(* order; and all of those below n.                                        *)
Numbered(s, kind, n) ==
  /\ \A i \in DOMAIN s : s[i].kind = kind => s[i].seq \in 0..(n - 1)
  /\ \A i \in DOMAIN s, j \in DOMAIN s :
       s[i].kind = kind /\ s[j].kind = kind /\ i < j => s[i].seq < s[j].seq

Complete(s, kind, n) ==
  \A m \in 0..(n - 1) : \E i \in DOMAIN s : s[i].kind = kind /\ s[i].seq = m

(* Every frame of an intention has its sample.                             *)
Paired(frames_, samples_) ==
  \A i \in DOMAIN frames_ : frames_[i].kind = "Input" =>
    \E k \in DOMAIN samples_ : samples_[k] = Viewed(frames_[i].view, frames_[i].seq)

Joined(q, s, t) ==
  /\ DOMAIN s = 1..Len(s) /\ DOMAIN t = 1..Len(t) /\ Len(s) \in Nat /\ Len(t) \in Nat
  /\ \A i \in DOMAIN s : i \in DOMAIN q /\ q[i] = s[i]
  /\ \A j \in DOMAIN t : Len(s) + j \in DOMAIN q /\ q[Len(s) + j] = t[j]
  /\ \A i \in DOMAIN q :
       \/ i \in DOMAIN s /\ q[i] = s[i]
       \/ \E j \in DOMAIN t : i = Len(s) + j /\ q[i] = t[j]

LEMMA Parts ==
  ASSUME NEW T, NEW s \in Seq(T), NEW t \in Seq(T)
  PROVE  s \o t \in Seq(T) /\ Joined(s \o t, s, t)
<1> DEFINE q == s \o t
<1>1. q \in Seq(T) /\ Len(q) = Len(s) + Len(t)
      /\ \A i \in 1..(Len(s) + Len(t)) : q[i] = IF i <= Len(s) THEN s[i] ELSE t[i - Len(s)]
  BY ConcatProperties
<1> HIDE DEF q
<1>2. /\ DOMAIN s = 1..Len(s) /\ DOMAIN t = 1..Len(t) /\ Len(s) \in Nat /\ Len(t) \in Nat
      /\ DOMAIN q = 1..(Len(s) + Len(t))
  BY <1>1, LenProperties
<1>3. \A i \in DOMAIN s : i \in DOMAIN q /\ q[i] = s[i]
  BY <1>1, <1>2
<1>4. ASSUME NEW j \in DOMAIN t PROVE Len(s) + j \in DOMAIN q /\ q[Len(s) + j] = t[j]
  <2>1. /\ Len(s) + j \in 1..(Len(s) + Len(t)) /\ ~(Len(s) + j <= Len(s))
        /\ (Len(s) + j) - Len(s) = j
    BY <1>2
  <2> QED
    BY <1>1, <1>2, <2>1
<1>5. ASSUME NEW i \in DOMAIN q
      PROVE  \/ i \in DOMAIN s /\ q[i] = s[i]
             \/ \E j \in DOMAIN t : i = Len(s) + j /\ q[i] = t[j]
  <2>1. CASE i <= Len(s)
    BY <1>1, <1>2, <2>1
  <2>2. CASE ~(i <= Len(s))
    <3>1. i - Len(s) \in DOMAIN t /\ i = Len(s) + (i - Len(s)) /\ q[i] = t[i - Len(s)]
      BY <1>1, <1>2, <2>2
    <3> QED
      BY <3>1
  <2> QED
    BY <2>1, <2>2
<1> QED
  BY <1>1, <1>2, <1>3, <1>4, <1>5 DEF Joined, q

(* Elements of the kind that carry the next numbers carry them on.         *)
LEMMA NumbersGoOn ==
  ASSUME NEW T, NEW s \in Seq(T), NEW t \in Seq(T), NEW kind, NEW n \in Nat,
         Numbered(s, kind, n),
         \A j \in DOMAIN t : t[j].kind = kind /\ t[j].seq = n + j - 1
  PROVE  /\ Numbered(s \o t, kind, n + Len(t))
         /\ Complete(s, kind, n) => Complete(s \o t, kind, n + Len(t))
<1> DEFINE q == s \o t
<1>0. Joined(q, s, t)
  BY Parts
<1> HIDE DEF q
<1>1. /\ DOMAIN s = 1..Len(s) /\ DOMAIN t = 1..Len(t) /\ Len(s) \in Nat /\ Len(t) \in Nat
      /\ \A i \in DOMAIN s : i \in DOMAIN q /\ q[i] = s[i]
      /\ \A j \in DOMAIN t : Len(s) + j \in DOMAIN q /\ q[Len(s) + j] = t[j]
      /\ \A i \in DOMAIN q :
              \/ i \in DOMAIN s /\ q[i] = s[i]
              \/ \E j \in DOMAIN t : i = Len(s) + j /\ q[i] = t[j]
  BY <1>0, Zenon DEF Joined
<1>2. ASSUME NEW i \in DOMAIN q, q[i].kind = kind PROVE q[i].seq \in 0..(n + Len(t) - 1)
  <2>1. CASE i \in DOMAIN s /\ q[i] = s[i]
    BY <1>1, <1>2, <2>1 DEF Numbered
  <2>2. ASSUME NEW j \in DOMAIN t, q[i] = t[j] PROVE q[i].seq \in 0..(n + Len(t) - 1)
    BY <1>1, <2>2
  <2> QED
    BY <1>1, <2>1, <2>2
<1>3. ASSUME NEW i \in DOMAIN q, NEW j \in DOMAIN q, q[i].kind = kind, q[j].kind = kind, i < j
      PROVE  q[i].seq < q[j].seq
  <2>1. CASE i \in DOMAIN s /\ q[i] = s[i]
    <3>1. s[i].seq \in 0..(n - 1)
      BY <1>3, <2>1 DEF Numbered
    <3>2. CASE j \in DOMAIN s /\ q[j] = s[j]
      BY <1>3, <2>1, <3>2 DEF Numbered
    <3>3. ASSUME NEW b \in DOMAIN t, q[j] = t[b] PROVE q[i].seq < q[j].seq
      BY <1>1, <2>1, <3>1, <3>3
    <3> QED
      BY <1>1, <3>2, <3>3
  <2>2. ASSUME NEW a \in DOMAIN t, i = Len(s) + a, q[i] = t[a] PROVE q[i].seq < q[j].seq
    <3>1. j \notin DOMAIN s
      BY <1>1, <1>3, <2>2
    <3>2. PICK b \in DOMAIN t : j = Len(s) + b /\ q[j] = t[b]
      BY <1>1, <3>1
    <3> QED
      BY <1>1, <1>3, <2>2, <3>2
  <2> QED
    BY <1>1, <2>1, <2>2
<1>4. ASSUME Complete(s, kind, n), NEW m \in 0..(n + Len(t) - 1)
      PROVE  \E i \in DOMAIN q : q[i].kind = kind /\ q[i].seq = m
  <2>1. CASE m < n
    <3>1. PICK i \in DOMAIN s : s[i].kind = kind /\ s[i].seq = m
      BY <1>1, <1>4, <2>1 DEF Complete
    <3> QED
      BY <1>1, <3>1
  <2>2. CASE ~(m < n)
    <3>1. PICK p \in DOMAIN t : p = m - n + 1
      BY <1>1, <2>2
    <3>2. n + p - 1 = m
      BY <1>1, <2>2, <3>1
    <3>3. t[p].kind = kind /\ t[p].seq = m
      BY <3>2
    <3> QED
      BY <1>1, <3>3
  <2> QED
    BY <2>1, <2>2
<1>5. Numbered(q, kind, n + Len(t))
  BY <1>2, <1>3 DEF Numbered
<1>6. Complete(s, kind, n) => Complete(q, kind, n + Len(t))
  BY <1>4, SMTT(40) DEF Complete
<1> QED
  BY <1>5, <1>6 DEF q

(* Elements of other kinds change nothing of it.                           *)
LEMMA OthersDoNotCount ==
  ASSUME NEW T, NEW s \in Seq(T), NEW t \in Seq(T), NEW kind, NEW n \in Nat,
         \A j \in DOMAIN t : t[j].kind # kind
  PROVE  /\ Numbered(s, kind, n) => Numbered(s \o t, kind, n)
         /\ Complete(s, kind, n) => Complete(s \o t, kind, n)
<1> DEFINE q == s \o t
<1>0. Joined(q, s, t)
  BY Parts
<1> HIDE DEF q
<1>1. /\ \A i \in DOMAIN s : i \in DOMAIN q /\ q[i] = s[i]
      /\ \A i \in DOMAIN q :
              \/ i \in DOMAIN s /\ q[i] = s[i]
              \/ \E j \in DOMAIN t : i = Len(s) + j /\ q[i] = t[j]
  BY <1>0, Zenon DEF Joined
<1>2. \A i \in DOMAIN q : q[i].kind = kind => i \in DOMAIN s /\ q[i] = s[i]
  BY <1>1
<1> QED
  BY <1>1, <1>2 DEF Numbered, Complete, q

LEMMA PairsGoOn ==
  ASSUME NEW T, NEW s \in Seq(T), NEW t \in Seq(T), NEW U, NEW u \in Seq(U), NEW v \in Seq(U),
         Paired(s, u),
         \A j \in DOMAIN t : t[j].kind = "Input" =>
           \E k \in DOMAIN v : v[k] = Viewed(t[j].view, t[j].seq)
  PROVE  Paired(s \o t, u \o v)
<1> DEFINE q == s \o t
           r == u \o v
<1>0. Joined(q, s, t) /\ Joined(r, u, v)
  BY Parts
<1> HIDE DEF q, r
<1>1. \A i \in DOMAIN q : (i \in DOMAIN s /\ q[i] = s[i]) \/ \E j \in DOMAIN t : q[i] = t[j]
  BY <1>0, Zenon DEF Joined
<1>2. /\ \A i \in DOMAIN u : i \in DOMAIN r /\ r[i] = u[i]
      /\ \A j \in DOMAIN v : Len(u) + j \in DOMAIN r /\ r[Len(u) + j] = v[j]
  BY <1>0, Zenon DEF Joined
<1>3. ASSUME NEW i \in DOMAIN q, q[i].kind = "Input"
      PROVE  \E k \in DOMAIN r : r[k] = Viewed(q[i].view, q[i].seq)
  <2>1. CASE i \in DOMAIN s /\ q[i] = s[i]
    <3>1. PICK k \in DOMAIN u : u[k] = Viewed(q[i].view, q[i].seq)
      BY <1>3, <2>1 DEF Paired
    <3> QED
      BY <1>2, <3>1
  <2>2. ASSUME NEW j \in DOMAIN t, q[i] = t[j]
        PROVE  \E k \in DOMAIN r : r[k] = Viewed(q[i].view, q[i].seq)
    <3>1. PICK k \in DOMAIN v : v[k] = Viewed(q[i].view, q[i].seq)
      BY <1>3, <2>2
    <3> QED
      BY <1>2, <3>1
  <2> QED
    BY <1>1, <2>1, <2>2
<1> QED
  BY <1>3 DEF Paired, q, r

-----------------------------------------------------------------------------
(* The inductive invariant: what the property says, and that no number is  *)
(* ahead of the next.                                                      *)
AnchoredInv ==
  /\ Numbered(Frames, "Input", seq) /\ Numbered(trace, "Viewed", seq)
  /\ dropped = 0 => Paired(Frames, trace) /\ Complete(trace, "Viewed", seq)
  /\ outcome = "none" => Complete(Frames, "Input", seq)

ClientInv == ClientTypeOK /\ AnchoredInv

LEMMA ClientStarts == CInit => ClientInv
<1> SUFFICES ASSUME CInit PROVE ClientInv
  OBVIOUS
<1>1. ClientTypeOK
  <2>1. <<>> \in Seq(Sample) /\ <<>> \in Seq(AFrame) /\ <<>> \in Seq(Nat) /\ Len(<<>>) = 0
    BY EmptySeq
  <2>2. /\ trace = <<>> /\ heard = <<>> /\ outbox = <<>> /\ mailbox = <<>> /\ 0 <= MAX_SAMPLES
        /\ view = 0 /\ seq = 0 /\ standing = "Idle" /\ once = FALSE /\ dropped = 0 /\ sent = 0
        /\ outcome = "none"
    BY ClientAssumption DEF CInit
  <2> QED
    BY <2>1, <2>2 DEF ClientTypeOK, Orders
<1>2. Frames = <<>> /\ trace = <<>> /\ seq = 0
  <2>1. <<>> \o <<>> = <<>>
    BY ConcatEmptySeq, EmptySeq
  <2> QED
    BY <2>1 DEF CInit, Frames
<1>3. DOMAIN <<>> = {} /\ 0..(0 - 1) = {}
  OBVIOUS
<1> QED
  BY <1>1, <1>2, <1>3 DEF ClientInv, AnchoredInv, Numbered, Complete, Paired

(* What the recording keeps of a few samples is their beginning, all of it *)
(* if nothing is dropped.                                                  *)
LEMMA KeptIsABeginning ==
  ASSUME ClientTypeOK, NEW samples \in Seq(Sample), Recorded(samples)
  PROVE  \E v \in Seq(Sample) :
           /\ trace' = trace \o v /\ Len(v) <= Len(samples)
           /\ \A i \in DOMAIN v : i \in DOMAIN samples /\ v[i] = samples[i]
           /\ trace' \in Seq(Sample) /\ Len(trace') <= MAX_SAMPLES /\ dropped' \in Nat
           /\ dropped' = 0 => dropped = 0 /\ v = samples
<1> DEFINE room == MAX_SAMPLES - Len(trace)
           kept == IF Len(samples) <= room THEN Len(samples) ELSE room
           v == SubSeq(samples, 1, kept)
<1>1. /\ trace' = trace \o v /\ dropped' = dropped + (Len(samples) - kept)
      /\ trace \in Seq(Sample) /\ dropped \in Nat /\ Len(trace) <= MAX_SAMPLES
      /\ Len(trace) \in Nat /\ Len(samples) \in Nat /\ MAX_SAMPLES \in Nat
      /\ DOMAIN samples = 1..Len(samples)
  BY ClientAssumption, LenProperties DEF Recorded, ClientTypeOK
<1>2. kept \in 0..Len(samples) /\ kept <= room /\ kept \in Int
  BY <1>1
<1> HIDE DEF kept
<1>3. v \in Seq(Sample) /\ Len(v) = kept /\ DOMAIN v = 1..kept
      /\ \A i \in 1..kept : v[i] = samples[i]
  <2>1. \A i \in 1..kept : samples[i] \in Sample
    BY <1>1, <1>2
  <2>2. /\ v \in Seq(Sample) /\ Len(v) = IF 1 <= kept THEN kept - 1 + 1 ELSE 0
        /\ \A i \in 1..(kept - 1 + 1) : v[i] = samples[1 + i - 1]
    BY <1>2, <2>1, SubSeqProperties
  <2> HIDE DEF v
  <2>3. Len(v) = kept /\ DOMAIN v = 1..Len(v)
    BY <1>2, <2>2, LenProperties
  <2> QED
    BY <1>2, <2>2, <2>3
<1>4. dropped' \in Nat /\ (dropped' = 0 => dropped = 0 /\ kept = Len(samples))
  <2>1. PICK l \in Nat, d \in Nat, k \in Int : l = Len(samples) /\ d = dropped /\ k = kept
    BY <1>1, <1>2
  <2>2. k \in 0..l /\ dropped' = d + (l - k)
    BY <1>1, <1>2, <2>1
  <2>3. d + (l - k) \in Nat /\ (d + (l - k) = 0 => d = 0 /\ k = l)
    BY <2>2
  <2> QED
    BY <2>1, <2>2, <2>3
<1>5. kept = Len(samples) => v = samples
  BY SubSeqFull
<1> HIDE DEF v
<1>6. trace' \in Seq(Sample) /\ Len(trace') = Len(trace) + kept
  BY <1>1, <1>3, ConcatProperties
<1>7. Len(trace') <= MAX_SAMPLES
  BY <1>1, <1>2, <1>6
<1>8. /\ trace' = trace \o v /\ Len(v) <= Len(samples)
      /\ \A i \in DOMAIN v : i \in DOMAIN samples /\ v[i] = samples[i]
  <2>1. \A i \in 1..kept : i \in 1..Len(samples)
    BY <1>1, <1>2
  <2> QED
    BY <1>1, <1>2, <1>3, <2>1
<1>9. dropped' = 0 => dropped = 0 /\ v = samples
  BY <1>4, <1>5
<1> QED
  BY <1>3, <1>4, <1>6, <1>7, <1>8, <1>9

(* What leaves is laid after what left.                                    *)
LEMMA FramesGoOn ==
  ASSUME ClientTypeOK, NEW fs \in Seq(AFrame), outbox' = outbox \o fs, heard' = heard
  PROVE  Frames' = Frames \o fs /\ Frames \in Seq(AFrame) /\ outbox' \in Seq(AFrame)
<1>1. Frames \in Seq(AFrame) /\ outbox \o fs \in Seq(AFrame)
  BY ConcatProperties DEF Frames, ClientTypeOK
<1>2. (heard \o outbox) \o fs = heard \o (outbox \o fs)
  BY ConcatAssociative, SMTT(40) DEF ClientTypeOK
<1> QED
  BY <1>1, <1>2 DEF Frames

(* A step that records no answer and sends no intention.                   *)
LEMMA NothingAnswered ==
  ASSUME ClientInv, NEW samples \in Seq(Sample), NEW fs \in Seq(AFrame),
         \A j \in DOMAIN samples : samples[j].kind # "Viewed",
         \A j \in DOMAIN fs : fs[j].kind # "Input",
         Recorded(samples) \/ (samples = <<>> /\ UNCHANGED <<trace, dropped>>),
         outbox' = outbox \o fs, heard' = heard, seq' = seq,
         outcome' = "none" => outcome = "none"
  PROVE  /\ AnchoredInv' /\ trace' \in Seq(Sample) /\ Len(trace') <= MAX_SAMPLES
         /\ dropped' \in Nat /\ outbox' \in Seq(AFrame)
<1>1. PICK v \in Seq(Sample) :
           /\ trace' = trace \o v /\ \A i \in DOMAIN v : v[i].kind # "Viewed"
           /\ trace' \in Seq(Sample) /\ Len(trace') <= MAX_SAMPLES /\ dropped' \in Nat
           /\ dropped' = 0 => dropped = 0
  <2>1. CASE Recorded(samples)
    <3>1. PICK v \in Seq(Sample) :
           /\ trace' = trace \o v /\ Len(v) <= Len(samples)
           /\ \A i \in DOMAIN v : i \in DOMAIN samples /\ v[i] = samples[i]
           /\ trace' \in Seq(Sample) /\ Len(trace') <= MAX_SAMPLES /\ dropped' \in Nat
           /\ dropped' = 0 => dropped = 0 /\ v = samples
      BY <2>1, KeptIsABeginning DEF ClientInv
    <3> QED
      BY <3>1
  <2>2. CASE samples = <<>> /\ UNCHANGED <<trace, dropped>>
    <3>1. trace \o <<>> = trace /\ <<>> \in Seq(Sample) /\ DOMAIN <<>> = {}
      BY ConcatEmptySeq, EmptySeq DEF ClientInv, ClientTypeOK
    <3> QED
      BY <2>2, <3>1 DEF ClientInv, ClientTypeOK
  <2> QED
    BY <2>1, <2>2
<1>2. Frames' = Frames \o fs /\ Frames \in Seq(AFrame) /\ outbox' \in Seq(AFrame)
  BY FramesGoOn DEF ClientInv
<1>3. seq \in Nat /\ trace \in Seq(Sample)
  BY DEF ClientInv, ClientTypeOK
<1>4. Numbered(Frames', "Input", seq') /\ Numbered(trace', "Viewed", seq')
  BY <1>1, <1>2, <1>3, OthersDoNotCount DEF ClientInv, AnchoredInv
<1>5. dropped' = 0 => Complete(trace', "Viewed", seq')
  BY <1>1, <1>3, OthersDoNotCount DEF ClientInv, AnchoredInv
<1>6. outcome' = "none" => Complete(Frames', "Input", seq')
  BY <1>2, <1>3, OthersDoNotCount DEF ClientInv, AnchoredInv
<1>7. dropped' = 0 => Paired(Frames', trace')
  BY <1>1, <1>2, <1>3, PairsGoOn DEF ClientInv, AnchoredInv
<1> QED
  BY <1>1, <1>2, <1>4, <1>5, <1>6, <1>7 DEF AnchoredInv

LEMMA NothingRecorded ==
  ASSUME ClientInv, Frames' = Frames, UNCHANGED <<trace, dropped, seq>>,
         outcome' = "none" => outcome = "none"
  PROVE  AnchoredInv'
BY DEF ClientInv, AnchoredInv

(* Numbers below n are below what is not less.                             *)
LEMMA MoreNumbers ==
  ASSUME NEW s, NEW kind, NEW n \in Nat, NEW m \in Nat, n <= m, Numbered(s, kind, n)
  PROVE  Numbered(s, kind, m)
BY DEF Numbered

(* A wake: the samples of the drain are recorded and its frames sent.      *)
LEMMA WakeAnchors ==
  ASSUME ClientInv, UserEvent
  PROVE  ClientInv'
<1> DEFINE d == Advanced
<1>1. d \in Drains
  BY AdvanceDrains DEF ClientInv
<1>2. /\ view' = d.view /\ seq' = d.seq /\ once' = d.once /\ outbox' = outbox \o d.frames
      /\ Recorded(d.samples) /\ mailbox' = <<>> /\ outcome' \in {d.outcome, "Over"}
      /\ UNCHANGED <<standing, sent, heard>>
  BY DEF UserEvent
<1> HIDE DEF d
<1>3. /\ KeepsPace(d) /\ ClientTypeOK /\ seq \in Nat
      /\ d.view \in Nat /\ d.seq \in Nat /\ seq <= d.seq /\ d.once \in BOOLEAN
      /\ d.samples \in Seq(Sample) /\ Len(d.samples) = d.seq - seq
      /\ d.frames \in Seq(AFrame) /\ Len(d.frames) <= Len(d.samples)
      /\ d.outcome \in {"none", "Over", "Failed"}
      /\ d.outcome = "none" => outcome = "none" /\ Len(d.frames) = Len(d.samples)
  BY <1>1 DEF Drains, KeepsPace, ClientInv, ClientTypeOK
<1>4. PICK v \in Seq(Sample) :
           /\ trace' = trace \o v /\ Len(v) <= Len(d.samples)
           /\ \A i \in DOMAIN v : i \in DOMAIN d.samples /\ v[i] = d.samples[i]
           /\ trace' \in Seq(Sample) /\ Len(trace') <= MAX_SAMPLES /\ dropped' \in Nat
           /\ dropped' = 0 => dropped = 0 /\ v = d.samples
  BY <1>2, <1>3, KeptIsABeginning
<1>5. Frames' = Frames \o d.frames /\ Frames \in Seq(AFrame) /\ outbox' \in Seq(AFrame)
  BY <1>2, <1>3, FramesGoOn
<1>6. /\ DOMAIN d.samples = 1..Len(d.samples) /\ DOMAIN d.frames = 1..Len(d.frames)
      /\ Len(d.samples) \in Nat /\ Len(d.frames) \in Nat /\ Len(v) \in Nat
      /\ \A i \in DOMAIN d.frames : i \in DOMAIN d.samples /\ i <= Len(d.frames)
  BY <1>3, LenProperties
<1>7. ClientTypeOK'
  <2>1. mailbox' \in Seq(Nat)
    BY <1>2, EmptySeq
  <2> QED
    BY <1>2, <1>3, <1>4, <1>5, <2>1 DEF ClientTypeOK
<1>8. \A i \in DOMAIN v : v[i].kind = "Viewed" /\ v[i].seq = seq + i - 1
  BY <1>3, <1>4, <1>6 DEF KeepsPace
<1>9. \A i \in DOMAIN d.frames :
        /\ d.frames[i].kind = "Input" /\ d.frames[i].seq = seq + i - 1
        /\ d.samples[i] = Viewed(d.frames[i].view, d.frames[i].seq)
  BY <1>3, <1>6 DEF KeepsPace
<1>10. Numbered(Frames', "Input", seq')
  <2>1. Numbered(Frames \o d.frames, "Input", seq + Len(d.frames))
    BY <1>3, <1>5, <1>9, NumbersGoOn DEF ClientInv, AnchoredInv
  <2>2. seq + Len(d.frames) \in Nat /\ seq + Len(d.frames) <= d.seq
    BY <1>3, <1>6
  <2> QED
    BY <1>2, <1>3, <1>5, <2>1, <2>2, MoreNumbers
<1>11. trace \in Seq(Sample) /\ Numbered(trace, "Viewed", seq)
  BY <1>3 DEF ClientInv, AnchoredInv, ClientTypeOK
<1>12. Numbered(trace', "Viewed", seq')
  <2>1. Numbered(trace \o v, "Viewed", seq + Len(v))
    BY <1>3, <1>8, <1>11, NumbersGoOn
  <2>2. seq + Len(v) \in Nat /\ seq + Len(v) <= d.seq
    BY <1>3, <1>4, <1>6
  <2> QED
    BY <1>2, <1>3, <1>4, <2>1, <2>2, MoreNumbers
<1>13. ASSUME dropped' = 0 PROVE Paired(Frames', trace') /\ Complete(trace', "Viewed", seq')
  <2>1. dropped = 0 /\ v = d.samples
    BY <1>4, <1>13
  <2>2. Paired(Frames, trace) /\ Complete(trace, "Viewed", seq)
    BY <2>1 DEF ClientInv, AnchoredInv
  <2>3. Complete(trace \o v, "Viewed", seq + Len(v))
    BY <1>3, <1>8, <1>11, <2>2, NumbersGoOn
  <2>4. seq + Len(v) = d.seq
    BY <1>3, <1>6, <2>1, SMTT(40)
  <2>5. \A j \in DOMAIN d.frames : d.frames[j].kind = "Input" =>
           \E k \in DOMAIN v : v[k] = Viewed(d.frames[j].view, d.frames[j].seq)
    BY <1>6, <1>9, <2>1
  <2>6. Paired(Frames \o d.frames, trace \o v)
    BY <1>3, <1>5, <1>11, <2>2, <2>5, PairsGoOn
  <2> QED
    BY <1>2, <1>4, <1>5, <2>3, <2>4, <2>6
<1>14. ASSUME outcome' = "none" PROVE Complete(Frames', "Input", seq')
  <2>1. outcome = "none" /\ Len(d.frames) = Len(d.samples)
    BY <1>2, <1>3, <1>14
  <2>2. Complete(Frames, "Input", seq) /\ Numbered(Frames, "Input", seq)
    BY <2>1 DEF ClientInv, AnchoredInv
  <2>3. Complete(Frames \o d.frames, "Input", seq + Len(d.frames))
    BY <1>3, <1>5, <1>9, <2>2, NumbersGoOn
  <2>4. seq + Len(d.frames) = d.seq
    BY <1>3, <1>6, <2>1
  <2> QED
    BY <1>2, <1>5, <2>3, <2>4
<1> QED
  BY <1>7, <1>10, <1>12, <1>13, <1>14 DEF ClientInv, AnchoredInv

(* The hand records what it does to the controls, and sends no intention.  *)
LEMMA HandAnchors ==
  ASSUME ClientInv, Hand
  PROVE  ClientInv'
<1>1. /\ outbox \in Seq(AFrame) /\ outbox \o <<>> = outbox /\ <<>> \in Seq(AFrame)
      /\ <<>> \in Seq(Sample) /\ DOMAIN <<>> = {} /\ ClientTypeOK
  BY ConcatEmptySeq, EmptySeq DEF ClientInv, ClientTypeOK
<1>2. ASSUME NEW down \in BOOLEAN
      PROVE  /\ <<Pressed(down)>> \in Seq(Sample)
             /\ \A j \in DOMAIN <<Pressed(down)>> : <<Pressed(down)>>[j].kind # "Viewed"
  BY DEF Pressed, Sample
<1>3. ASSUME NEW f \in {ReadyFrame, SurrenderFrame}
      PROVE  /\ <<f>> \in Seq(AFrame) /\ \A j \in DOMAIN <<f>> : <<f>>[j].kind # "Input"
             /\ Append(outbox, f) = outbox \o <<f>>
  <2>1. f \in AFrame /\ f.kind # "Input"
    BY DEF ReadyFrame, SurrenderFrame, AFrame
  <2> QED
    BY <1>1, <2>1, AppendIsConcat
<1>4. \A o : FirstReason(o) = "none" => o = "none"
  BY DEF FirstReason
<1>5. CASE LobbyRelease \/ (\E element \in Waypoints : Visit(element))
           \/ (\E down \in BOOLEAN : PressInMatch(down))
  <2>1. PICK down \in BOOLEAN : Recorded(<<Pressed(down)>>)
    BY <1>5 DEF LobbyRelease, Visit, PressInMatch
  <2>2. /\ standing' \in Orders /\ once' \in BOOLEAN
        /\ UNCHANGED <<view, seq, mailbox, sent, heard, outbox, outcome>>
    BY <1>1, <1>5 DEF LobbyRelease, Visit, PressInMatch, task, ClientTypeOK
  <2>3. /\ AnchoredInv' /\ trace' \in Seq(Sample) /\ Len(trace') <= MAX_SAMPLES
        /\ dropped' \in Nat /\ outbox' \in Seq(AFrame)
    BY <1>1, <1>2, <2>1, <2>2, NothingAnswered
  <2> QED
    BY <1>1, <2>2, <2>3 DEF ClientInv, ClientTypeOK
<1>6. CASE ClickReady
  <2>1. /\ Recorded(<<Pressed(TRUE)>>) /\ UNCHANGED <<view, seq, standing, once, mailbox, sent, heard>>
        /\ outcome' \in {outcome, FirstReason("Over")}
        /\ outbox' = outbox \/ outbox' = Append(outbox, ReadyFrame)
    BY <1>6 DEF ClickReady
  <2>2. PICK fs \in Seq(AFrame) : outbox' = outbox \o fs /\ \A j \in DOMAIN fs : fs[j].kind # "Input"
    BY <1>1, <1>3, <2>1
  <2>3. outcome' \in {"none", "Over", "Failed"} /\ (outcome' = "none" => outcome = "none")
    BY <1>1, <2>1 DEF FirstReason, ClientTypeOK
  <2>4. /\ AnchoredInv' /\ trace' \in Seq(Sample) /\ Len(trace') <= MAX_SAMPLES
        /\ dropped' \in Nat /\ outbox' \in Seq(AFrame)
    BY <1>1, <1>2, <2>1, <2>2, <2>3, NothingAnswered
  <2> QED
    BY <1>1, <2>1, <2>3, <2>4 DEF ClientInv, ClientTypeOK
<1>7. CASE \E down \in BOOLEAN : PressUnseen(down)
  <2>1. UNCHANGED <<loop, task, outcome>>
    BY <1>7 DEF PressUnseen
  <2> QED
    BY <2>1, NothingRecorded DEF ClientInv, ClientTypeOK, loop, task, Frames
<1>8. CASE Surrender \/ NoScreen
  <2>1. /\ UNCHANGED <<trace, dropped, view, seq, standing, once, mailbox, sent, heard>>
        /\ outcome' \in {"Failed", FirstReason("Over")}
        /\ outbox' = outbox \/ outbox' = Append(outbox, SurrenderFrame)
    BY <1>8 DEF Surrender, NoScreen, loop, task
  <2>2. PICK fs \in Seq(AFrame) : outbox' = outbox \o fs /\ \A j \in DOMAIN fs : fs[j].kind # "Input"
    BY <1>1, <1>3, <2>1
  <2>3. outcome' \in {"none", "Over", "Failed"} /\ (outcome' = "none" => outcome = "none")
    BY <1>1, <2>1 DEF FirstReason, ClientTypeOK
  <2>4. AnchoredInv' /\ outbox' \in Seq(AFrame)
    BY <1>1, <2>1, <2>2, <2>3, NothingAnswered
  <2> QED
    BY <1>1, <2>1, <2>3, <2>4 DEF ClientInv, ClientTypeOK
<1> QED
  BY <1>5, <1>6, <1>7, <1>8 DEF Hand

(* The rest of the process, and the net task: what is sent has left.       *)
LEMMA RestAnchors ==
  ASSUME ClientInv,
         \/ LoopEnds \/ WriteSession \/ WriteTelemetry \/ Return
         \/ Transmit \/ TaskEnds \/ Cut \/ \E t \in {sent + 1, Bad} : Receive(t)
  PROVE  ClientInv'
<1>1. CASE LoopEnds \/ WriteSession \/ WriteTelemetry \/ Return \/ TaskEnds \/ Cut
  <2>1. UNCHANGED <<loop, mailbox, outbox, sent, heard, outcome>>
    BY <1>1 DEF LoopEnds, WriteSession, WriteTelemetry, Return, TaskEnds, Cut, task
  <2> QED
    BY <2>1, NothingRecorded DEF ClientInv, ClientTypeOK, loop, Frames
<1>2. CASE \E t \in {sent + 1, Bad} : Receive(t)
  <2>1. PICK t \in {sent + 1, Bad} : mailbox' = Append(mailbox, t) /\ sent' = sent + 1
    BY <1>2 DEF Receive
  <2>2. UNCHANGED <<loop, outbox, heard, outcome>>
    BY <1>2 DEF Receive
  <2>3. sent' \in Nat /\ t \in Nat /\ mailbox \in Seq(Nat)
    BY <2>1 DEF ClientInv, ClientTypeOK, Bad
  <2>4. mailbox' \in Seq(Nat)
    BY <2>1, <2>3, AppendProperties
  <2> QED
    BY <2>2, <2>3, <2>4, NothingRecorded DEF ClientInv, ClientTypeOK, loop, Frames
<1>3. CASE Transmit
  <2>1. /\ outbox # <<>> /\ heard' = Append(heard, Head(outbox)) /\ outbox' = Tail(outbox)
        /\ UNCHANGED <<loop, mailbox, sent, outcome>>
    BY <1>3 DEF Transmit
  <2>2. heard \in Seq(AFrame) /\ outbox \in Seq(AFrame)
    BY DEF ClientInv, ClientTypeOK
  <2>3. /\ Head(outbox) \in AFrame /\ Tail(outbox) \in Seq(AFrame)
        /\ heard' \in Seq(AFrame) /\ <<Head(outbox)>> \in Seq(AFrame)
    BY <2>1, <2>2, HeadTailProperties, AppendProperties
  <2>4. outbox = <<Head(outbox)>> \o Tail(outbox)
    BY <2>1, <2>2
  <2>5. heard' = heard \o <<Head(outbox)>>
    BY <2>1, <2>2, <2>3, AppendIsConcat
  <2>6. Frames' = Frames
    BY <2>1, <2>2, <2>3, <2>4, <2>5, ConcatAssociative DEF Frames
  <2> QED
    BY <2>1, <2>3, <2>6, NothingRecorded DEF ClientInv, ClientTypeOK, loop
<1> QED
  BY <1>1, <1>2, <1>3

(* Whatever the player does and whenever the connection goes, what was     *)
(* sent is anchored in the recording.                                      *)
THEOREM IntentionsAreAnchored == CSpec => []EveryIntentionIsAnchored
<1>1. ClientInv /\ [CNext]_cvars => ClientInv'
  <2> SUFFICES ASSUME ClientInv, [CNext]_cvars PROVE ClientInv'
    OBVIOUS
  <2>1. CASE UNCHANGED cvars
    BY <2>1, NothingRecorded DEF ClientInv, ClientTypeOK, Frames, cvars, loop, task
  <2>2. CASE CNext
    BY <2>2, WakeAnchors, HandAnchors, RestAnchors DEF CNext
  <2> QED
    BY <2>1, <2>2
<1>2. ClientInv => EveryIntentionIsAnchored
  <2> SUFFICES ASSUME ClientInv PROVE EveryIntentionIsAnchored
    OBVIOUS
  <2>1. ASSUME NEW T, NEW s \in Seq(T), NEW kind, Numbered(s, kind, seq), Complete(s, kind, seq)
        PROVE  {s[i].seq : i \in {j \in DOMAIN s : s[j].kind = kind}} = 0..(seq - 1)
    BY <2>1 DEF Numbered, Complete
  <2>2. Frames \in Seq(AFrame) /\ trace \in Seq(Sample)
    BY ConcatProperties DEF ClientInv, ClientTypeOK, Frames
  <2>3. Numbered(Frames, "Input", seq) /\ Numbered(trace, "Viewed", seq)
    BY DEF ClientInv, AnchoredInv
  <2>4. /\ \A i, j \in Intentions : i < j => Frames[i].seq < Frames[j].seq
        /\ \A k, l \in Anchors : k < l => trace[k].seq < trace[l].seq
    BY <2>3 DEF Numbered, Intentions, Anchors
  <2>5. outcome = "none" => {Frames[i].seq : i \in Intentions} = 0..(seq - 1)
    BY <2>1, <2>2, <2>3 DEF ClientInv, AnchoredInv, Intentions
  <2>6. dropped = 0 => {trace[k].seq : k \in Anchors} = 0..(seq - 1)
    BY <2>1, <2>2, <2>3 DEF ClientInv, AnchoredInv, Anchors
  <2>7. dropped = 0 => \A i \in Intentions :
            \E k \in Anchors : trace[k] = Viewed(Frames[i].view, Frames[i].seq)
    BY DEF ClientInv, AnchoredInv, Paired, Intentions, Anchors, Viewed
  <2> QED
    BY <2>4, <2>5, <2>6, <2>7 DEF EveryIntentionIsAnchored
<1> QED
  BY <1>1, <1>2, ClientStarts, PTL DEF CSpec
=============================================================================
