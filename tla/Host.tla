-------------------------------- MODULE Host --------------------------------
(***************************************************************************)
(* The host loop of server/src/net.rs around the authority: an accept task *)
(* and one read task per session feed a bounded channel; a single loop     *)
(* takes an event or a tick, whichever the runtime picks, and owns both    *)
(* the match and the wires.                                                *)
(*                                                                         *)
(* The tasks interleave; the authority's calls do not, because only the    *)
(* loop makes them.  QUIC is external: a stream delivers in order until    *)
(* the peer is gone, a write to a peer that is gone may fail or may only   *)
(* fill a buffer.  What happens to the datagrams is StateChannel.tla.      *)
(***************************************************************************)
EXTENDS Match

CONSTANTS
  Conns,     \* connections that may be made
  CHANNEL,   \* capacity of the event channel: 256
  STREAM,    \* bound: frames one connection has written and nobody has read
  Hostile,   \* connections whose client may send anything a client can
  NoConn, NoSeat

ASSUME HostConstants ==
  /\ CHANNEL \in Nat \ {0}
  /\ STREAM \in Nat \ {0}
  /\ Hostile \subseteq Conns
  /\ NoConn \notin Conns
  /\ NoSeat \notin Seats

VARIABLES
  hosting,   \* "running", "over" or "failed": where host() is
  ran,       \* the loop's own count of ticks
  inbox,     \* the event channel
  wires,     \* seat -> connection frames are sent to, or NoConn
  reader,    \* connection -> seat its read task reports under, or NoSeat
  peer,      \* connection -> "new", "open" or "gone": the client's end
  stream,    \* connection -> frames written by the client, not yet read
  told,      \* connection -> the answer it was given, or "nothing"
  owner,     \* history: seat -> connection last granted it, or NoConn
  left,      \* history: connections whose client has written Surrender
  ended,     \* history: connections a violation was answered for
  late       \* history: those with an input accepted afterwards

hostVars == <<hosting, ran, inbox, wires, reader, peer, stream, told,
              owner, left, ended, late>>
allVars  == <<vars, hostVars>>

-----------------------------------------------------------------------------

(* `conn' on a frame or a closure is history: the code's event names only  *)
(* the seat the read task was started for.                                 *)
Arrived(c)     == [kind |-> "Arrived", conn |-> c]
FrameOfSeatZero(c, s, m) ==     \* mutant: every reader reports under seat 0
  [kind |-> "Frame", conn |-> c, seat |-> 0, msg |-> m]
Frame(c, s, m) == [kind |-> "Frame", conn |-> c, seat |-> s, msg |-> m]
Closed(c, s)   == [kind |-> "Closed", conn |-> c, seat |-> s]

Room == Len(inbox) < CHANNEL

HostInit ==
  /\ Init
  /\ hosting = "running"
  /\ ran     = 0
  /\ inbox   = <<>>
  /\ wires   = [s \in Seats |-> NoConn]
  /\ reader  = [c \in Conns |-> NoSeat]
  /\ peer    = [c \in Conns |-> "new"]
  /\ stream  = [c \in Conns |-> <<>>]
  /\ told    = [c \in Conns |-> "nothing"]
  /\ owner   = [s \in Seats |-> NoConn]
  /\ left    = {}
  /\ ended   = {}
  /\ late    = {}

(* The client's end (external).  A seated client readies, plays and may    *)
(* leave; leaving is the last thing an honest one says.                    *)
Says(c) ==
  IF c \in Hostile THEN ClientMessage
  ELSE {m \in ClientMessage : m.kind \in {"Ready", "Input", "Surrender"} /\ c \notin left}

ClientWrites(c) ==
  /\ peer[c] = "open" /\ told[c] = "Accepted"
  /\ Len(stream[c]) < STREAM
  /\ \E m \in Says(c) :
       /\ stream' = [stream EXCEPT ![c] = Append(@, m)]
       /\ left'   = IF m.kind = "Surrender" THEN left \cup {c} ELSE left
  /\ UNCHANGED <<vars, hosting, ran, inbox, wires, reader, peer, told,
                 owner, ended, late>>

(* The client closes, crashes or is unplugged past the idle timeout; what  *)
(* it had written may or may not still be readable.                           *)
ClientGoes(c) ==
  /\ peer[c] = "open"
  /\ peer' = [peer EXCEPT ![c] = "gone"]
  /\ stream' \in {stream, [stream EXCEPT ![c] = <<>>]}
  /\ UNCHANGED <<vars, hosting, ran, inbox, wires, reader, told,
                 owner, left, ended, late>>

(* accept_loop: an opening that is a Join, queued as an arrival.           *)
Accept(c) ==
  /\ hosting = "running" /\ peer[c] = "new" /\ Room
  /\ peer'  = [peer EXCEPT ![c] = "open"]
  /\ inbox' = Append(inbox, Arrived(c))
  /\ UNCHANGED <<vars, hosting, ran, wires, reader, stream, told,
                 owner, left, ended, late>>

(* read_loop: one frame, or the end of the stream and then nothing more.   *)
ReadFrame(c) ==
  /\ hosting = "running" /\ Room
  /\ reader[c] # NoSeat /\ stream[c] # <<>>
  /\ inbox'  = Append(inbox, Frame(c, reader[c], Head(stream[c])))
  /\ stream' = [stream EXCEPT ![c] = Tail(@)]
  /\ UNCHANGED <<vars, hosting, ran, wires, reader, peer, told,
                 owner, left, ended, late>>

ReadEnd(c) ==
  /\ hosting = "running" /\ Room
  /\ reader[c] # NoSeat /\ stream[c] = <<>> /\ peer[c] = "gone"
  /\ inbox'  = Append(inbox, Closed(c, reader[c]))
  /\ reader' = [reader EXCEPT ![c] = NoSeat]
  /\ UNCHANGED <<vars, hosting, ran, wires, peer, stream, told,
                 owner, left, ended, late>>

-----------------------------------------------------------------------------
(* The loop.  Each branch takes the head of the channel.                   *)

Takes(kind) ==
  /\ hosting = "running"
  /\ inbox # <<>> /\ Head(inbox).kind = kind
  /\ inbox' = Tail(inbox)

(* Arrived, and the authority has a seat: wire it and start its reader.    *)
WiredUnlessWired(s, c) ==      \* mutant: the wire of an earlier session stays
  IF wires[s] = NoConn THEN [wires EXCEPT ![s] = c] ELSE wires
Wired(s, c) == [wires EXCEPT ![s] = c]

GrantSeat ==
  /\ Takes("Arrived")
  /\ Join
  /\ LET c == Head(inbox).conn
         s == LowestFree
     IN  /\ wires'  = Wired(s, c)
         /\ reader' = [reader EXCEPT ![c] = s]
         /\ told'   = [told EXCEPT ![c] = "Accepted"]
         /\ owner'  = [owner EXCEPT ![s] = c]
  /\ UNCHANGED <<hosting, ran, peer, stream, left, ended, late>>

(* Arrived, and it has none: say why and drop the connection.              *)
RefuseSeat ==
  /\ Takes("Arrived")
  /\ JoinRefused
  /\ LET c == Head(inbox).conn
     IN  /\ told' = [told EXCEPT ![c] = JoinAnswer]
         /\ peer' = [peer EXCEPT ![c] = "gone"]
  /\ UNCHANGED <<hosting, ran, wires, reader, stream, owner, left, ended, late>>

(* Arrived, but the answer cannot be written: the whole host gives up.     *)
HandshakeFails ==
  /\ Takes("Arrived")
  /\ peer[Head(inbox).conn] = "gone"
  /\ Join \/ JoinRefused
  /\ hosting' = "failed"
  /\ UNCHANGED <<ran, wires, reader, peer, stream, told, owner, left,
                 ended, late>>

(* Frame: deliver under the seat the event names; a frame that is not one, *)
(* or out of order, costs the seat its wire.                               *)
CutsWire(verdict) == verdict \in {"Frame", "OutOfOrder"}

HandleFrame ==
  /\ Takes("Frame")
  /\ LET e == Head(inbox)
         v == Verdict(e.seat, e.msg)
     IN  /\ Deliver(e.seat, e.msg)
         /\ wires' = IF CutsWire(v) THEN [wires EXCEPT ![e.seat] = NoConn] ELSE wires
         /\ ended' = IF CutsWire(v) THEN ended \cup {e.conn} ELSE ended
         /\ late'  = IF e.conn \in ended /\ accepted' # accepted
                       THEN late \cup {e.conn} ELSE late
  /\ UNCHANGED <<hosting, ran, reader, peer, stream, told, owner, left>>

(* Closed: the wire of that seat goes; the authority is not told.          *)
HandleClosed ==
  /\ Takes("Closed")
  /\ wires' = [wires EXCEPT ![Head(inbox).seat] = NoConn]
  /\ UNCHANGED <<vars, hosting, ran, reader, peer, stream, told,
                 owner, left, ended, late>>

(* The ticker: an empty tick before the start does not count, every other  *)
(* one does; after the last the host closes.                               *)
CountsFrames == DOMAIN frames' # {}     \* mutant: no look at game.started()
Counts       == DOMAIN frames' # {} \/ started'

TickerFires ==
  /\ hosting = "running"
  /\ Tick
  /\ ran' = IF Counts THEN ran + 1 ELSE ran
  /\ hosting' = IF ran' < MaxTicks THEN "running" ELSE "over"
  /\ UNCHANGED <<inbox, wires, reader, peer, stream, told, owner, left,
                 ended, late>>

HandleEvent ==
  GrantSeat \/ RefuseSeat \/ HandshakeFails \/ HandleFrame \/ HandleClosed

Client(c) == ClientWrites(c) \/ ClientGoes(c)

Tasks(c) == Accept(c) \/ ReadFrame(c) \/ ReadEnd(c)

HostNext ==
  \/ \E c \in Conns : Client(c) \/ Tasks(c)
  \/ HandleEvent
  \/ TickerFires

HostSpec == HostInit /\ [][HostNext]_allVars

(* The loop is polled and `select!' picks among ready branches at random,  *)
(* so neither branch starves; the tasks run on the same runtime.  Clients  *)
(* owe nothing.                                                            *)
HostFairness ==
  /\ WF_allVars(HandleEvent)
  /\ WF_allVars(TickerFires)

HostLiveSpec == HostSpec /\ HostFairness

-----------------------------------------------------------------------------
(* What the loop has to get right.                                         *)

(* A frame goes only to the connection its session was granted to: over    *)
(* seats that change hands in the lobby, over violations and over late     *)
(* closures, a seat in use is wired to its owner or to nobody, and nobody  *)
(* is wired twice.  net.rs: wires, Event::Arrived.                         *)
FramesReachTheirOwner ==
  /\ \A s \in Occupied : wires[s] \in {owner[s], NoConn}
  /\ \A r, s \in Seats : r # s /\ wires[r] # NoConn => wires[r] # wires[s]

(* With clients that stop talking once they leave, everything delivered    *)
(* under a seat in use was said by its owner, although the event that      *)
(* carries it names only the seat.  net.rs: read_loop; lib.rs:36.          *)
SeatSpeaksForItsOwner ==
  [][\A s \in Seats :
       accepted'[s] # accepted[s] /\ accepted'[s] # {} =>
         Head(inbox).conn = owner[s]]_allVars

(* A match that has begun ends, whoever crashes, surrenders or floods.     *)
(* net.rs: the loop counts a tick whatever it carries.                     *)
BegunMatchEnds == started ~> hosting # "running"

(* Every tick the loop counts leaves in the log all that the sessions still *)
(* seated had accepted before it, whatever came through the channel since:  *)
(* nothing accepted waits for a second tick.  And what it counts are the    *)
(* authority's ticks, those of a match everybody has left among them.       *)
(* lib.rs: tick(), the drain; net.rs: `if frames.is_empty() && ...'.        *)
AcceptedIsRecorded ==
  [][/\ ran' = ticks_run'
     /\ ran' > ran => \A s \in Occupied : accepted[s] \subseteq Logged(s)']_allVars

(* net.rs:123: "what ten minutes actually bounds is how long a crashed or  *)
(* unplugged client holds a seat".  In the lobby, once the closure has     *)
(* been handled, the seat should be free.                                  *)
Reaped(c) ==
  /\ told[c] = "Accepted" /\ reader[c] = NoSeat
  /\ ~ \E i \in DOMAIN inbox : inbox[i].kind = "Closed" /\ inbox[i].conn = c

CrashedClientLosesItsSeat ==
  hosting = "running" /\ ~started =>
    \A c \in Conns : Reaped(c) => \A s \in Occupied : owner[s] # c

(* net.rs:428: "There is no benign explanation, so the session ends."      *)
(* Nothing such a session says afterwards should reach the match.          *)
EndedSessionIsOver == late = {}

(* net.rs:341: "one frame per player per period, whatever happened".  A    *)
(* player who is connected, seated and well behaved should have its wire.  *)
ConnectedPlayerIsWired ==
  hosting = "running" => \A s \in Occupied :
    LET c == owner[s]
    IN  peer[c] = "open" /\ c \notin ended => wires[s] = c
=============================================================================
