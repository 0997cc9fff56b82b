---------------------------- MODULE StateChannel ----------------------------
(***************************************************************************)
(* How a session learns the world: the server's Wire cuts a frame into     *)
(* shards and sends each as a datagram (server/src/net.rs), the client's   *)
(* ShardAssembler puts them together (protocol/src/frame.rs), and Headless *)
(* folds the view in with its acknowledgement (client/src/lib.rs).         *)
(*                                                                         *)
(* Datagrams are external: they are lost, repeated and reordered.  A frame *)
(* is its tick and the acknowledgement it carries; what the view shows is  *)
(* a function of the tick.                                                 *)
(***************************************************************************)
EXTENDS Integers, Sequences, FiniteSets

CONSTANTS
  SERVER_SHARDS,  \* two in the code
  COUNTER_MAX,    \* where a u32 counter saturates
  MaxFrames,      \* bound: frames the server sends; far below u32::MAX
  MaxAck          \* bound: the largest sequence number acknowledged

ASSUME ChannelConstants ==
  /\ SERVER_SHARDS \in Nat \ {0}
  /\ COUNTER_MAX \in Nat
  /\ MaxFrames \in Nat
  /\ MaxAck \in Nat

VARIABLES
  emitted,          \* frames sent, the n-th under sequence n - 1
  flight,           \* shards in flight
  building, present, delivered, buffer, incomplete, stale,  \* ShardAssembler
  handed,           \* history: frames the assembler gave out, in order
  world,            \* the frame the client's world is made of, or NoWorld
  applied_through,  \* Headless.applied_through
  discarded,        \* Headless.stale: views discarded as old
  arrived,          \* history: shards the assembler was given
  timely            \* history: those given it before any of a newer frame

wireVars      == <<emitted, flight>>
assemblerVars == <<building, present, delivered, buffer, incomplete, stale>>
clientVars    == <<world, applied_through, discarded>>
historyVars   == <<handed, arrived, timely>>
channelVars   == <<wireVars, assemblerVars, clientVars, historyVars>>

-----------------------------------------------------------------------------

NoFrame == -1
Shards  == 0..SERVER_SHARDS - 1
Acks    == 0..MaxAck \cup {NoFrame}
StateFrames == [tick : 1..MaxFrames, ack : Acks]
Blank   == [tick |-> 0, ack |-> NoFrame]   \* zeroed bytes; no frame emitted has them
NoWorld == Blank

Datagram == [sequence : 0..MaxFrames - 1, index : Shards, payload : StateFrames]

Counting(n)   == n + 1     \* mutant: does not saturate
Saturating(n) == IF n < COUNTER_MAX THEN n + 1 ELSE n

ChannelInit ==
  /\ emitted = <<>>
  /\ flight = {}
  /\ building = NoFrame
  /\ present = [i \in Shards |-> FALSE]
  /\ delivered = FALSE
  /\ buffer = [i \in Shards |-> Blank]
  /\ incomplete = 0
  /\ stale = 0
  /\ handed = <<>>
  /\ world = NoWorld
  /\ applied_through = NoFrame
  /\ discarded = 0
  /\ arrived = {} /\ timely = {}

(* Wire::send_frame: the shards of one frame, some of them dropped on      *)
(* purpose or on the way, under the session's next sequence number.        *)
ShardsOf(frame, sequence) ==
  {[sequence |-> sequence, index |-> i, payload |-> frame] : i \in Shards}

LastAck == IF emitted = <<>> THEN NoFrame ELSE emitted[Len(emitted)].ack

SendFrame ==
  /\ Len(emitted) < MaxFrames
  /\ \E ack \in {a \in Acks : a >= LastAck} :
       LET frame == [tick |-> Len(emitted) + 1, ack |-> ack]
           all   == ShardsOf(frame, Len(emitted))
       IN  /\ emitted' = Append(emitted, frame)
           /\ \E out \in SUBSET all : flight' = flight \cup out
  /\ UNCHANGED <<assemblerVars, clientVars, historyVars>>

-----------------------------------------------------------------------------
(* ShardAssembler::accept.                                                 *)

(* Mutants: a frame given out is not closed; an older frame is only        *)
(* refused once the newer one is complete; or never; or a newer one has to *)
(* wait for the frame being built.                                         *)
OutdatedIfOlder(d)        == building # NoFrame /\ d.sequence < building
OutdatedOnceDelivered(d)  == building # NoFrame /\ delivered /\ d.sequence <= building
OutdatedIfRepeated(d)     == d.sequence = building /\ delivered
OutdatedUnlessBuilding(d) ==
  building # NoFrame /\ (IF delivered THEN d.sequence <= building ELSE d.sequence # building)

Outdated(d) ==
  building # NoFrame /\ (d.sequence < building \/ (d.sequence = building /\ delivered))

(* start(): forget the frame being built, unless this shard belongs to it. *)
Started(d)       == building # d.sequence
PresentKept(d)   == present     \* mutant: start() does not clear it
PresentBefore(d) == IF Started(d) THEN [i \in Shards |-> FALSE] ELSE present
BufferBefore(d)  == IF Started(d) THEN [i \in Shards |-> Blank] ELSE buffer
Completes(d)     == \A i \in Shards : i = d.index \/ PresentBefore(d)[i]

Abandons(d) == Started(d) /\ building # NoFrame /\ ~delivered

(* What the completed buffer decodes to: the frame every shard is of.      *)
Decoded(buf) == buf[0]

AcceptOutdated(d) ==
  /\ Outdated(d)
  /\ stale' = Saturating(stale)
  /\ UNCHANGED <<building, present, delivered, buffer, incomplete, handed, clientVars>>

AcceptShard(d) ==
  /\ ~Outdated(d)
  /\ building'   = d.sequence
  /\ present'    = [PresentBefore(d) EXCEPT ![d.index] = TRUE]
  /\ buffer'     = [BufferBefore(d) EXCEPT ![d.index] = d.payload]
  /\ delivered'  = Completes(d)
  /\ incomplete' = IF Abandons(d) THEN Saturating(incomplete) ELSE incomplete
  /\ UNCHANGED stale

(* Headless::receive on a view: the acknowledgement is taken first, then   *)
(* the world is replaced, unless the view is not newer than the world.     *)
ReceiveView(frame) ==
  /\ applied_through' = frame.ack
  /\ IF frame.tick <= world.tick /\ world.tick # 0
       THEN discarded' = Saturating(discarded) /\ UNCHANGED world
       ELSE world' = frame /\ UNCHANGED discarded

AcceptFresh(d) ==
  /\ AcceptShard(d)
  /\ IF Completes(d)
       THEN /\ handed' = Append(handed, Decoded(buffer'))
            /\ ReceiveView(Decoded(buffer'))
       ELSE UNCHANGED <<handed, clientVars>>

(* No shard of a newer frame has arrived.                                  *)
Timely(d) == \A e \in arrived : e.sequence <= d.sequence

(* One datagram read by recv_state, or one the network repeats.            *)
DeliverShard(d) ==
  /\ d \in flight
  /\ flight' \in {flight \ {d}, flight}
  /\ arrived' = arrived \cup {d}
  /\ timely' = IF Timely(d) THEN timely \cup {d} ELSE timely
  /\ AcceptOutdated(d) \/ AcceptFresh(d)
  /\ UNCHANGED emitted

ChannelNext == SendFrame \/ \E d \in flight : DeliverShard(d)

ChannelSpec == ChannelInit /\ [][ChannelNext]_channelVars

-----------------------------------------------------------------------------

ChannelTypeOK ==
  /\ emitted \in Seq(StateFrames) /\ Len(emitted) <= MaxFrames
  /\ flight \subseteq Datagram /\ arrived \subseteq Datagram /\ timely \subseteq Datagram
  /\ building \in 0..MaxFrames - 1 \cup {NoFrame}
  /\ present \in [Shards -> BOOLEAN]
  /\ delivered \in BOOLEAN
  /\ buffer \in [Shards -> StateFrames \cup {Blank}]
  /\ incomplete \in 0..COUNTER_MAX /\ stale \in 0..COUNTER_MAX
  /\ discarded \in 0..COUNTER_MAX
  /\ handed \in Seq(StateFrames)
  /\ world \in StateFrames \cup {NoWorld}
  /\ applied_through \in Acks

(* The assembler holds the newest frame it has seen a shard of, exactly    *)
(* the shards of it that arrived, and has given it out once they all had:  *)
(* no repetition or late shard of an older frame disturbs it.              *)
(* frame.rs: accept(), "Only the newest frame is held."                    *)
HoldsTheNewest ==
  /\ \A d \in arrived : d.sequence <= building
  /\ building # NoFrame =>
       \A i \in Shards :
         present[i] <=> \E d \in arrived : d.sequence = building /\ d.index = i
  /\ delivered <=> \A i \in Shards : present[i]

(* A frame given out is one the server sent, whole: never shards of two    *)
(* ticks put together, whatever the buffer held before.                    *)
(* frame.rs: accept() and start().                                         *)
WholeFramesOnly ==
  /\ \A n \in DOMAIN handed : handed[n].tick \in DOMAIN emitted /\ handed[n] = emitted[handed[n].tick]
  /\ delivered => \A i \in Shards : buffer[i] = emitted[building + 1]

(* Each tick reaches the client at most once and in order, so the rule     *)
(* that discards an old view is never the one that saves it.               *)
(* frame.rs: `delivered'; client/src/lib.rs: reconcile().                  *)
InOrderOnce ==
  /\ \A m, n \in DOMAIN handed : m < n => handed[m].tick < handed[n].tick
  /\ discarded = 0

(* The world and the acknowledgement the client holds are of one frame,    *)
(* although receive() takes the second before it has looked at the first:  *)
(* predict.rs, "The two arrive together and are consumed together".        *)
AckBelongsToTheWorld ==
  /\ applied_through = world.ack
  /\ handed # <<>> => world = handed[Len(handed)]

ReadTicks == {handed[n].tick : n \in DOMAIN handed}

(* A tick is read exactly when every shard of its frame arrives before any *)
(* shard of a newer one, whatever was half built, lost or repeated before: *)
(* a loss costs its own frame, and the only other thing that costs one is  *)
(* a newer frame that has started to arrive.  A network that loses nothing *)
(* and keeps bringing the first shard of a frame before the last one of    *)
(* the frame before it costs every frame.                                  *)
(* frame.rs: accept(), "gives up on the ones that will not be whole".      *)
ReadUnlessOvertaken ==
  \A t \in DOMAIN emitted : t \in ReadTicks <=> ShardsOf(emitted[t], t - 1) \subseteq timely

-----------------------------------------------------------------------------
(* The inductive strengthening (StateChannelProofs.tla).                   *)

(* A shard in flight is one of a frame that was sent.                      *)
WireInv ==
  /\ \A n \in DOMAIN emitted : emitted[n].tick = n
  /\ \A d \in flight \cup arrived : d.sequence < Len(emitted) /\ d.payload = emitted[d.sequence + 1]

(* The buffer holds shards of the frame being built and of no other.       *)
AssemblerInv ==
  /\ building < Len(emitted)
  /\ building # NoFrame =>
       \A i \in Shards : present[i] => buffer[i] = emitted[building + 1]

(* The client's world is the last frame given out.  It is older than the   *)
(* one being built unless that one was given out.                          *)
KnownInv ==
  /\ handed = <<>> => world = NoWorld
  /\ world.tick <= building + 1
  /\ world.tick = building + 1 /\ building # NoFrame => delivered
  /\ building = NoFrame => ~delivered /\ world = NoWorld
  /\ \A n \in DOMAIN handed : handed[n].tick <= world.tick

(* What has arrived of the frame being built came in time.                 *)
TimelyInv ==
  /\ timely \subseteq arrived
  /\ building # NoFrame => \E d \in arrived : d.sequence = building
  /\ \A d \in arrived : d.sequence = building => d \in timely

ChannelInv ==
  /\ WireInv
  /\ AssemblerInv
  /\ KnownInv
  /\ HoldsTheNewest
  /\ WholeFramesOnly
  /\ InOrderOnce
  /\ AckBelongsToTheWorld
  /\ TimelyInv
  /\ ReadUnlessOvertaken
=============================================================================
