------------------------- MODULE StateChannelProofs -------------------------
(***************************************************************************)
(* Proofs about StateChannel.tla for every number of shards and frames,    *)
(* every network and every order of delivery.                              *)
(*                                                                         *)
(* That frames are given out whole and in order is not inductive: it rests *)
(* on what the buffer holds before a frame is complete (AssemblerInv), on  *)
(* what is in flight (WireInv), and on how far the client's world is from  *)
(* the frame being built (KnownInv).                                       *)
(***************************************************************************)
EXTENDS StateChannelRefinement, SequenceTheorems, TLAPS

LEMMA ShardZero == 0 \in Shards
BY ChannelConstants DEF Shards

LEMMA BlankIsNoFrame == Blank \notin StateFrames
BY DEF Blank, StateFrames

LEMMA SaturatingType ==
  ASSUME NEW n \in 0..COUNTER_MAX
  PROVE  Saturating(n) \in 0..COUNTER_MAX
BY ChannelConstants DEF Saturating

LEMMA InitType == ChannelInit => ChannelTypeOK
<1> SUFFICES ASSUME ChannelInit PROVE ChannelTypeOK
  OBVIOUS
<1>1. /\ emitted \in Seq(StateFrames) /\ Len(emitted) <= MaxFrames
      /\ handed \in Seq(StateFrames)
  BY EmptySeq, ChannelConstants DEF ChannelInit
<1>2. /\ present \in [Shards -> BOOLEAN]
      /\ buffer \in [Shards -> StateFrames \cup {Blank}]
  BY DEF ChannelInit
<1>3. /\ flight \subseteq Datagram /\ arrived \subseteq Datagram /\ timely \subseteq Datagram
      /\ building \in 0..MaxFrames - 1 \cup {NoFrame} /\ delivered \in BOOLEAN
      /\ world \in StateFrames \cup {NoWorld} /\ applied_through \in Acks
  BY DEF ChannelInit, Acks
<1>4. incomplete \in 0..COUNTER_MAX /\ stale \in 0..COUNTER_MAX /\ discarded \in 0..COUNTER_MAX
  BY ChannelConstants DEF ChannelInit
<1> QED
  BY <1>1, <1>2, <1>3, <1>4 DEF ChannelTypeOK

(* One shard folded in: what accept() leaves is a frame being built.       *)
LEMMA AcceptType ==
  ASSUME ChannelTypeOK, NEW d \in Datagram, AcceptShard(d)
  PROVE  /\ building' \in 0..MaxFrames - 1
         /\ present' \in [Shards -> BOOLEAN]
         /\ delivered' \in BOOLEAN
         /\ buffer' \in [Shards -> StateFrames \cup {Blank}]
         /\ incomplete' \in 0..COUNTER_MAX
         /\ stale' = stale
<1>1. d.sequence \in 0..MaxFrames - 1 /\ d.index \in Shards /\ d.payload \in StateFrames
  BY DEF Datagram
<1>2. PresentBefore(d) \in [Shards -> BOOLEAN]
  BY DEF PresentBefore, ChannelTypeOK
<1>3. BufferBefore(d) \in [Shards -> StateFrames \cup {Blank}]
  BY DEF BufferBefore, ChannelTypeOK
<1>4. incomplete' \in 0..COUNTER_MAX
  BY SaturatingType DEF AcceptShard, ChannelTypeOK
<1>5. delivered' \in BOOLEAN
  BY DEF AcceptShard, Completes
<1> QED
  BY <1>1, <1>2, <1>3, <1>4, <1>5 DEF AcceptShard

(* The server's half of a step.                                            *)
LEMMA SendEffect ==
  ASSUME ChannelTypeOK, SendFrame
  PROVE  \E ack \in Acks, out \in SUBSET Datagram :
           /\ emitted' = Append(emitted, [tick |-> Len(emitted) + 1, ack |-> ack])
           /\ flight' = flight \cup out
           /\ emitted' \in Seq(StateFrames) /\ Len(emitted') = Len(emitted) + 1
           /\ Len(emitted') <= MaxFrames
           /\ \A n \in DOMAIN emitted : emitted'[n] = emitted[n]
           /\ emitted'[Len(emitted')].tick = Len(emitted')
           /\ \A d \in out : d.sequence = Len(emitted) /\ d.payload = emitted'[Len(emitted')]
           /\ UNCHANGED <<assemblerVars, clientVars, historyVars>>
<1> DEFINE FrameOf(ack) == [tick |-> Len(emitted) + 1, ack |-> ack]
<1>1. PICK ack \in Acks : \E out \in SUBSET ShardsOf(FrameOf(ack), Len(emitted)) :
        emitted' = Append(emitted, FrameOf(ack)) /\ flight' = flight \cup out
  BY DEF SendFrame
<1>2. PICK out \in SUBSET ShardsOf(FrameOf(ack), Len(emitted)) : flight' = flight \cup out
  BY <1>1
<1>3. emitted' = Append(emitted, FrameOf(ack))
  BY <1>1
<1>4. Len(emitted) \in Nat /\ Len(emitted) < MaxFrames /\ emitted \in Seq(StateFrames)
  BY DEF SendFrame, ChannelTypeOK
<1>5. FrameOf(ack) \in StateFrames
  BY <1>4, ChannelConstants DEF StateFrames
<1>6. /\ emitted' \in Seq(StateFrames) /\ Len(emitted') = Len(emitted) + 1
      /\ \A n \in DOMAIN emitted : emitted'[n] = emitted[n]
      /\ emitted'[Len(emitted')] = FrameOf(ack)
  BY <1>3, <1>4, <1>5
<1>7. out \subseteq Datagram
  BY <1>4, <1>5, ChannelConstants DEF ShardsOf, Datagram
<1>8. \A d \in out : d.sequence = Len(emitted) /\ d.payload = FrameOf(ack)
  BY DEF ShardsOf
<1>9. Len(emitted') <= MaxFrames
  BY <1>4, <1>6, ChannelConstants
<1>10. UNCHANGED <<assemblerVars, clientVars, historyVars>>
  BY DEF SendFrame
<1>11. emitted'[Len(emitted')].tick = Len(emitted')
  BY <1>6
<1>12. \A d \in out : d.sequence = Len(emitted) /\ d.payload = emitted'[Len(emitted')]
  BY <1>6, <1>8
<1> HIDE DEF FrameOf
<1>13. out \in SUBSET Datagram
  BY <1>7
<1> WITNESS ack \in Acks, out \in SUBSET Datagram
<1> QED
  BY <1>2, <1>3, <1>6, <1>9, <1>10, <1>11, <1>12 DEF FrameOf

(* The shard that arrives is of a frame that was sent.                     *)
LEMMA ArrivalIsSent ==
  ASSUME ChannelTypeOK, WireInv, NEW d \in flight \cup arrived
  PROVE  /\ d \in Datagram /\ d.sequence \in Nat /\ d.index \in Shards
         /\ d.sequence + 1 \in DOMAIN emitted
         /\ d.payload = emitted[d.sequence + 1] /\ emitted[d.sequence + 1] \in StateFrames
         /\ emitted[d.sequence + 1].tick = d.sequence + 1
<1>1. d \in Datagram
  BY DEF ChannelTypeOK
<1>2. d.sequence \in Nat /\ d.index \in Shards /\ d.sequence < Len(emitted)
  BY <1>1, ChannelConstants DEF Datagram, WireInv
<1>3. d.sequence + 1 \in DOMAIN emitted
  BY <1>2 DEF ChannelTypeOK
<1> QED
  BY <1>1, <1>2, <1>3 DEF ChannelTypeOK, WireInv

(* What accept() leaves in the buffer is of the frame it is building.      *)
LEMMA BufferIsOfOneFrame ==
  ASSUME ChannelTypeOK, ChannelInv, NEW d \in flight, AcceptShard(d)
  PROVE  \A i \in Shards : present'[i] => buffer'[i] = emitted[d.sequence + 1]
<1> SUFFICES ASSUME NEW i \in Shards, present'[i]
             PROVE  buffer'[i] = emitted[d.sequence + 1]
  OBVIOUS
<1>0. d.index \in Shards /\ d.payload = emitted[d.sequence + 1]
  BY ArrivalIsSent DEF ChannelInv
<1>1. PresentBefore(d) \in [Shards -> BOOLEAN]
  BY DEF PresentBefore, ChannelTypeOK
<1>2. BufferBefore(d) \in [Shards -> StateFrames \cup {Blank}]
  BY DEF BufferBefore, ChannelTypeOK
<1>3. CASE i = d.index
  BY <1>0, <1>2, <1>3 DEF AcceptShard
<1>4. CASE i # d.index
  <2>1. PresentBefore(d)[i] /\ buffer'[i] = BufferBefore(d)[i]
    BY <1>1, <1>2, <1>4 DEF AcceptShard
  <2>2. ~Started(d)
    BY <2>1 DEF PresentBefore
  <2>3. building = d.sequence /\ present[i] /\ buffer'[i] = buffer[i]
    BY <2>1, <2>2 DEF Started, PresentBefore, BufferBefore
  <2>4. building # NoFrame
    BY <2>3, ArrivalIsSent DEF NoFrame, ChannelInv
  <2> QED
    BY <2>3, <2>4 DEF ChannelInv, AssemblerInv
<1> QED
  BY <1>3, <1>4

(* A completed frame is the one that was sent under that sequence number.  *)
LEMMA CompletedIsSent ==
  ASSUME ChannelTypeOK, ChannelInv, NEW d \in flight, AcceptShard(d), Completes(d)
  PROVE  /\ \A i \in Shards : present'[i] /\ buffer'[i] = emitted[d.sequence + 1]
         /\ Decoded(buffer') = emitted[d.sequence + 1]
<1>1. d.index \in Shards
  BY ArrivalIsSent DEF ChannelInv
<1>2. PresentBefore(d) \in [Shards -> BOOLEAN]
  BY DEF PresentBefore, ChannelTypeOK
<1>3. \A i \in Shards : present'[i]
  BY <1>1, <1>2 DEF AcceptShard, Completes
<1> QED
  BY <1>3, BufferIsOfOneFrame, ShardZero DEF Decoded

(* A frame that completes is newer than the client's world.                *)
LEMMA CompletedIsNewer ==
  ASSUME ChannelTypeOK, ChannelInv, NEW d \in flight, AcceptShard(d)
  PROVE  world.tick < d.sequence + 1 /\ building <= d.sequence
<1>1. d.sequence \in Nat
  BY ArrivalIsSent DEF ChannelInv
<1>2. building \in Int /\ world.tick \in Int
  BY ChannelConstants DEF ChannelTypeOK, StateFrames, NoWorld, Blank, NoFrame
<1>3. building = NoFrame \/ (building < d.sequence)
        \/ (building = d.sequence /\ ~delivered)
  BY <1>1, <1>2 DEF AcceptShard, Outdated
<1>4. CASE building = NoFrame
  BY <1>1, <1>4 DEF ChannelInv, KnownInv, NoWorld, Blank, NoFrame
<1>5. CASE building # NoFrame
  BY <1>1, <1>2, <1>3, <1>5 DEF ChannelInv, KnownInv
<1> QED
  BY <1>4, <1>5

LEMMA NextType == ChannelTypeOK /\ ChannelInv /\ [ChannelNext]_channelVars => ChannelTypeOK'
<1> SUFFICES ASSUME ChannelTypeOK, ChannelInv, [ChannelNext]_channelVars PROVE ChannelTypeOK'
  OBVIOUS
<1>1. CASE UNCHANGED channelVars
  BY <1>1 DEF channelVars, wireVars, assemblerVars, clientVars, historyVars, ChannelTypeOK
<1>2. CASE SendFrame
  BY <1>2, SendEffect DEF ChannelTypeOK, assemblerVars, clientVars, historyVars
<1>3. ASSUME NEW d \in flight, DeliverShard(d) PROVE ChannelTypeOK'
  <2>0. d \in Datagram
    BY DEF ChannelTypeOK
  <2>1. /\ flight' \subseteq Datagram /\ arrived' \subseteq Datagram /\ emitted' = emitted
        /\ timely' \subseteq Datagram
    BY <1>3, <2>0 DEF DeliverShard, ChannelTypeOK
  <2>2. CASE AcceptOutdated(d)
    <3>1. stale' \in 0..COUNTER_MAX
      BY <2>2, SaturatingType DEF AcceptOutdated, ChannelTypeOK
    <3> QED
      BY <2>1, <2>2, <3>1 DEF AcceptOutdated, ChannelTypeOK, clientVars
  <2>3. CASE AcceptFresh(d)
    <3>1. AcceptShard(d)
      BY <2>3 DEF AcceptFresh
    <3>2. CASE ~Completes(d)
      BY <2>0, <2>1, <2>3, <3>1, <3>2, AcceptType DEF AcceptFresh, ChannelTypeOK, clientVars
    <3>3. CASE Completes(d)
      <4>1. Decoded(buffer') \in StateFrames
        BY <3>1, <3>3, CompletedIsSent, ArrivalIsSent DEF ChannelInv
      <4>2. handed' \in Seq(StateFrames)
        <5>1. handed' = Append(handed, Decoded(buffer'))
          BY <2>3, <3>3 DEF AcceptFresh
        <5>2. handed \in Seq(StateFrames)
          BY DEF ChannelTypeOK
        <5> QED
          BY <4>1, <5>1, <5>2
      <4>3. applied_through' \in Acks
        BY <2>3, <3>3, <4>1 DEF AcceptFresh, ReceiveView, StateFrames
      <4>4. world' \in StateFrames \cup {NoWorld} /\ discarded' \in 0..COUNTER_MAX
        BY <2>3, <3>3, <4>1, SaturatingType DEF AcceptFresh, ReceiveView, ChannelTypeOK
      <4> QED
        BY <2>0, <2>1, <3>1, <4>2, <4>3, <4>4, AcceptType DEF ChannelTypeOK
    <3> QED
      BY <3>2, <3>3
  <2> QED
    BY <1>3, <2>2, <2>3 DEF DeliverShard
<1> QED
  BY <1>1, <1>2, <1>3 DEF ChannelNext

-----------------------------------------------------------------------------

LEMMA InitInv == ChannelInit => ChannelInv
<1> SUFFICES ASSUME ChannelInit PROVE ChannelInv
  OBVIOUS
<1>1. WireInv /\ AssemblerInv
  BY DEF ChannelInit, WireInv, AssemblerInv, NoFrame
<1>2. KnownInv
  BY DEF ChannelInit, KnownInv, NoWorld, Blank, NoFrame
<1>3. HoldsTheNewest
  BY ShardZero DEF ChannelInit, HoldsTheNewest
<1>4. WholeFramesOnly /\ InOrderOnce /\ AckBelongsToTheWorld
  BY DEF ChannelInit, WholeFramesOnly, InOrderOnce, AckBelongsToTheWorld, NoWorld, Blank
<1>5. TimelyInv /\ ReadUnlessOvertaken
  BY DEF ChannelInit, TimelyInv, ReadUnlessOvertaken, NoFrame
<1> QED
  BY <1>1, <1>2, <1>3, <1>4, <1>5 DEF ChannelInv

(* A new frame leaves everything the client holds alone.                   *)
LEMMA SendInv ==
  ASSUME ChannelTypeOK, ChannelInv, SendFrame
  PROVE  ChannelInv'
<1>1. PICK ack \in Acks, out \in SUBSET Datagram :
        /\ flight' = flight \cup out
        /\ emitted' \in Seq(StateFrames) /\ Len(emitted') = Len(emitted) + 1
        /\ \A n \in DOMAIN emitted : emitted'[n] = emitted[n]
        /\ emitted'[Len(emitted')].tick = Len(emitted')
        /\ \A d \in out : d.sequence = Len(emitted) /\ d.payload = emitted'[Len(emitted')]
        /\ UNCHANGED <<assemblerVars, clientVars, historyVars>>
  BY SendEffect
<1>2. /\ Len(emitted) \in Nat /\ DOMAIN emitted = 1..Len(emitted)
      /\ DOMAIN emitted' = 1..Len(emitted) + 1
  BY <1>1 DEF ChannelTypeOK
<1> USE DEF assemblerVars, clientVars, historyVars
<1>3. WireInv'
  <2>1. \A n \in DOMAIN emitted' : emitted'[n].tick = n
    BY <1>1, <1>2 DEF ChannelInv, WireInv
  <2>2. \A d \in flight' \cup arrived' :
          d.sequence < Len(emitted') /\ d.payload = emitted'[d.sequence + 1]
    <3>1. ASSUME NEW d \in flight \cup arrived
          PROVE  d.sequence < Len(emitted') /\ d.payload = emitted'[d.sequence + 1]
      <4>1. d.sequence + 1 \in DOMAIN emitted /\ d.payload = emitted[d.sequence + 1]
        BY ArrivalIsSent DEF ChannelInv
      <4>2. d.sequence \in Nat
        BY ArrivalIsSent DEF ChannelInv
      <4> QED
        BY <1>1, <1>2, <4>1, <4>2
    <3> QED
      BY <1>1, <1>2, <3>1
  <2> QED
    BY <2>1, <2>2 DEF WireInv
<1>4. \A n \in 1..Len(emitted) : emitted'[n] = emitted[n]
  BY <1>1, <1>2
<1>5. building # NoFrame => building + 1 \in 1..Len(emitted)
  BY <1>2, ChannelConstants DEF ChannelTypeOK, ChannelInv, AssemblerInv
<1>6. AssemblerInv'
  <2>1. building' < Len(emitted')
    BY <1>1, <1>2, ChannelConstants DEF ChannelTypeOK, ChannelInv, AssemblerInv, NoFrame
  <2> QED
    BY <1>1, <1>4, <1>5, <2>1 DEF ChannelInv, AssemblerInv
<1>7. WholeFramesOnly'
  <2>1. \A n \in DOMAIN handed : handed[n].tick \in 1..Len(emitted) /\ handed[n] = emitted[handed[n].tick]
    <3>1. \A n \in DOMAIN handed : handed[n] \in StateFrames
      BY DEF ChannelTypeOK
    <3>2. \A n \in DOMAIN handed : handed[n].tick \in 1..MaxFrames
      BY <3>1 DEF StateFrames
    <3> QED
      BY <1>2, <3>2, ChannelConstants DEF ChannelInv, WholeFramesOnly
  <2>2. delivered => building # NoFrame
    BY DEF ChannelInv, KnownInv
  <2> QED
    BY <1>1, <1>2, <1>4, <1>5, <2>1, <2>2 DEF ChannelInv, WholeFramesOnly
<1>8. (KnownInv /\ HoldsTheNewest /\ InOrderOnce /\ AckBelongsToTheWorld /\ TimelyInv)'
  BY <1>1 DEF ChannelInv, KnownInv, HoldsTheNewest, InOrderOnce, AckBelongsToTheWorld, TimelyInv
<1>9. ReadUnlessOvertaken'
  <2>1. ReadTicks' = ReadTicks /\ timely' = timely
    BY <1>1 DEF ReadTicks
  <2>2. ASSUME NEW t \in 1..Len(emitted)
        PROVE  t \in ReadTicks' <=> ShardsOf(emitted'[t], t - 1) \subseteq timely'
    BY <1>2, <1>4, <2>1 DEF ChannelInv, ReadUnlessOvertaken
  <2>3. Len(emitted) + 1 \notin ReadTicks
    <3>1. \A n \in DOMAIN handed : handed[n].tick \in DOMAIN emitted
      BY DEF ChannelInv, WholeFramesOnly
    <3> QED
      BY <1>2, <3>1 DEF ReadTicks
  <2>4. ~(ShardsOf(emitted'[Len(emitted) + 1], Len(emitted)) \subseteq timely)
    <3>1. [sequence |-> Len(emitted), index |-> 0, payload |-> emitted'[Len(emitted) + 1]]
            \in ShardsOf(emitted'[Len(emitted) + 1], Len(emitted))
      BY ShardZero DEF ShardsOf
    <3>2. \A d \in timely : d.sequence + 1 \in DOMAIN emitted
      BY ArrivalIsSent DEF ChannelInv, TimelyInv
    <3> QED
      BY <1>2, <3>1, <3>2
  <2>5. Len(emitted) + 1 \in ReadTicks'
          <=> ShardsOf(emitted'[Len(emitted) + 1], (Len(emitted) + 1) - 1) \subseteq timely'
    BY <1>2, <2>1, <2>3, <2>4
  <2> QED
    BY <1>2, <2>2, <2>5 DEF ReadUnlessOvertaken
<1> QED
  BY <1>3, <1>6, <1>7, <1>8, <1>9 DEF ChannelInv

(* Whatever arrives, what is in flight is still of what was sent.          *)
LEMMA DeliverWire ==
  ASSUME ChannelInv, NEW d \in flight, DeliverShard(d)
  PROVE  WireInv'
<1>1. flight' \subseteq flight /\ emitted' = emitted /\ arrived' = arrived \cup {d}
  BY DEF DeliverShard
<1> QED
  BY <1>1 DEF ChannelInv, WireInv

(* A repeated or overtaken shard is counted and forgotten.                 *)
LEMMA OutdatedInv ==
  ASSUME ChannelTypeOK, ChannelInv, NEW d \in flight, DeliverShard(d), AcceptOutdated(d)
  PROVE  ChannelInv'
<1>1. /\ UNCHANGED <<emitted, building, present, delivered, buffer, handed>>
      /\ UNCHANGED <<world, applied_through, discarded>>
      /\ arrived' = arrived \cup {d}
  BY DEF DeliverShard, AcceptOutdated, clientVars
<1>2. building # NoFrame /\ d.sequence <= building
      /\ (d.sequence = building => delivered)
  <2>1. building \in Int /\ d.sequence \in Int
    BY ArrivalIsSent DEF ChannelInv, ChannelTypeOK, NoFrame
  <2> QED
    BY <2>1 DEF AcceptOutdated, Outdated
<1>3. HoldsTheNewest'
  <2>1. \A e \in arrived' : e.sequence <= building'
    BY <1>1, <1>2 DEF ChannelInv, HoldsTheNewest
  <2>2. ASSUME NEW i \in Shards
        PROVE  present'[i] <=> \E e \in arrived' : e.sequence = building' /\ e.index = i
    <3>1. present[i] <=> \E e \in arrived : e.sequence = building /\ e.index = i
      BY <1>2 DEF ChannelInv, HoldsTheNewest
    <3>2. CASE d.sequence = building
      BY <1>1, <1>2, <3>1, <3>2 DEF ChannelInv, HoldsTheNewest
    <3>3. CASE d.sequence # building
      BY <1>1, <3>1, <3>3
    <3> QED
      BY <3>2, <3>3
  <2> QED
    BY <1>1, <2>1, <2>2 DEF ChannelInv, HoldsTheNewest
<1>4. (AssemblerInv /\ KnownInv /\ WholeFramesOnly /\ InOrderOnce /\ AckBelongsToTheWorld)'
  BY <1>1 DEF ChannelInv, AssemblerInv, KnownInv, WholeFramesOnly, InOrderOnce, AckBelongsToTheWorld
<1>5. timely' = timely /\ TimelyInv'
  <2>0. timely' = IF Timely(d) THEN timely \cup {d} ELSE timely
    BY DEF DeliverShard
  <2>1. CASE d.sequence = building
    <3>1. PICK e \in arrived : e.sequence = building /\ e.index = d.index
      BY <1>2, <2>1, ArrivalIsSent DEF ChannelInv, HoldsTheNewest
    <3>2. /\ e \in Datagram /\ e.payload = emitted[e.sequence + 1]
          /\ d \in Datagram /\ d.payload = emitted[d.sequence + 1]
      BY ArrivalIsSent DEF ChannelInv
    <3>3. e = d
      BY <2>1, <3>1, <3>2 DEF Datagram
    <3>4. d \in timely /\ arrived' = arrived
      BY <1>1, <2>1, <3>1, <3>3 DEF ChannelInv, TimelyInv
    <3> QED
      BY <1>1, <2>0, <3>4 DEF ChannelInv, TimelyInv
  <2>2. CASE d.sequence # building
    <3>1. PICK e \in arrived : e.sequence = building
      BY <1>2 DEF ChannelInv, TimelyInv
    <3>2. ~(e.sequence <= d.sequence)
      <4>1. e.sequence \in Int /\ d.sequence \in Int
        BY ArrivalIsSent DEF ChannelInv
      <4> QED
        BY <1>2, <2>2, <3>1, <4>1
    <3>3. timely' = timely
      BY <2>0, <3>1, <3>2 DEF Timely
    <3> QED
      BY <1>1, <2>2, <3>3 DEF ChannelInv, TimelyInv
  <2> QED
    BY <2>1, <2>2
<1>6. ReadUnlessOvertaken'
  BY <1>1, <1>5 DEF ChannelInv, ReadUnlessOvertaken, ReadTicks
<1> QED
  BY <1>3, <1>4, <1>5, <1>6, DeliverWire DEF ChannelInv

(* A shard that is folded in: the part of the invariant about the          *)
(* assembler, whether or not the frame is complete now.                    *)
LEMMA FreshAssembler ==
  ASSUME ChannelTypeOK, ChannelInv, NEW d \in flight, DeliverShard(d), AcceptFresh(d)
  PROVE  /\ AssemblerInv' /\ HoldsTheNewest'
         /\ building' = d.sequence /\ delivered' = Completes(d)
         /\ delivered' => \A i \in Shards : buffer'[i] = emitted[d.sequence + 1]
<1>1. /\ AcceptShard(d) /\ emitted' = emitted /\ arrived' = arrived \cup {d}
  BY DEF DeliverShard, AcceptFresh
<1>2. /\ building' = d.sequence /\ delivered' = Completes(d)
      /\ present' = [PresentBefore(d) EXCEPT ![d.index] = TRUE]
  BY <1>1 DEF AcceptShard
<1>3. d.sequence \in Nat /\ d.index \in Shards /\ d.sequence + 1 \in DOMAIN emitted
  BY ArrivalIsSent DEF ChannelInv
<1>4. PresentBefore(d) \in [Shards -> BOOLEAN]
  BY DEF PresentBefore, ChannelTypeOK
<1>5. building <= d.sequence /\ building \in Int
  BY <1>1, CompletedIsNewer DEF ChannelTypeOK, NoFrame
<1>6. AssemblerInv'
  <2>1. building' < Len(emitted')
    BY <1>1, <1>2, <1>3 DEF ChannelTypeOK
  <2> QED
    BY <1>1, <1>2, <2>1, BufferIsOfOneFrame DEF AssemblerInv
<1>7. HoldsTheNewest'
  <2>1. \A e \in arrived' : e.sequence \in Int /\ e.sequence <= building'
    <3>1. \A e \in arrived : e.sequence \in Int /\ e.sequence <= building
      BY DEF ChannelTypeOK, Datagram, ChannelInv, HoldsTheNewest
    <3> QED
      BY <1>1, <1>2, <1>3, <1>5, <3>1
  <2>2. \A i \in Shards :
          present'[i] <=> \E e \in arrived' : e.sequence = building' /\ e.index = i
    <3> SUFFICES ASSUME NEW i \in Shards
                 PROVE  present'[i] <=> \E e \in arrived' : e.sequence = building' /\ e.index = i
      OBVIOUS
    <3>1. CASE i = d.index
      BY <1>1, <1>2, <1>3, <1>4, <3>1
    <3>2. CASE i # d.index
      <4>1. present'[i] <=> PresentBefore(d)[i]
        BY <1>2, <1>4, <3>2
      <4>2. (\E e \in arrived' : e.sequence = building' /\ e.index = i)
              <=> \E e \in arrived : e.sequence = d.sequence /\ e.index = i
        BY <1>1, <1>2, <3>2
      <4>3. CASE building = d.sequence
        <5>1. building # NoFrame /\ ~Started(d)
          BY <1>3, <4>3 DEF NoFrame, Started
        <5> QED
          BY <4>1, <4>2, <4>3, <5>1 DEF PresentBefore, ChannelInv, HoldsTheNewest
      <4>4. CASE building # d.sequence
        <5>1. ~PresentBefore(d)[i]
          BY <4>4 DEF Started, PresentBefore
        <5>2. ~\E e \in arrived : e.sequence = d.sequence
          <6>1. \A e \in arrived : e.sequence \in Int /\ e.sequence <= building
            BY DEF ChannelTypeOK, Datagram, ChannelInv, HoldsTheNewest
          <6> QED
            BY <1>3, <1>5, <4>4, <6>1
        <5> QED
          BY <4>1, <4>2, <5>1, <5>2
      <4> QED
        BY <4>3, <4>4
    <3> QED
      BY <3>1, <3>2
  <2>3. delivered' <=> \A i \in Shards : present'[i]
    BY <1>2, <1>3, <1>4 DEF Completes
  <2> QED
    BY <2>1, <2>2, <2>3 DEF HoldsTheNewest
<1> QED
  BY <1>1, <1>2, <1>6, <1>7, CompletedIsSent

(* A shard that is folded in came in time, and speaks of no frame but its  *)
(* own.                                                                    *)
LEMMA FreshIsTimely ==
  ASSUME ChannelTypeOK, ChannelInv, NEW d \in flight, DeliverShard(d), AcceptFresh(d)
  PROVE  /\ timely' = timely \cup {d} /\ TimelyInv'
         /\ \A t \in DOMAIN emitted \ {d.sequence + 1} :
              ShardsOf(emitted[t], t - 1) \subseteq timely'
                <=> ShardsOf(emitted[t], t - 1) \subseteq timely
<1>1. AcceptShard(d) /\ arrived' = arrived \cup {d}
  BY DEF DeliverShard, AcceptFresh
<1>2. building <= d.sequence /\ building' = d.sequence /\ d.sequence \in Nat /\ building \in Int
  <2>1. building' = d.sequence /\ d.sequence \in Nat
    BY <1>1, ArrivalIsSent DEF AcceptShard, ChannelInv
  <2>2. building <= d.sequence
    BY <1>1, CompletedIsNewer
  <2> QED
    BY <2>1, <2>2, ChannelConstants DEF ChannelTypeOK, NoFrame
<1>3. \A e \in arrived : e.sequence \in Int /\ e.sequence <= building
  BY ArrivalIsSent DEF ChannelInv, HoldsTheNewest
<1>4. timely' = timely \cup {d}
  <2>1. Timely(d)
    BY <1>2, <1>3 DEF Timely
  <2> QED
    BY <2>1 DEF DeliverShard
<1>5. TimelyInv'
  <2>1. \A e \in arrived : e.sequence = d.sequence => e \in timely
    BY <1>2, <1>3 DEF ChannelInv, TimelyInv
  <2> QED
    BY <1>1, <1>2, <1>4, <2>1 DEF ChannelInv, TimelyInv
<1>6. ASSUME NEW t \in DOMAIN emitted \ {d.sequence + 1}
      PROVE  d \notin ShardsOf(emitted[t], t - 1)
  <2>1. t \in Int /\ t - 1 # d.sequence
    BY <1>2 DEF ChannelTypeOK
  <2> QED
    BY <2>1 DEF ShardsOf
<1> QED
  BY <1>4, <1>5, <1>6

(* The shards of the frame being built are all there when it is given out. *)
LEMMA WholeIsTimely ==
  ASSUME ChannelTypeOK, ChannelInv, NEW d \in flight, DeliverShard(d), AcceptFresh(d)
  PROVE  ShardsOf(emitted[d.sequence + 1], d.sequence) \subseteq timely' <=> Completes(d)
<1> DEFINE f == emitted[d.sequence + 1]
<1>1. /\ building' = d.sequence /\ delivered' = Completes(d) /\ HoldsTheNewest'
      /\ TimelyInv' /\ WireInv' /\ emitted' = emitted /\ arrived' \subseteq Datagram
      /\ d.sequence \in Nat
  <2>1. d \in Datagram /\ d.sequence \in Nat
    BY ArrivalIsSent DEF ChannelInv
  <2>2. emitted' = emitted /\ arrived' \subseteq Datagram
    BY <2>1 DEF DeliverShard, ChannelTypeOK
  <2>3. building' = d.sequence /\ delivered' = Completes(d) /\ HoldsTheNewest'
    BY FreshAssembler
  <2>4. TimelyInv' /\ WireInv'
    BY FreshIsTimely, DeliverWire
  <2> QED
    BY <2>1, <2>2, <2>3, <2>4
<1>2. building' # NoFrame
  BY <1>1 DEF NoFrame
<1>3. Completes(d) <=> \A i \in Shards : \E e \in arrived' : e.sequence = d.sequence /\ e.index = i
  BY <1>1, <1>2 DEF HoldsTheNewest
<1>4. ASSUME NEW i \in Shards
      PROVE  (\E e \in arrived' : e.sequence = d.sequence /\ e.index = i)
               <=> [sequence |-> d.sequence, index |-> i, payload |-> f] \in timely'
  <2>1. ASSUME NEW e \in arrived', e.sequence = d.sequence, e.index = i
        PROVE  [sequence |-> d.sequence, index |-> i, payload |-> f] \in timely'
    <3>1. e = [sequence |-> d.sequence, index |-> i, payload |-> f]
      BY <1>1, <2>1 DEF WireInv, Datagram
    <3> QED
      BY <1>1, <2>1, <3>1 DEF TimelyInv
  <2> QED
    BY <1>1, <2>1 DEF TimelyInv
<1> HIDE DEF f
<1>5. ShardsOf(f, d.sequence) \subseteq timely'
        <=> \A i \in Shards : [sequence |-> d.sequence, index |-> i, payload |-> f] \in timely'
  BY DEF ShardsOf
<1> QED
  BY <1>3, <1>4, <1>5 DEF f

(* The frame is not complete: the client learns nothing.                   *)
LEMMA BuildingInv ==
  ASSUME ChannelTypeOK, ChannelInv, NEW d \in flight, DeliverShard(d), AcceptFresh(d), ~Completes(d)
  PROVE  ChannelInv'
<1>1. UNCHANGED <<handed, emitted, world, applied_through, discarded>>
  BY DEF DeliverShard, AcceptFresh, clientVars
<1>2. building' = d.sequence /\ ~delivered' /\ d.sequence \in Nat
  BY FreshAssembler, ArrivalIsSent DEF ChannelInv
<1>3. world.tick < d.sequence + 1
  BY CompletedIsNewer DEF AcceptFresh
<1>4. KnownInv'
  <2>1. world.tick \in Int
    BY ChannelConstants DEF ChannelTypeOK, StateFrames, NoWorld, Blank
  <2> QED
    BY <1>1, <1>2, <1>3, <2>1 DEF ChannelInv, KnownInv, NoFrame
<1>5. (WholeFramesOnly /\ InOrderOnce /\ AckBelongsToTheWorld)'
  BY <1>1, <1>2 DEF ChannelInv, WholeFramesOnly, InOrderOnce, AckBelongsToTheWorld
<1>6. ReadUnlessOvertaken'
  <2>1. ReadTicks' = ReadTicks
    BY <1>1 DEF ReadTicks
  <2>2. d.sequence + 1 \notin ReadTicks
    <3>1. \A n \in DOMAIN handed : handed[n].tick \in Int /\ handed[n].tick <= world.tick
      <4>1. \A n \in DOMAIN handed : handed[n] \in StateFrames
        BY DEF ChannelTypeOK
      <4> QED
        BY <4>1 DEF StateFrames, ChannelInv, KnownInv
    <3>2. world.tick \in Int
      BY ChannelConstants DEF ChannelTypeOK, StateFrames, NoWorld, Blank
    <3> QED
      BY <1>2, <1>3, <3>1, <3>2 DEF ReadTicks
  <2>3. ASSUME NEW t \in DOMAIN emitted
        PROVE  t \in ReadTicks <=> ShardsOf(emitted[t], t - 1) \subseteq timely'
    <3>1. CASE t = d.sequence + 1
      <4>1. t - 1 = d.sequence
        BY <1>2, <3>1
      <4> QED
        BY <2>2, <3>1, <4>1, WholeIsTimely
    <3>2. CASE t # d.sequence + 1
      BY <3>2, FreshIsTimely DEF ChannelInv, ReadUnlessOvertaken
    <3> QED
      BY <3>1, <3>2
  <2> QED
    BY <1>1, <2>1, <2>3 DEF ReadUnlessOvertaken
<1> QED
  BY <1>4, <1>5, <1>6, FreshAssembler, FreshIsTimely, DeliverWire DEF ChannelInv

(* The frame is complete: it is what was sent, and newer than the world.   *)
LEMMA CompletingInv ==
  ASSUME ChannelTypeOK, ChannelInv, NEW d \in flight, DeliverShard(d), AcceptFresh(d), Completes(d)
  PROVE  ChannelInv'
<1> DEFINE frame == emitted[d.sequence + 1]
<1>1. /\ handed' = Append(handed, frame)
      /\ ReceiveView(frame) /\ emitted' = emitted
  BY CompletedIsSent DEF DeliverShard, AcceptFresh
<1>2. frame \in StateFrames /\ frame.tick = d.sequence + 1 /\ d.sequence \in Nat
      /\ d.sequence + 1 \in DOMAIN emitted
  BY ArrivalIsSent DEF ChannelInv
<1>3. world.tick < frame.tick /\ world.tick \in Int
  BY <1>2, CompletedIsNewer, ChannelConstants
  DEF AcceptFresh, ChannelTypeOK, StateFrames, NoWorld, Blank
<1>4. world' = frame /\ applied_through' = frame.ack /\ discarded' = discarded
  BY <1>1, <1>2, <1>3 DEF ReceiveView
<1>5. building' = d.sequence /\ delivered'
      /\ \A i \in Shards : buffer'[i] = frame
  BY FreshAssembler
<1> HIDE DEF frame
<1>6. /\ Len(handed') = Len(handed) + 1 /\ handed'[Len(handed')] = frame
      /\ handed' # <<>>
      /\ \A n \in DOMAIN handed : handed'[n] = handed[n]
      /\ DOMAIN handed' = DOMAIN handed \cup {Len(handed')}
      /\ \A n \in DOMAIN handed : n < Len(handed')
      /\ Len(handed) \in Nat /\ DOMAIN handed = 1..Len(handed)
  BY <1>1, <1>2, SMTT(40) DEF ChannelTypeOK
<1>7. \A n \in DOMAIN handed : handed[n].tick \in Int /\ handed[n].tick <= world.tick
  <2>1. \A n \in DOMAIN handed : handed[n] \in StateFrames
    BY DEF ChannelTypeOK
  <2> QED
    BY <2>1 DEF StateFrames, ChannelInv, KnownInv
<1>8. KnownInv'
  <2>1. world'.tick = building' + 1
    BY <1>2, <1>4, <1>5
  <2>2. \A n \in DOMAIN handed' : handed'[n].tick <= world'.tick
    BY <1>2, <1>3, <1>4, <1>6, <1>7
  <2> QED
    BY <1>2, <1>5, <1>6, <2>1, <2>2 DEF KnownInv, NoFrame
<1>9. WholeFramesOnly'
  <2>1. frame = emitted[frame.tick] /\ frame.tick <= Len(emitted)
    BY <1>2 DEF frame, ChannelTypeOK
  <2> QED
    BY <1>1, <1>2, <1>5, <1>6, <2>1 DEF ChannelInv, WholeFramesOnly, frame
<1>10. InOrderOnce'
  <2>1. \A m, n \in DOMAIN handed' : m < n => handed'[m].tick < handed'[n].tick
    <3> SUFFICES ASSUME NEW m \in DOMAIN handed', NEW n \in DOMAIN handed', m < n
                 PROVE  handed'[m].tick < handed'[n].tick
      OBVIOUS
    <3>1. m \in DOMAIN handed
      BY <1>6
    <3>2. CASE n \in DOMAIN handed
      BY <1>6, <3>1, <3>2 DEF ChannelInv, InOrderOnce
    <3>3. CASE n = Len(handed')
      BY <1>2, <1>3, <1>6, <1>7, <3>1, <3>3
    <3> QED
      BY <1>6, <3>2, <3>3
  <2> QED
    BY <1>4, <2>1 DEF ChannelInv, InOrderOnce
<1>11. AckBelongsToTheWorld'
  BY <1>4, <1>6 DEF AckBelongsToTheWorld
<1>12. ReadUnlessOvertaken'
  <2>1. ReadTicks' = ReadTicks \cup {d.sequence + 1}
    <3>1. \A n \in DOMAIN handed' :
            handed'[n].tick = IF n = Len(handed') THEN d.sequence + 1 ELSE handed[n].tick
      BY <1>2, <1>6
    <3>2. d.sequence + 1 \in ReadTicks'
      BY <1>2, <1>6 DEF ReadTicks
    <3>3. ReadTicks' \subseteq ReadTicks \cup {d.sequence + 1}
      BY <1>6, <3>1 DEF ReadTicks
    <3>4. ReadTicks \subseteq ReadTicks'
      BY <1>6 DEF ReadTicks
    <3> QED
      BY <3>2, <3>3, <3>4
  <2>2. ASSUME NEW t \in DOMAIN emitted
        PROVE  t \in ReadTicks' <=> ShardsOf(emitted[t], t - 1) \subseteq timely'
    <3>1. CASE t = d.sequence + 1
      <4>1. t - 1 = d.sequence
        BY <1>2, <3>1
      <4> QED
        BY <2>1, <3>1, <4>1, WholeIsTimely
    <3>2. CASE t # d.sequence + 1
      BY <2>1, <3>2, FreshIsTimely DEF ChannelInv, ReadUnlessOvertaken
    <3> QED
      BY <3>1, <3>2
  <2> QED
    BY <1>1, <2>2 DEF ReadUnlessOvertaken
<1> QED
  BY <1>8, <1>9, <1>10, <1>11, <1>12, FreshAssembler, FreshIsTimely, DeliverWire DEF ChannelInv

LEMMA NextInv == ChannelTypeOK /\ ChannelInv /\ [ChannelNext]_channelVars => ChannelInv'
<1> SUFFICES ASSUME ChannelTypeOK, ChannelInv, [ChannelNext]_channelVars PROVE ChannelInv'
  OBVIOUS
<1>1. CASE UNCHANGED channelVars
  BY <1>1 DEF channelVars, wireVars, assemblerVars, clientVars, historyVars, ChannelInv, WireInv,
    AssemblerInv, KnownInv, HoldsTheNewest, WholeFramesOnly, InOrderOnce, AckBelongsToTheWorld,
    TimelyInv, ReadUnlessOvertaken, ReadTicks
<1>2. CASE SendFrame
  BY <1>2, SendInv
<1>3. ASSUME NEW d \in flight, DeliverShard(d) PROVE ChannelInv'
  BY <1>3, OutdatedInv, BuildingInv, CompletingInv DEF DeliverShard
<1> QED
  BY <1>1, <1>2, <1>3 DEF ChannelNext

-----------------------------------------------------------------------------

(* Every variable keeps its type and the strengthening holds, whatever the *)
(* network does: accept() and receive() as one step.                       *)
THEOREM ChannelInductive == ChannelSpec => [](ChannelTypeOK /\ ChannelInv)
<1>1. ChannelInit => ChannelTypeOK /\ ChannelInv
  BY InitType, InitInv
<1>2. ChannelTypeOK /\ ChannelInv /\ [ChannelNext]_channelVars => (ChannelTypeOK /\ ChannelInv)'
  BY NextType, NextInv
<1> QED
  BY <1>1, <1>2, PTL DEF ChannelSpec

(* The assembler holds the newest frame it has seen a shard of, and        *)
(* exactly the shards of it that arrived (frame.rs: accept()).             *)
THEOREM NewestIsHeld == ChannelSpec => []HoldsTheNewest
<1>1. ChannelInv => HoldsTheNewest
  BY DEF ChannelInv
<1> QED
  BY <1>1, ChannelInductive, PTL

(* A tick is read exactly when all its shards arrive before any of a newer *)
(* frame: nothing else costs one (frame.rs: accept(), start()).            *)
THEOREM TicksAreRead == ChannelSpec => []ReadUnlessOvertaken
<1>1. ChannelInv => ReadUnlessOvertaken
  BY DEF ChannelInv
<1> QED
  BY <1>1, ChannelInductive, PTL

(* What is given out was sent, whole (frame.rs: accept(), start()).        *)
THEOREM FramesAreWhole == ChannelSpec => []WholeFramesOnly
<1>1. ChannelInv => WholeFramesOnly
  BY DEF ChannelInv
<1> QED
  BY <1>1, ChannelInductive, PTL

(* No tick is given out twice or late, and reconcile() never has an old    *)
(* view to discard on this channel (client/src/lib.rs).                    *)
THEOREM TicksAreInOrder == ChannelSpec => []InOrderOnce
<1>1. ChannelInv => InOrderOnce
  BY DEF ChannelInv
<1> QED
  BY <1>1, ChannelInductive, PTL

(* The acknowledgement the prediction trims its history by is that of the  *)
(* world it starts from (client/src/lib.rs: receive(), reconcile()).       *)
THEOREM AckIsOfTheWorld == ChannelSpec => []AckBelongsToTheWorld
<1>1. ChannelInv => AckBelongsToTheWorld
  BY DEF ChannelInv
<1> QED
  BY <1>1, ChannelInductive, PTL

-----------------------------------------------------------------------------

LEMMA RegisterInit == ChannelInit => Register!Init
BY EmptySeq DEF ChannelInit, Register!Init

LEMMA RegisterStep ==
  ChannelTypeOK /\ ChannelInv /\ [ChannelNext]_channelVars => [Register!Next]_Register!vars
<1> SUFFICES ASSUME ChannelTypeOK, ChannelInv, [ChannelNext]_channelVars
             PROVE  [Register!Next]_Register!vars
  OBVIOUS
<1> USE DEF Register!vars, Register!Next
<1>1. CASE UNCHANGED channelVars
  BY <1>1 DEF channelVars, wireVars, historyVars
<1>2. CASE SendFrame
  BY <1>2, SendEffect DEF Register!Publish, historyVars
<1>3. ASSUME NEW d \in flight, DeliverShard(d) PROVE [Register!Next]_Register!vars
  <2>1. emitted' = emitted
    BY <1>3 DEF DeliverShard
  <2>2. CASE handed' = handed
    BY <2>1, <2>2
  <2>3. CASE AcceptFresh(d) /\ Completes(d)
    <3>1. handed' = Append(handed, emitted[d.sequence + 1])
      BY <2>3, CompletedIsSent DEF AcceptFresh
    <3>2. /\ emitted[d.sequence + 1] \in StateFrames
          /\ emitted[d.sequence + 1].tick = d.sequence + 1
          /\ d.sequence \in Nat /\ d.sequence + 1 <= Len(emitted)
      BY ArrivalIsSent DEF ChannelInv, ChannelTypeOK
    <3>3. handed' # <<>> /\ handed'[Len(handed')].tick = d.sequence + 1
      BY <3>1, <3>2 DEF ChannelTypeOK
    <3>4. (IF handed = <<>> THEN 0 ELSE handed[Len(handed)].tick) = world.tick
      BY DEF ChannelInv, KnownInv, AckBelongsToTheWorld, NoWorld, Blank
    <3>5. world.tick < d.sequence + 1 /\ world.tick \in Int
      BY <2>3, CompletedIsNewer, ChannelConstants DEF AcceptFresh, ChannelTypeOK, StateFrames, NoWorld, Blank
    <3> QED
      BY <2>1, <3>2, <3>3, <3>4, <3>5 DEF Register!Learn
  <2> QED
    BY <1>3, <2>2, <2>3 DEF DeliverShard, AcceptOutdated, AcceptFresh
<1> QED
  BY <1>1, <1>2, <1>3 DEF ChannelNext

(* The channel implements the register: a client only ever skips ahead to  *)
(* a tick the server sent, for every cut, loss, repetition and order.      *)
THEOREM ChannelIsARegister == ChannelSpec => ImplementsRegister
<1>1. ChannelTypeOK /\ ChannelInv /\ [ChannelNext]_channelVars => [Register!Next]_Register!vars
  BY RegisterStep
<1> QED
  BY <1>1, RegisterInit, ChannelInductive, PTL
  DEF ChannelSpec, ImplementsRegister, Register!Spec
=============================================================================
