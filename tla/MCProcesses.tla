---------------------------- MODULE MCProcesses ----------------------------
(***************************************************************************)
(* The processes, one at a time: the host while a match is played, the     *)
(* server executable after it, a client from its seat to its files, and    *)
(* the datagrams between the host and a client.  What the processes share  *)
(* is the wire, which each module leaves to any peer.                      *)
(*                                                                         *)
(* The host: two connections to two seats, a match that starts with one of *)
(* them: enough for a seat to change hands in the lobby while the frames   *)
(* and the closure of its first session are still on the way, for a late   *)
(* arrival, and for a match that everybody leaves.  The channel and the    *)
(* streams hold one event each, so that every producer meets a full one.   *)
(*                                                                         *)
(* The executable: two seats, so that one part can be missing, torn or of  *)
(* an earlier match while the other is whole.                              *)
(*                                                                         *)
(* The client: an outbox of one frame, which the second finds full, and a  *)
(* trace of five samples, which two views and five presses overflow.       *)
(*                                                                         *)
(* The datagrams: three frames of two shards, enough for a frame to be     *)
(* overtaken half built, for a shard of it to come back after that, and    *)
(* for one to be repeated after its frame was given out.                   *)
(***************************************************************************)
EXTENDS Host, Sealing, ClientSession, StateChannelRefinement

VARIABLE process   \* which of the four this behaviour is about

MCInit ==
  /\ process \in {"host", "executable", "client", "datagrams"}
  /\ HostInit /\ SInit /\ CInit /\ ChannelInit
  /\ process # "executable" => /\ fresh /\ given = [key |-> TRUE, parts |-> TRUE]

MCNext ==
  /\ UNCHANGED process
  /\ \/ process = "host"       /\ HostNext /\ UNCHANGED <<svars, cvars, channelVars>>
     \/ process = "executable" /\ SNext    /\ UNCHANGED <<allVars, cvars, channelVars>>
     \/ process = "client"     /\ CNext    /\ UNCHANGED <<allVars, svars, channelVars>>
     \/ process = "datagrams"  /\ ChannelNext /\ UNCHANGED <<allVars, svars, cvars>>

\* HostFairness, SFairness and CFairness, each of the process it is about.
MCFairness ==
  /\ WF_allVars(process = "host" /\ HandleEvent)
  /\ WF_allVars(process = "host" /\ TickerFires)
  /\ WF_svars(process = "executable" /\ Server)
  /\ WF_svars(process = "executable" /\ Deadline)
  /\ WF_cvars(process = "client" /\ UserEvent)
  /\ WF_cvars(process = "client" /\ LoopEnds)
  /\ WF_cvars(process = "client" /\ TaskEnds)

MCSpec == MCInit /\ [][MCNext]_<<process, allVars, svars, cvars, channelVars>> /\ MCFairness
=============================================================================
