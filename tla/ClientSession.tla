---------------------------- MODULE ClientSession ----------------------------
(***************************************************************************)
(* One playable client from the granted seat to its files on disk          *)
(* (client/src/gfx.rs, play.rs, net.rs): the window's event loop, which    *)
(* owns the session and the recording, and the net task, which owns the    *)
(* wire.  Two channels join them, and a wake event that is the only thing  *)
(* that makes the loop look at its channel.                                *)
(*                                                                         *)
(* The server is external: it sends views once it has heard Ready, and     *)
(* the connection may go at any time.  Frames come whole and newest first, *)
(* which is StateChannel.tla.  Left out: drawing, the viewport, and the    *)
(* prediction the intention is folded into (Prediction.tla).               *)
(***************************************************************************)
EXTENDS Integers, Sequences, FiniteSets, SequencesExt

CONSTANTS
  OUTBOX,       \* capacity of the outgoing channel: 64
  MAX_SAMPLES,  \* samples a trace holds
  MaxPresses,   \* bound: control transitions of the player
  MaxViews      \* bound: frames the server sends

ASSUME ClientAssumption ==
  OUTBOX \in Nat \ {0} /\ MAX_SAMPLES \in Nat /\ MaxPresses \in Nat /\ MaxViews \in Nat

(* What has to be visited before Ready can be clicked (lobby.rs).          *)
Waypoints == {"Name", "Consent", "Champion"}
Orders   == {"Idle", "Move"}
Bad      == 0      \* in the place of a tick: a frame that does not decode

VARIABLES
  \* the event loop
  waypoints,   \* the lobby elements clicked
  leftLobby, \* Ready was clicked
  readyFrame,     \* whether the Ready frame is still held
  view,      \* the tick of the view folded last, 0 before the first
  seq,       \* the next intention's sequence number
  standing,  \* the order that stands
  once,      \* whether a one-shot skill waits for the next intention
  trace,     \* the recorded samples
  dropped,   \* samples there was no room for
  outcome,   \* "none", "Over" or "Failed"
  exiting,   \* the loop has been told to exit
  at,        \* "looping", "closing", "writing", "written" or "gone"
  \* between them
  mailbox, outbox,
  woken,     \* whether a wake event is pending
  \* the net task and its wire
  net,       \* "running" or "ended"
  cut,       \* the connection is gone
  sent,      \* the tick of the last view the server sent, 0 before the first
  heard,     \* what the server read, in order
  \* the files
  disk,      \* [session, telemetry |-> "none", "torn" or the recording]
  presses    \* history: every transition a window event reported

loop    == <<waypoints, leftLobby, readyFrame, view, seq, standing, once, trace, dropped>>
task    == <<mailbox, outbox, woken, net, cut, sent, heard>>
cvars   == <<loop, task, outcome, exiting, at, disk, presses>>

ReadyFrame     == [kind |-> "Ready"]
SurrenderFrame == [kind |-> "Surrender"]
Input(n, a, v) == [kind |-> "Input", seq |-> n, action |-> a, view |-> v]  \* view: history

Pressed(down)  == [kind |-> "Pressed", down |-> down]
Viewed(t, n)   == [kind |-> "Viewed", tick |-> t, seq |-> n]

CInit ==
  /\ waypoints = {} /\ leftLobby = FALSE /\ readyFrame = TRUE
  /\ view = 0 /\ seq = 0 /\ standing = "Idle" /\ once = FALSE
  /\ trace = <<>> /\ dropped = 0
  /\ outcome = "none" /\ exiting = FALSE /\ at = "looping"
  /\ mailbox = <<>> /\ outbox = <<>> /\ woken = FALSE
  /\ net = "running" /\ cut = FALSE /\ sent = 0 /\ heard = <<>>
  /\ disk = [session |-> "none", telemetry |-> "none"] /\ presses = <<>>

-----------------------------------------------------------------------------
(* The recording: a sample past the capacity is counted, not kept.         *)
Recorded(samples) ==
  LET room == MAX_SAMPLES - Len(trace)
      kept == IF Len(samples) <= room THEN Len(samples) ELSE room
  IN  /\ trace'   = trace \o SubSeq(samples, 1, kept)
      /\ dropped' = dropped + (Len(samples) - kept)

(* try_send: a full channel refuses, and one whose task has ended.         *)
Fits(frames) == net = "running" /\ Len(outbox) + Len(frames) <= OUTBOX

(* get_or_insert: the first reason stands.                                 *)
FirstReason(o) == IF outcome = "none" THEN o ELSE outcome

-----------------------------------------------------------------------------
(* advance: everything in the mailbox, one intention for each.               *)

(* A frame no newer than the view folded last leaves it standing; it is    *)
(* answered all the same.                                                  *)
Folded(v, t) == IF t <= v /\ v # 0 THEN v ELSE t

(* The state of a drain: the frame it has come to, and all it changes.     *)
Drain == [view |-> view, seq |-> seq, once |-> once, samples |-> <<>>,
          frames |-> <<>>, outcome |-> outcome, stop |-> FALSE]

(* The intention of one pass: a one-shot before the order that stands.     *)
Intention(d) == IF d.once THEN "Cast" ELSE standing

AnchorAfter(d, v) == Viewed(v, d.seq + 1)      \* mutant: seq read after intend
Anchor(d, v)      == Viewed(v, d.seq)

Answered(d, t) ==
  LET v      == Folded(d.view, t)
      frames == Append(d.frames, Input(d.seq, Intention(d), v))
      open   == [d EXCEPT !.view = v, !.seq = @ + 1, !.once = FALSE,
                          !.samples = Append(@, Anchor(d, v))]
  IN  IF Fits(frames) THEN [open EXCEPT !.frames = frames]
      ELSE [open EXCEPT !.stop = TRUE, !.outcome = FirstReason("Over")]

Pass(d, t) ==
  IF d.stop THEN d
  ELSE IF t = Bad THEN [d EXCEPT !.stop = TRUE, !.outcome = "Failed"]
  ELSE Answered(d, t)

Advanced == FoldLeft(Pass, Drain, mailbox)

(* Wake: drain the mailbox; an ended task has disconnected it.               *)
UserEvent ==
  /\ at = "looping" /\ woken
  /\ woken' = FALSE
  /\ LET d == Advanced
         o == IF net = "ended" /\ ~d.stop /\ d.outcome = "none" THEN "Over" ELSE d.outcome
     IN  /\ view' = d.view /\ seq' = d.seq /\ once' = d.once
         /\ outbox' = outbox \o d.frames
         /\ outcome' = o
         /\ exiting' = (exiting \/ o # "none")
         /\ Recorded(d.samples)
  /\ mailbox' = <<>>
  /\ UNCHANGED <<waypoints, leftLobby, readyFrame, standing, net, cut, sent, heard,
                 at, disk, presses>>

-----------------------------------------------------------------------------
(* The player's hand.                                                      *)

Transition(down) ==
  /\ at = "looping" /\ Len(presses) < MaxPresses
  /\ presses' = Append(presses, Pressed(down))

(* In the lobby every transition is recorded; a left press visits what is  *)
(* under the aim, and Ready, once everything was visited, leaves.          *)
LobbyRelease ==
  /\ Transition(FALSE) /\ ~leftLobby
  /\ Recorded(<<Pressed(FALSE)>>)
  /\ UNCHANGED <<waypoints, leftLobby, readyFrame, view, seq, standing, once, task,
                 outcome, exiting, at, disk>>

Visit(element) ==
  /\ Transition(TRUE) /\ ~leftLobby
  /\ waypoints' = waypoints \cup {element}
  /\ Recorded(<<Pressed(TRUE)>>)
  /\ UNCHANGED <<leftLobby, readyFrame, view, seq, standing, once, task, outcome,
                 exiting, at, disk>>

AllVisited == waypoints = Waypoints

ClickReady ==
  /\ Transition(TRUE) /\ ~leftLobby
  /\ Recorded(<<Pressed(TRUE)>>)
  /\ IF AllVisited
       THEN /\ leftLobby' = TRUE /\ readyFrame' = FALSE
            /\ outbox'  = IF readyFrame /\ Fits(<<ReadyFrame>>) THEN Append(outbox, ReadyFrame) ELSE outbox
            /\ outcome' = IF readyFrame /\ ~Fits(<<ReadyFrame>>) THEN FirstReason("Over") ELSE outcome
       ELSE UNCHANGED <<leftLobby, readyFrame, outbox, outcome>>
  /\ UNCHANGED <<waypoints, view, seq, standing, once, mailbox, woken, net, cut,
                 sent, heard, exiting, at, disk>>

(* Between Ready and the first view there is nothing to aim in: press()    *)
(* returns before anything is recorded.                                    *)
PressUnseen(down) ==
  /\ Transition(down) /\ leftLobby /\ view = 0
  /\ UNCHANGED <<loop, task, outcome, exiting, at, disk>>

(* In the match: recorded first, then a press becomes an order.            *)
PressInMatch(down) ==
  /\ Transition(down) /\ leftLobby /\ view # 0
  /\ Recorded(<<Pressed(down)>>)
  /\ \/ ~down /\ UNCHANGED <<standing, once>>
     \/ down /\ standing' \in Orders /\ UNCHANGED once
     \/ down /\ once' = TRUE /\ UNCHANGED standing
     \/ down /\ UNCHANGED <<standing, once>>     \* nobody in range
  /\ UNCHANGED <<waypoints, leftLobby, readyFrame, view, seq, task, outcome, exiting,
                 at, disk>>

(* Escape or the window's close: the frame if it fits, and out.            *)
Surrender ==
  /\ at = "looping" /\ ~exiting
  /\ outcome' = FirstReason("Over")
  /\ outbox'  = IF Fits(<<SurrenderFrame>>) THEN Append(outbox, SurrenderFrame) ELSE outbox
  /\ exiting' = TRUE
  /\ UNCHANGED <<loop, mailbox, woken, net, cut, sent, heard, at, disk, presses>>

(* The screen cannot be opened.                                            *)
NoScreen ==
  /\ at = "looping" /\ presses = <<>> /\ ~exiting
  /\ outcome' = "Failed" /\ exiting' = TRUE
  /\ UNCHANGED <<loop, task, at, disk, presses>>

-----------------------------------------------------------------------------
(* After the loop: session part, then telemetry part, then the runtime is  *)
(* dropped and the net task with it.  A write creates the file before its  *)
(* bytes are in it.                                                        *)
LoopEnds ==
  /\ at = "looping" /\ exiting
  /\ at' = "closing"
  /\ UNCHANGED <<loop, task, outcome, exiting, disk, presses>>

TelemetryPart == [samples |-> trace, dropped |-> dropped]

WriteSession ==
  /\ at = "closing"
  /\ \/ disk.session = "none" /\ disk' = [disk EXCEPT !.session = "torn"] /\ UNCHANGED at
     \/ disk.session = "torn" /\ disk' = [disk EXCEPT !.session = "whole"] /\ at' = "writing"
     \/ at' = "gone" /\ UNCHANGED disk      \* the directory or the write fails
  /\ UNCHANGED <<loop, task, outcome, exiting, presses>>

WriteTelemetry ==
  /\ at = "writing"
  /\ \/ disk.telemetry = "none" /\ disk' = [disk EXCEPT !.telemetry = "torn"] /\ UNCHANGED at
     \/ disk.telemetry = "torn" /\ disk' = [disk EXCEPT !.telemetry = TelemetryPart] /\ at' = "written"
     \/ at' = "gone" /\ UNCHANGED disk
  /\ UNCHANGED <<loop, task, outcome, exiting, presses>>

Return ==
  /\ at = "written"
  /\ at' = "gone"
  /\ UNCHANGED <<loop, task, outcome, exiting, disk, presses>>

-----------------------------------------------------------------------------
(* The net task, which runs until the process is gone.                     *)
TaskRuns == net = "running" /\ at # "gone"

(* recv_state: a view, or a frame that does not decode.                    *)
Receive(t) ==
  /\ TaskRuns /\ ~cut
  /\ ReadyFrame \in Range(heard) /\ sent < MaxViews
  /\ sent'  = sent + 1
  /\ mailbox' = Append(mailbox, t)
  /\ woken' = TRUE
  /\ UNCHANGED <<loop, outbox, net, cut, heard, outcome, exiting, at, disk, presses>>

Transmit ==
  /\ TaskRuns /\ ~cut /\ outbox # <<>>
  /\ heard'  = Append(heard, Head(outbox))
  /\ outbox' = Tail(outbox)
  /\ UNCHANGED <<loop, mailbox, woken, net, cut, sent, outcome, exiting, at, disk, presses>>

(* The connection goes (external): the match is over, or the network is.   *)
Cut ==
  /\ ~cut /\ cut' = TRUE
  /\ UNCHANGED <<loop, mailbox, outbox, woken, net, sent, heard, outcome, exiting,
                 at, disk, presses>>

(* Either branch fails: the task ends, and its last act is to wake.        *)
LastWordless == woken            \* mutant: the task returns without a word
LastWake     == TRUE

TaskEnds ==
  /\ TaskRuns /\ cut
  /\ net' = "ended"
  /\ woken' = LastWake
  /\ UNCHANGED <<loop, mailbox, outbox, cut, sent, heard, outcome, exiting, at, disk, presses>>

Hand ==
  \/ LobbyRelease \/ ClickReady \/ Surrender \/ NoScreen
  \/ \E element \in Waypoints : Visit(element)
  \/ \E down \in BOOLEAN : PressUnseen(down) \/ PressInMatch(down)

CNext ==
  \/ Hand
  \/ UserEvent \/ LoopEnds \/ WriteSession \/ WriteTelemetry \/ Return
  \/ Transmit \/ TaskEnds \/ Cut
  \/ \E t \in {sent + 1, Bad} : Receive(t)

(* The window system delivers a wake it was sent, and the runtime polls a  *)
(* task whose connection has failed; the hand and the network owe nothing. *)
CFairness ==
  /\ WF_cvars(UserEvent)
  /\ WF_cvars(LoopEnds)
  /\ WF_cvars(TaskEnds)

CSpec == CInit /\ [][CNext]_cvars /\ CFairness

-----------------------------------------------------------------------------
(* Every intention that left or waits to leave is anchored in the          *)
(* recording under its own number, at the tick of the view it answered,    *)
(* unless the trace was full; the anchors carry every number up to the     *)
(* next, each once and in order, whether or not its intention found room;  *)
(* and until the session is over every number was sent.  gfx.rs:           *)
(* advance(), the anchor between intend() and try_send().                  *)
Frames == heard \o outbox

Intentions == {i \in DOMAIN Frames : Frames[i].kind = "Input"}
Anchors    == {k \in DOMAIN trace : trace[k].kind = "Viewed"}

EveryIntentionIsAnchored ==
  /\ \A i, j \in Intentions : i < j => Frames[i].seq < Frames[j].seq
  /\ \A k, l \in Anchors : k < l => trace[k].seq < trace[l].seq
  /\ dropped = 0 =>
       /\ \A i \in Intentions :
            \E k \in Anchors : trace[k] = Viewed(Frames[i].view, Frames[i].seq)
       /\ {trace[k].seq : k \in Anchors} = 0..(seq - 1)
  /\ outcome = "none" => {Frames[i].seq : i \in Intentions} = 0..(seq - 1)

(* A client whose connection is gone does not hang on its last frame: the  *)
(* loop is left, although it only looks at its channel when woken.         *)
(* gfx.rs:765, "the last thing this task does is wake the loop".           *)
LoopLearnsOfTheEnd == cut ~> at # "looping"
=============================================================================
