# Verification of the moba testbed

The repository is a testbed for server-side anti-cheat: a small 3v3v3 game whose
server is authoritative, whose clients are told only what their team can see, and
whose matches are kept, with their players' consent, as evidence a replay can
reproduce and a detector can read. This directory holds TLA+ models of it, the TLC
configurations that check them, and TLAPS proofs of the results that should not depend
on a small instance.

Every definition is a translation of code. The text of the documents is used only as a
source of claims to check the code against.

- [The system](#the-system)
- [Modules](#modules)
- [What the runs check](#what-the-runs-check)
- [Claims the code does not keep](#claims-the-code-does-not-keep)
- [What is proved](#what-is-proved)
- [Bounds](#bounds)
- [Fairness](#fairness)
- [Not modelled, and the limits of the models](#not-modelled-and-the-limits-of-the-models)
- [Plan](#plan)
- [Running](#running)

## The system

Seven crates. What each component keeps, does, and must get right:

| Component | Code | State | Operations | What makes it correct |
| --- | --- | --- | --- | --- |
| Match authority | `server/src/lib.rs` | sessions (queue, highest sequence number, applied number, readiness), the world, the log | `join`, `deliver`, `tick`, `recording` | the slice it hands to `step` is stamped, sorted and within the rate; an accepted input is applied once and acknowledged only then; the recording reproduces the match |
| Host loop | `server/src/net.rs` | event channel, wires, one reader task per session, tick count | accept, read, `select!` over events and ticker | a seat's frames and words are those of the connection it was granted to; a match that began ends |
| State channel | `protocol/src/frame.rs`, `client/src/lib.rs` | the assembler's buffer, the client's world and acknowledgement | cut a frame into shards, accept a shard, reconcile | what comes out of a lossy network is whole, in order, once |
| Private handles | `protocol/src/handles.rs` | map from the match's handles to a recipient's, a counter | `localize` | a name says nothing about what its reader cannot see, and never means two things |
| Event backlog | `protocol/src/events.rs` | a bounded queue of visible events | `shape` | told oldest first, each told, waiting or counted |
| Prediction | `client/src/predict.rs` | anchor, outstanding intentions, what was drawn | `observe`, `intend`, `sent` | no intention forgotten or folded twice; exact when in step |
| World and views | `sim/src/{step,state,event,view}.rs` | champions, towers, shots, events, outcome | `step`, `view_for` | a function of world and slice; its events explain it; order of arrival is no advantage; fog is opaque |
| Fixed point, generator | `sim/src/{fx,vec2,rng}.rs` | none; the generator's word | scale, root, step, normalise, draw | exact up to one rounding, whatever the operands |
| Canonical bytes, digests | `sim/src/{canonical,sha256}.rs` | the hasher's block and length | write, update, finish, HMAC | one digest, one value; in pieces as in one |
| Codecs | `protocol/`, `sim/src/view.rs` | none | encode and decode each message | what is accepted is what was written |
| Server executable | `server/src/main.rs` | the replay and companion on disk, the parts it has read | collect, judge, seal | a replay that names a companion is found with it; the wait ends |
| Client session and lobby | `client/src/{gfx,play,net,health,lobby}.rs` | two channels, the trace of the device, the part file | press, play, surrender, measure | every intention anchored to the view it was made under; nobody hangs on the last frame |
| Sealed evidence | `replay/src/{container,telemetry,session,manifest,attest,keys}.rs` | files | seal, verify, check against each other | what verifies is what was sealed |
| Corpus and operator's tool | `replay/src/{corpus,consent,split,permit}.rs`, `bin/replay.rs` | files: consent, identity, matches, tombstones | enrol, store, withdraw, revoke, publish, conclude, audit, census | nothing that reads is held without consent; what is withdrawn is gone; nothing is held silently |
| Calibration | `replay/src/calibration.rs` | profiles, recomputed from what is filed | observe, rate, profile | a profile is of all the reaches of one device's sessions |
| Detectors, evaluation | `anticheat/` | none | scan a log, read a clock, evaluate a corpus | a reaction found was there; a claim rests on enough people |
| Disclosure | `replay/src/disclosure.rs` | none | print one part | not modelled |
| Cheat client | `cheat-client/` | none | an adversary for tests | modelled where a detector is stated against it |

How they interact. A client opens a reliable stream; the accept task queues it for the
host loop, which asks the authority for a seat and starts a task that reads the stream
into the same bounded channel. Between events the loop ticks: the authority drains every
session's queue in seat order into one slice, `step` makes the next world, `view_for`
projects it for each seat, the event backlog and the handle space of that session shape
it, and the frame leaves as unreliable datagrams. The client assembles the newest frame,
reconciles its prediction with it, anchors what the hand did to it, and sends its next
intention. After the last tick the executable waits for the files its clients leave in a shared
directory, seals them with the recording, and the operator files the lot in the corpus;
from then on consent decides how long it stays and what may be made of it. A detector
sees only the sealed log, and resimulates the match to learn what each seat was shown.

What is hard: events queued under a seat that changes hands; a channel that is full while
the loop waits; clients that crash, flood, surrender or come late; frames lost, repeated
and reordered; acknowledgement of inputs some of which were refused; counters that come
round; deaths and falling towers inside a tick; fixed-width products; a wait for files that
are still being written; a loop that sleeps until it is woken for the last time; file operations
that stop halfway; and readings of a match by a program that was not there.
`PROJECT.json` lists each hazard at its line with the properties that would catch it.

## Modules

### The match

**`Match`** — `server/src/lib.rs`. `seats`, `started`, `frames` and `log` are the fields of
the same names (`frames` is what the last tick returned, reduced to the acknowledgement
each carries). `Join`/`JoinRefused`, the disjuncts of `Deliver` and `Tick` are the public
operations; `Verdict` is the chain of early returns in `deliver`. `accepted`, `refusals` and
`ticks_run` are history. A tick's world is left abstract: what it computed is a function of its
slice, which is all the authority contributes.

**`MatchContract`, `MatchRefinement`** — the promise to the outside, without queues or counters:
people come and go in the lobby, a running match only loses people, and each tick adds a slice
to which a seat contributes a bounded run of inputs newer than any it ever contributed.

**`MatchRecording`** — `recording()` and its re-simulation from the slices alone.

**`Host`** — `server/src/net.rs`, over `Match`. `inbox` is the channel, `wires`
the array of the same name, `reader` the tasks spawned by `read_loop`, `stream` what a client has
written and nobody has read. One action per arm of `select!`, one per task step. An event
names a seat; the connection it came from rides along as history, because the question is
what the code can no longer tell. Clients may write, crash or (if in `Hostile`) say anything.

**`World`, `WorldProperties`** — `step_with_rules` and `view_for_with_rules`. The world is one
record, as it is one struct, and `Step` is a function, as it is in the code. Each phase is an
operator and `Played` composes them in the order the source fixes; phases that read what an
earlier iteration wrote are folds in seat, slot or tower order, the others are not. The map
is a line, on which `within_range`, `step_toward` and `normalize_or_zero` are exact.

**`FixedPoint`** — what `World` takes as exact: `Fx`, `Vec2` and `Rng::below` at eight bits
instead of sixty-four, with the wide intermediates and the saturation of the code.

### What a seat is told

**`StateChannel`** — `frame.rs` and the client's `reconcile`. The network is a set of
datagrams any of which may be delivered at any time, again, or never. **`NewestRegister`,
`StateChannelRefinement`**: seen from outside, the channel is a register holding the newest
tick, which the reader may miss values of but never see go back.

**`HandleSpace`** — one recipient's `HandleSpace` over the arena's own counter, which wraps.
**`HiddenCasts`** instantiates it twice: two matches which the recipient sees the same of, and
in which different things are cast out of sight. A cast is never dropped there for want of a slot:
the cooldowns, which these modules leave out, let fewer fly than the arena holds, as `state.rs`
asserts (`MAX_PROJECTILES_IN_FLIGHT`); `HandleSpace` by itself has the refused cast too.

**`EventBacklog`** — `shape()`, fed by the tick's event buffer with any subset visible.

**`Prediction`** — one client on a line against the one-seat `Match`, with a reliable uplink
and a downlink that misses views. Both sides' fold of the same intentions is modelled from
its own code (`apply_inputs`/`move_champions` and `after`/`position_after`).

**`ClientSession`** — the window loop and the network task of one client. `outbox` and `events`
are the two channels, `wakes` the proxy that makes the loop look; `anchors` and `trace` are
what the part file will hold. The last frame, the surrender, the full outbox and the cut
connection are actions of their own.

**`Lobby`** — the crossing of the lobby as a measurement: targets, legs, and the counts of a
hand that goes on pushing when the cursor is at the wall.

### What is kept

**`Sealing`** — `main.rs` and the directory it shares with its clients: a write is a creation and a
filling, a listing is read entry by entry, and the process may be killed anywhere.

**`Cells`, `WireFormats`, `EvidenceFormats`, `TextRecords`, `Formats`** — every encoding, as a
sequence of cells: a field keeps its place, its neighbours and what its reader refuses, and
loses its width. `Cells` has the reading cursor all decoders share; `WireFormats` the client's
and server's frames, the view and the shards; `EvidenceFormats` the part, the companion and
the replay; `TextRecords` the session part, session record, consent record and key registry;
`Formats` writes one, damages it, and hands it to its reader.

**`Digests`** — what of a world, of the rules and of a tick's inputs is hashed, and the hasher
that takes it in pieces. The compression of a block is a free function.

**`Evidence`** — seals, commitments and re-simulation: the checks `verify` and `store` make, in
their order, over files that were altered, exchanged with another match's, or sealed again.

**`Corpus`** — a command is a sequence of file operations, performed one at a time; a command in
`Mortal` may die between any two, inside a write (the file is torn) or inside a directory removal
(any part of it is gone). What a command decides it decides from the disk it finds,
including what does not read.
`LeaveFile` is somebody else's: a file left in a match directory, which the audit
must report and a withdrawal removes with the rest. A person has one `Tombstone` in the model and one per
withdrawal and revoked purpose on disk; nothing reads them.
**`CorpusReports`** adds what is computed from the files whenever
it is asked: census, permissions, training set, exit codes; and states the promises of both.

**`Calibration`** — sessions filed, rated and withdrawn, and the profile that is the sum of what is
on file.

**`Reactions`, `Clocks`, `Evaluation`** — the three things a detector does: date a reaction
from a log, read the rate of a seat's clock, and decide what a group of matches can support.
Each models the played match beside the reading of it.

### Model-checking modules

An `MC` module extends the modules of one topic and names its instance; runs whose constants a
configuration can write down (`MCHost*`, `MCClientInStep`, `MCReactionsLoss`) check the component's
module itself. Where several
independent state machines share a run (`MCMatch`, `MCProcesses`, `MCClient`, `MCRecords`)
a variable chosen in the initial state says which of them a behaviour is about; the others stand
still. Each property then speaks of the behaviours of its own machine. Definitions marked as
mutants stand beside the definition they alter; `PROJECT.json` says which run notices.

## What the runs check

Four runs pass.

**`MCMatch`**. *Authority*: over any order of joins, frames and ticks, does the log meet the contract
`step` states but does not check (`LogCanonical`), is each accepted input applied once
(`AppliedExactlyOnce`), do slices alone reproduce the match (`RecordingReproduces`), and does
all this implement `MatchContract` (`ImplementsContract`)? *Rules*: do a tick's events account for every
hit point and fall, within the buffer (`EventsExplainTheStep`), is arriving first no
advantage (`NoAdvantage`), and is fog opaque (`FogHolds`)? *Numbers*: is arithmetic exact but for one
rounding, does a walk arrive, are draws even (`NumbersAreExact`)?

**`MCProcesses`**. *Host*: frames reach (`FramesReachTheirOwner`) and words come from
(`SeatSpeaksForItsOwner`) the connection a seat was granted to; a counted tick records all that was accepted
before it, and the loop's count is the authority's (`AcceptedIsRecorded`); a match that began ends
(`BegunMatchEnds`). *Executable*: a replay on disk that names a companion is found with that one,
and success is said of nothing less (`ReplayFindsItsCompanion`); the wait for parts ends
(`WaitEnds`). *Client*: each intention is anchored to the view it was made under
(`EveryIntentionIsAnchored`), and a client whose connection is gone leaves its loop
(`LoopLearnsOfTheEnd`). *Datagrams*, lost, repeated and reordered: the newest frame is held
(`HoldsTheNewest`), what comes out is whole, in order, once (`ImplementsRegister`),
acknowledgement and world are of the same frame (`AckBelongsToTheWorld`), and a tick is read
exactly when all its shards arrive before any shard of a newer frame (`ReadUnlessOvertaken`).

**`MCClient`**. *Prediction*: `NothingForgotten`, `ShadowOfTheOrder`, `ExactInStep` under missed
views, bunched frames, refused inputs and deaths. *Handles*: one name each although the global counter
wraps, and nothing left out before the space is spent (`HandlesAreNames`); hidden casts are not
told (`HiddenCastsAreNotTold`). *Events*: told oldest first, accounted for, and soon
(`EveryEventIsAccountedFor`). *Lobby*: what a crossing counts is of the crossing, and a client is
ready only when it was measured (`CrossingIsMeasured`).

**`MCRecords`**. *Corpus*: `HeldUnderConsent`, `WithdrawnIsForgotten`, `NothingIsHeldSilently`,
`RevokedIsNotUsed` and `SecondTimeDestroysNothing` over every interleaving of commands and their
deaths; all reports of one corpus agree, with each other and with who is gone (`ReportsAgree`).
*Formats*: what was written is read, what is accepted is an encoding, what is torn is noticed
(`FormatsAreFaithful`). *Evidence*: what verifies is what was sealed, each way to fail is told
apart, what was filed belongs together (`EvidenceIsVerified`). *Digests*: one digest, one value,
in pieces or not (`DigestsTellApart`). *Calibration*: a profile is of all reaches on file,
earlier sessions suffice, the device is recognised (`ProfilesAreSound`). *Detectors*: a reaction read off a
log is one of an appearance that was shown, and varied answers are seen to vary
(`DetectorReadsTheMatch`); a clock is read at its rate to within the rounding of the two spans it is
read from (`RateIsRead`); a threshold rests on enough people who played (`BasisIsOneOfPeople`).

Each property has a mutant in `PROJECT.json`: a small change to a modelled
definition, of the kind a bug in that code would be, under which TLC finds the property violated.

Some properties deserve a remark. `NoAdvantage` says that swapping two players' inputs in
a slice changes nothing but handles and the order of events, *unless a tower falls in that tick*:
a champion hit to zero still acts and is still hit until deaths are resolved, which is what
`step.rs` says, but a tower hit to zero is rubble at once, so who comes first can matter
to a tower's last hit. `HiddenCastsAreNotTold` holds while the match's own handles have not
all been given out; once they come round, the order in which new projectiles are named
depends on where the counter stands. `ReplayFindsItsCompanion` promises parts of *this* match only
of a directory that was empty when the match began: a part names no match. `RateIsRead`
is about spans over a network whose delay is steady, since jitter adds to the error without bound; only that no honest clock runs
backwards is said of every delay. The resolution printed beside a rate is the rounding of two spans of
the *server's* clock, so it covers the error for a clock no faster than that; a faster clock is rounded
in coarser parts of its own, and the property gives the bound with them.

`ReadUnlessOvertaken` says what a tick costs and does not say that ticks are read: the assembler gives up on
a frame the moment a newer one begins to arrive (`frame.rs:613`), so a network that loses nothing and
keeps bringing the first shard of one frame before the last shard of the frame before it leaves the
client without any. That a client comes to know of later ticks is therefore not a liveness property of
this code under any fairness of the network short of keeping the order of whole frames.
`VerifiedIsAsSealed` compares a part by the fields that verification compares. `ReportsAgree` joins
reports that follow from one definition with reports that do not: those that count a corpus by match, by
half, by seat and by person.

## Claims the code does not keep

Eight runs check one property each, stating what a comment says, and TLC refutes them:

- `MCHostCrash` — a crashed client is said to hold a seat until the connection idles out
  (`net.rs:123`). The closure only clears its wire; the authority is never told, so the seat is held
  for ever, and a lobby it had not readied in never starts.
- `MCHostEnded` — a session is said to end for a frame that is not one (`net.rs:428`). Only its
  wire is cut: its reader goes on and its inputs go on being accepted.
- `MCHostWired` — every player is said to get a frame per period (`net.rs:341`). A closure names
  only a seat; handled after the seat has changed hands, it cuts the new holder's wire.
- `MCClientInStep` — being in step is said to be the condition under which a prediction must be exact, and
  a disagreement about movement the only thing that could make it otherwise (`predict.rs:167`,
  `client/tests/m4_exit.rs:405`). In step means that one intention was outstanding and one
  acknowledged; when the view between was missed the server has walked two ticks for it and the
  client one. A death, a chase and a refused order disturb it too. `ExactInStep` is what holds.
- `MCCorpusRepair` — a withdrawal that died is said to be repaired by the next run
  (`corpus.rs:843`). If it died while removing a match, with the replay gone and other files
  left, the next run takes that match to be nobody's and leaves them. The audit does report them.
- `MCFormatsEncoding` — one message is said to have exactly one encoding (`frame.rs:152`). The view
  of a match in progress has an outcome whose winner and tick are read and dropped, so bytes
  that no encoder writes decode to it.
- `MCCalibrationPool` — a mismatched session is said not to be pooled (`calibration.rs:644`). It is
  filed, and profile and census fold in whatever is filed.
- `MCReactionsLoss` — every latency is said to be an underestimate (`telemetry.rs:34`). When a state
  frame is lost the champion reaches the screen later than the tick the sighting is dated to, and the latency
  is an overestimate.

Three more the models show in what a passing property does *not* say:

- An event's amount is said to be what was applied, after the clamp at zero (`event.rs:185`).
  `damage()` tells the amount before the clamp (`step.rs:480-488`), so of the hit that fells, and of
  every hit on a champion that is already at zero, more is told than was taken. `EveryHitIsTold` takes
  the amounts as they are told and clamps their sum.
- A dispersion of zero is said to mean that every answer took the same number of ticks
  (`reaction-dispersion.md:102`), and reporting none about somebody who varied is what the statistic
  was chosen not to do (`features.rs:193-200`). It is cut to hundredths (`features.rs:213`): over more than a
  hundred pairs, one that is a tick off reads as zero. `VariationIsSeen` says that a zero means
  one latency up to `CENTITICKS` pairs; the run has two parts to the tick instead of a hundred, so that
  three pairs are already too many.
- A frame is said to be abandoned because a shard of it never arrived (`frame.rs:534`, `:560`), and to cost
  its reader one tick before the next is read (`frame.rs:513`). A shard that is late does the same, and a
  network that is always late in this way costs every tick; `ReadUnlessOvertaken` has both.

## What is proved

With TLAPS, for every value of the constants:

- **`MatchProofs`** (of `Match` and `MatchRecording`). `TypeCorrect`; `InductiveInvariant`; `LogIsCanonical`,
  `InputsAppliedOnce`, `RunningStaysClosed`, `AckNeverRetreats`; `Refinement`, that `Match`
  implements `MatchContract`; and of `MatchRecording` `RecordingIsReproduced`.
- **`StateChannelProofs`** (of `StateChannel`). `ChannelInductive`; `NewestIsHeld`,
  `FramesAreWhole`, `TicksAreInOrder`, `AckIsOfTheWorld`, `TicksAreRead`; and `ChannelIsARegister`.
- **`ProcessProofs`** (of `Host`, `Sealing` and `ClientSession`). `HostInvariant`; `OwnerIsWired`,
  `TicksAreRecorded`, and, if no client is hostile, `OwnersSpeak`. `SealingInvariant` and
  `SealedTogether`. `IntentionsAreAnchored`.
- **`ClientProofs`** (of `EventBacklog`, `Prediction`, `Lobby` and `HiddenCasts`).
  `NothingIsLostSilently`, of what a seat is told; `ForgetsNothing`, `BeliefShadows` and
  `DrawnWhereItIs`, of what its client predicts; `CrossingsAreMeasured`, of what it measures;
  `HandlesName` and `HiddenCastsStayHidden`, of the names in two matches side by side.
- **`HandleProofs`** (of `HandleSpace`). `OneMatch`: one name per projectile and one projectile
  per name, the map within the arena, nothing left out while a name is left.
- **`WorldProofs`** (of `World` and `WorldProperties`). `WorldIsSound`, that every tick leaves a world of
  the rules; `TheWinnerStands`; `EveryHitPointIsTold`, of a tick that did not fill the event buffer;
  `FogHidesEnemies` and `FogHidesTheArena`, two of the three parts of
  `FogIsOpaque`.
- **`RecordsProofs`** (of `Corpus`, `CorpusReports`, `Evidence` and `Clocks`). `CorpusTypeCorrect`;
  `CorpusInvariant`; `HoldsUnderConsent`, `ForgetsTheWithdrawn`, `HoldsNothingSilently`,
  `RevocationsHold`, the action property `WithdrawsTwiceForNothing`, and `CorpusReportsAgree`.
  `AcceptedIsAsSealed`, the part of `EvidenceIsVerified` that says what verifying is worth.
  `ClockReadAtItsRate`.

`FoldLemmas` has only lemmas, which say nothing of the code: what a fold over a sequence of any length, or over
a finite set of any size, comes to.

`TypeOK`, `AckIsApplied`, `AckMonotone`, `RunningIsClosed`, `FramesAreWhole`, `TicksAreInOrder`
and `NamesAreOfTheLive` are proved and not checked by a run of their own.

Assumptions: those of `MatchConstants`, `ChannelConstants`, `HostConstants` and `BacklogConstants` (a
frame's room is positive and less than the queue's, as the code asserts), which otherwise say that the bounds are
natural numbers, the rate, the capacities and the number of shards positive, and that the values
standing for no connection and no seat are none. `CorpusAssumption` says that matches are
finitely many, that who played one is a person, that a pseudonym is part of itself, that a
grant is of purposes, and that the consent document has a first version. `HandleConstants` says that
the match's handles do not come round within one projectile's lifetime: at most nine casts a tick for
forty-five ticks, against 64536 handles. `PredictionConstants`
says that there is one seat and that spawn, foe and the map's edge are points of the line.
`ClientAssumption` says that an outbox has room and its other bounds are natural numbers, `ClockConstants`
that a clock has a rate and an epoch. `LobbyGeometry` says of a leg to a button what the code's table of
targets gives: it starts at a target that does not overlap the button, at least the shortest
measurable reach away, and two of the buttons are reached from directions that have none in common. `WorldConstants` says that seats and towers are numbered from zero and a
tower's handle is no seat's, that everybody spawns on the map, that no constant of the rules is negative, that
champions and towers have hit points, and that two teams have a tower. TLC
evaluates each of them on a run. `Sealing` and `Evidence` need none.

The arguments. `LogCanonical` alone is not inductive: it speaks of the log, and the next slice
comes from the queues. `IInv` of `Match` adds that a queue is strictly increasing and within the rate, that
everything in it is above everything of that seat in the log and at most the session's highest number,
that log, queue and history agree on what was accepted, that the roster of a running match is
closed (or a new session would start its numbers over in the same log), and that a frame
carries the session's applied number. A step preserves it action by action; the contract
properties, the monotone acknowledgement and the refinement then follow. The recording is another matter:
it puts the log's slices end to end and the verifier sorts the inputs back into buckets by the tick each
carries. That the flat list is the slices laid one after another, each in its place, is an
invariant of the first fold; that each bucket has received exactly the inputs of its tick so far, in their
order, is one of the second.

For the channel, `ChannelInv` says that every shard in flight is of a frame that was sent, that what
the buffer marks present are exactly the shards that arrived of the frame being built, and
that the client's world is the last frame given out. That the completed buffer is one sent frame
and not parts of two is its consequence; in-order delivery follows from the sequence number
of the frame being built never going down. Whatever has arrived of that frame arrived in time
(`TimelyInv`), since a shard of a newer one would have replaced it; so a frame has all its shards in time
only if the last of them completed it.

For the host, every step is a step of `Match` or leaves it alone, so `IInv` carries over. `ArrivalInv` says
that a connection is in the channel as an arrival at most once, before it owns anything, and that
no connection owns two seats; `WireInv`, that a wire leads to its seat's owner or nowhere. Who speaks
for a seat needs more: `PhaseOf` follows a connection from the handshake to the end of its stream,
and `WordsOf` says that whatever it has said and the loop has not yet heard is under a seat it
still holds, with its surrender the last of it. That is what keeps a frame that waits in the channel
from being heard under a seat that has since been given to somebody else; a
client that talks on after it surrenders breaks it, which is why the theorem excludes them.

For the executable, `SealInv` ties the phase `main()` is in to what it has read and written:
before the companion is begun nothing stands on disk, while it is written only it may be partial,
and the replay is begun only with the whole companion of the log it commits to beside it.

For the client session, `AnchoredInv` follows an intention from the press through the outbox to the
stream and says at each place that it carries the number and the view of its anchor, with none left out
while nothing was dropped or refused. A wake folds what waits in its mailbox: `KeepsPace` is what that
fold keeps, that it spends a number on a sample and a frame each time, and a frame is missing
only from the last, when the session ended.

For the backlog, `BInv` says that what was told is sorted, what waits is sorted and newer, and all
of it was seen; that told, waiting and dropped add up to what was seen, until the count of dropped
saturates; and that an event has moved a frame nearer the head for each tick it waited,
from which its longest wait follows. What a recipient sees is any subset of a tick's events: that picking
them keeps their order is `SeenInOrder`, by counting the places picked (`Counting`, `KthPlace`).

For the prediction, the property compares what the client still holds with what the server did of what
it let go, and the two meet only through what is under way between them. `UplinkInv` says that
the stream up carries the client's intentions without a gap, and that each it no longer carries was
accepted or refused. `DownlinkInv` says that acknowledgements never fall from the client's anchor
through the views on their way to what the session has applied. `OutstandingInv` says that what is
predicted starts right after the anchor's acknowledgement and leaves nothing out. So an intention the
client has let go is one the session has applied past; `IInv` of `Match` puts the queue above that,
and an intention that was accepted and is not in the queue is in the log. What it believes (`SInv`) is
compared as one fold with another: where client and server have folded the same intentions the beliefs
are one (`Shadows`), but for an order the champion has arrived at, which the server has cleared and the client
cannot know of; each intention folded and each tick walked keeps that. Every view on its
way carries it along (`Follows`), so it holds again at whichever view the client hears next. Where
nothing was refused the queue is a run of the stream (`QueueRuns`), and the client in step folds what the
server is about to.

For the lobby, `LegInv` says that a leg began with the hand on a target it had clicked and that, until
it meets a wall, its counts are the way from there to the cursor; that a crossing cannot come out longer
than its path is the triangle inequality (`NoLonger`). `MeasuredInv` counts a leg closed for every button
clicked, and an octant seen for every leg that met no wall.

For the world, a tick is seven folds, each over the world the last one made. Every operation that is folded
keeps `Undecided`, the worlds of the rules in which nothing is decided, so every fold does; the last phase
alone decides, and looks at the towers the tick leaves. `Stands` carries the decision along, since a decided
world does nothing but count. A view is written as a function of what the team sees from, what it sees
there and what the seat itself holds (`SameToSeat`): worlds that agree on these give one view. No
enemy is among the eyes of a team, so nothing of an enemy it does not see is among those. Of the
events of a tick, `Tally` follows what they say through every phase: what they add up to for a champion or a tower is
what it has lost since the tick began (`Accounts`), until deaths are resolved, where `FallOf` finds the one
fall of each that came to zero.

For the corpus, what a property says of the files is not inductive, because most of what a command
does is still to come: a withdrawal that has removed a name has yet to remove the consent it rested
on. `Held` says what holds of the files at every moment, that consent stands beside every replay that reads
and every name, and that whoever is gone is unknown. `UnderWay` says for each command
what is left of it and in which order: of a withdrawal, that the record of consent comes after the
name and after every match that lists the person, and that nothing of theirs has been overlooked; of a
store, that whoever it is of has consented, and what it has yet to commit to; of a conclusion, who is
still due. A death drops what is left and keeps `Held`, wherever it falls; only
that *every* file can be accounted for is lost by one, and `AllAccounted` says it of a corpus nothing
died in. That no file of a match stays unreported needs no such exception: files are in
directories (`FilesInDirectories`), and the audit names every directory that cannot be accounted for, those
included in which somebody left a file that is none of a match's.
The reports are sums over matches, halves and seats; that two of them agree is an induction over
the sets they run through, one element at a time, with `HeldUnderConsent` saying that whom they count
has not gone.

For the evidence, `SignatureInv` says that nothing bears the server's signature but what it sealed, unless a key it
accepts was used again; so what verifies has the manifest of a sealed match, and the commitments in that
manifest leave its inputs and its companion no choice.

For the clock, each stamp is a time rounded down: there are times, of which consecutive ones are as far apart
on both clocks as their rates and a steady delay make them, that all the stamps are roundings of
(`ClockInv`). The error of the rate is then bounded by the arithmetic of division alone.

For the handles, `ArenaInv` says how many handles ago a projectile in flight was given its own: no more
than the ticks it has flown allow, so its handle is not given out again while it flies. `NamedInv` says that
the map names what is in flight only, and below the counter; `ToldInv`, that what is in flight and
was ever shown is still in the map under the name it was shown by. Without the pruning of each tick
(`forget_departed`) the first fails, and a new projectile inherits the name of a departed one. For
two matches side by side, `OpenStep` and `CallsStep` write one tick as a function of what the recipient
may come to see: which of it flies, for how long, which names it has, where the counter stands, what was
cast, hit and seen of it. Names go by the rank of a projectile's handle among the new ones; as long as
no handle has come round, that is its rank among their labels (`SameCount`), so neither a hidden cast nor a
handle occurs in that function, and two matches that agree before a tick agree after it.

Only model-checked: of the world, that events stay within their
buffer (`EventBudget`, and with it that `EveryHitIsTold` of every tick), that order of arrival is no advantage (`NoAdvantage`), and
that the slots of the arena and unseen events are not told (`OrderIsHidden`); `FixedPoint`; the
formats and the digests; of the evidence, that each way to fail is told apart and that
what was filed belongs together; `Calibration`, `Reactions` and `Evaluation`. Liveness
(`BegunMatchEnds`, `WaitEnds`, `LoopLearnsOfTheEnd`) is out of the
prover's reach and stays with TLC. Induction along `FoldLeft` and over finite sets is within it:
`FoldLemmas` proves it once of an operator that is a constant of the module, and each fold is an instance. What
stays out is what recursive operators, `SelectSeq` and sorting compute, which is what the encodings, the
list of shots in a view and the detectors are made of.

## Bounds

The counters the code leaves unbounded are bounded by guards: ticks (`MaxTicks`), sequence
numbers (`MaxSeq`), frames (`MaxFrames`), casts (`MaxCasts`), commands (`MaxCommands`), presses and
views (`MaxPresses`, `MaxViews`).

- `MCMatch`: two seats, a rate of two, three sequence numbers, two ticks: a seat changes hands
  in the lobby, a burst exceeds the rate, an input is sent again after its first copy was
  drained, a session surrenders between ticks, the refusal counter saturates. Four seats of three
  teams, a tower each, two inputs per slice: a champion falls and comes back, two seats
  hit the same target in one tick, shots overlap in a reused arena, and a match is decided
  with a shot in the air toward the winner's tower. Eight-bit numbers, four of them fraction, over
  small operands and those at both ends of the range, where products leave the width.
- `MCProcesses`: two connections, one expected player, channel and streams of one event, so that
  every producer meets a full channel. Two seats' parts, of which one can be missing, torn or of an
  earlier match while the other is whole. An outbox of one, which the second frame finds full, and
  a trace of five samples, which two views and five presses overflow. Three frames of two shards: a frame
  is overtaken half built, and a shard of it comes back after that. The three host runs
  that expect a violation use a channel of two, so that a closure or a frame can be queued behind an arrival.
- `MCClient`: five points, four intentions, a rate of two, five ticks: three intentions bunch
  in one tick and views are missed. Five handles for six casts, so the counter comes
  round with names remembered. Five events in a tick against a queue of four, a frame of two,
  three ticks. Five moves of a hand in a lobby a tenth its size, two of them beyond the wall.
  `MCClientInStep` needs only walking and standing still.
- `MCRecords`: two people, of whom one pseudonym is a prefix of the other, two matches, one
  of both and one of one, four commands, a file left in a match directory counted as one: enough to
  sign, file, revoke or withdraw, and run one more over what a death left. Every command may die; after a
  death only a store, a withdrawal or a conclusion may again (`MortalAgain`), since those are the ones
  that remove or leave files of a match. Messages of every kind, shortest and longest, options
  present and absent, two bytes wrong in a frame and one in a file. Three matches and three changes to
  their files. A hash of eight cells a block, so that padding meets a full block and one nearly so.
  Two people at one device with three sessions, so that one is not enough for an estimate and
  two may be. Two enemies and four ticks, in which one can appear twice, and a dispersion told in halves of a tick (`CENTITICKS`), so that rounding
  reaches zero. Three matches of people and one
  of bots, three people making a basis.

## Fairness

The host's two arms are weakly fair: `select!` picks among ready arms at random and the runtime
polls the loop's task, so neither an event that is ready nor a tick that is due waits for ever.
Nothing is assumed of the clients, nor of the tasks that accept and read. The executable is
weakly fair in going on (`Server`) and in its deadline, which is a clock's; nothing is
assumed of the clients whose parts it waits for, nor that it is not killed. The client is weakly fair in
handling an event it was woken for, in leaving a loop that was told to exit, and in its network
task noticing that the connection is gone, which the transport's idle timeout sees to; nothing is assumed
of the player. The host's tick takes for granted that
the write in an arm of the loop returns (`net.rs:391`): a peer that grants no flow control holds it up until
its connection idles out, which is bounded too. No other module assumes fairness.

## Not modelled, and the limits of the models

- QUIC and TLS are a stream that is in order until it ends and a set of datagrams. Handshake
  details, versions and certificates are not modelled.
- The compression of a SHA-256 block, and signatures: a digest is a function that tells its
  blocks apart, a signature is who signed what. The mixing of the generator: any sequence of words.
- The disclosure page, drawing, and the scripted players of a playtest keep nothing and decide
  nothing. The cadence of frames, the health line and the command lines are left out of the client
  and the executable.
- Floating point (the fit of a reach time, the scores of a detector) is integer arithmetic,
  multiplied out: what is modelled is what is compared with what, not the last bit of a quotient.
- `World` is checked on constants of its own, as the code's fixtures are. The bound on events
  speaks of constants that keep a champion dead at least as long as its shot flies, which `RULES` does
  (450 ticks against 45) and nothing asserts: a respawn clears cooldowns, so with a shorter death
  `projectiles_in_flight` would not be a bound.
- `Match` leaves the world abstract, `World` leaves the slices' making to `Match`; that the slice
  is stamped, sorted and within the rate is `LogCanonical`. Likewise `Sealing` ends where
  `Evidence` begins, and `Reactions` leaves what is in sight to `World`.
- Seen while modelling, and not contradicted by any sentence of the repository:
  writing the handshake to a dead connection ends the host for everybody (`net.rs:391`);
  a number refused for rate below a later accepted one is covered by the acknowledgement all the
  same (`message.rs:120`);
  the window client queues its surrender and exits its loop at once (`gfx.rs:613`), so its seat may be
  left occupied;
  a conclusion finds who is due by their consent record, so one that dies between removing it and
  writing the tombstone leaves no tombstone;
  a permission to train that was given is not asked for again when the matches are loaded
  (`permit.rs:337`);
  `store` does not look whether the match directory or a tombstone exists;
  a session part names no match (`session.rs:477`);
  a clock rate too large for its integer is read as the largest one whatever its sign
  (`features.rs:299`);
  a claimed number of inputs is subtracted from with no look at which is larger
  (`bin/replay.rs:1207`), and the reached count of a purpose includes matches that cannot be
  accounted for (`bin/replay.rs:1012`).

## Plan

What is left:

- A composition of `ClientSession` with `Host` in place of its external client, so that the
  surrender of `gfx.rs:613` meets the seat it leaves behind.

- Of `World`, that no tick fills the event buffer (`EventBudget`), which bounds the shots in flight by the
  cooldowns over several ticks; with it `EveryHitPointIsTold` loses its premise.

Arithmetic in `FixedPoint` and every statement about an encoding need what a recursive
operator computes, and stay with TLC.

## Running

    tlc -workers 2 -config MCMatch.cfg MCMatch
    tlapm MatchProofs.tla

`PROJECT.json` names the configuration and module of every run, maps every definition to the
lines it translates, and lists hazards, findings and theorems.
