------------------------------ MODULE Evidence ------------------------------
(***************************************************************************)
(* The evidence a match leaves, and what its readers say of it: the replay *)
(* and its companion as they are sealed (replay/src/container.rs,          *)
(* telemetry.rs, keys.rs), `replay verify', and the checks `replay store'  *)
(* makes of the files against each other (attest.rs, session.rs,           *)
(* corpus.rs).                                                             *)
(*                                                                         *)
(* A digest is what it is the digest of, and a signature is who signed     *)
(* what.  The world a log leads to is what its inputs did, in order; an    *)
(* input may do nothing.  Files are altered between sealing and reading:   *)
(* edited, mixed up with those of another match, sealed again.             *)
(***************************************************************************)
EXTENDS Naturals, Sequences, FiniteSets, SequencesExt

CONSTANTS
  ESeats,         \* the seats
  Hosted_,         \* the matches there are files of
  Recording_(_),  \* what the server recorded of one: seed, ticks, inputs
  Named_(_),      \* seat -> pseudonym or Nobody
  Streams_(_),    \* None, or Some of seat -> its device stream, Some or None
  Parts_(_),      \* the session parts its clients wrote
  MaxChanges      \* bound: alterations

Nobody  == "nobody"
None    == <<>>
Some(x) == <<x>>
The(x)  == x[1]
IsSome(x) == x # None

Server  == "the server's key"
Another == "another key in the registry"
Foreign == "a key nobody accepts"

ThisBuild == [rules |-> "rules", version |-> "version"]

VARIABLES
  of_,       \* the match whose files these are
  rep,       \* the replay
  com,       \* None, or Some companion
  parts,     \* the session parts
  keys,      \* the registry: accepted key -> "active" or "retired"
  trail      \* history: what was altered, in order

evars == <<of_, rep, com, parts, keys, trail>>

-----------------------------------------------------------------------------
(* Sealing.                                                                *)

Untimed(inputs) ==
  [i \in DOMAIN inputs |-> <<inputs[i].tick, inputs[i].seat, inputs[i].act>>]

(* resimulate: a bucket per tick, inputs of no such tick left out; and of  *)
(* the world, what the inputs did that did anything.                       *)
Resimulate_(seed, ticks, inputs) ==
  LET Of(t) == SelectSeq(Untimed(inputs), LAMBDA i : i[1] = t /\ i[3] # "idle")
  IN  <<seed, FlattenSeq([t \in 1 .. ticks |-> Of(t)])>>
OutcomeOf(world) == IF world[2] = <<>> THEN None ELSE Some(Last(world[2])[2])

SignedBy(m, k) == <<k, m>>

Facts_(stream) ==
  LET Count(kinds) == Len(SelectSeq(stream.samples, LAMBDA s : s \in kinds))
  IN  [about |-> stream.about, samples |-> Count({"move", "press"}),
       motions |-> Count({"move"}), views |-> Count({"view"})]

TracesOf(log) == [s \in ESeats |-> IF IsSome(log[s]) THEN Some(Facts_(The(log[s]))) ELSE None]

Body(log) == FlattenSeq([s \in 1 .. Cardinality(ESeats) |->
                           IF IsSome(log[s - 1]) THEN The(log[s - 1]).samples ELSE <<>>])

SealCompanion(id, log) ==
  LET m == [id |-> id, server |-> Server,
            seats |-> TracesOf(log),
            digest |-> Body(log)]
  IN  [m |-> m, signature |-> SignedBy(m, Server), log |-> log]

Companion_(id) == IF IsSome(Streams_(id)) THEN Some(SealCompanion(id, The(Streams_(id)))) ELSE None

SealReplay(id, r) ==
  LET world == Resimulate_(r.seed, r.ticks, r.inputs)
      m == [id |-> id, server |-> Server, seed |-> r.seed, rules |-> ThisBuild.rules,
            version |-> ThisBuild.version, names |-> Named_(id), ticks |-> r.ticks,
            count |-> Len(r.inputs), digest |-> Untimed(r.inputs), outcome |-> OutcomeOf(world),
            final |-> world, companion |-> Companion_(id)]
  IN  [m |-> m, signature |-> SignedBy(m, Server), inputs |-> r.inputs]
Replay_(id) == SealReplay(id, Recording_(id))

-----------------------------------------------------------------------------
(* `replay verify': each check answers for itself, and the first that      *)
(* fails is what the reader is told.                                       *)

First(checks) ==
  IF \A i \in DOMAIN checks : checks[i][1] THEN "ok"
  ELSE checks[CHOOSE i \in DOMAIN checks : ~checks[i][1] /\ \A j \in 1 .. i - 1 : checks[j][1]][2]

LogUnread(r)   == TRUE                                \* mutant: resimulation will tell
LogIsNamed(r)  == Untimed(r.inputs) = r.m.digest
LogAgrees(r)   == LogIsNamed(r)

VerifyReplay(r) ==
  LET reached == Resimulate_(r.m.seed, r.m.ticks, r.inputs)
  IN  First(<< <<r.m.server \in DOMAIN keys,            "UnknownKey">>,
               <<r.signature = SignedBy(r.m, r.m.server), "Signature">>,
               <<r.m.rules = ThisBuild.rules,           "RulesHash">>,
               <<r.m.version = ThisBuild.version,       "SimVersion">>,
               <<Len(r.inputs) = r.m.count,             "Truncated">>,
               <<LogAgrees(r),                          "InputLog">>,
               <<reached = r.m.final,                   "FinalDigest">>,
               <<OutcomeOf(reached) = r.m.outcome,      "Outcome">> >>)

CountsAgree(c) ==
  \A s \in ESeats : IsSome(c.log[s]) =>
    LET found == Facts_(The(c.log[s]))  claimed == The(c.m.seats[s])
    IN  <<found.samples, found.motions>> = <<claimed.samples, claimed.motions>>

(* Mutant: any companion of the match.                                     *)
CommittedToMatch(r, c) == The(r.m.companion).m.id = c.m.id
CommittedTo(r, c)      == The(r.m.companion) = c

VerifyCompanion(r, c, accepted) ==
  IF ~ IsSome(r.m.companion) THEN "NotCommitted"
  ELSE First(<< <<c.m.server \in accepted,               "UnknownKey">>,
                <<c.signature = SignedBy(c.m, c.m.server), "Signature">>,
                <<Body(c.log) = c.m.digest,              "Stream">>,
                <<CountsAgree(c),                        "Counts">>,
                <<c.m.server = r.m.server,               "Identity">>,
                <<c.m.id = r.m.id,                       "Match">>,
                <<\A s \in ESeats : r.m.names[s] # Nobody <=> IsSome(c.m.seats[s]), "Seats">>,
                <<CommittedTo(r, c),                     "Substituted">> >>)

(* The command's exit.  What it says of a log of the wrong length is how   *)
(* many inputs it lacks; one with more is an arithmetic overflow.          *)
TelemetryCommand(given) ==
  IF ~ IsSome(given) \/ VerifyCompanion(rep, The(given), DOMAIN keys) = "ok" THEN "SUCCESS" ELSE "FAILURE"
VerifyCommand(given) ==
  CASE VerifyReplay(rep) = "Truncated" /\ Len(rep.inputs) > rep.m.count -> "panic"
    [] VerifyReplay(rep) # "ok" -> "FAILURE"
    [] OTHER -> TelemetryCommand(given)

-----------------------------------------------------------------------------
(* `replay store', the files against each other.  (The consent of the      *)
(* named is Corpus.tla; the record is assembled under the replay's own     *)
(* identifier and this build's version, which `store' then compares.)      *)

PartsOf(s) == {i \in DOMAIN parts : parts[i].seat = s}
Assembled  == \A s \in ESeats : Cardinality(PartsOf(s)) <= 1
IsHuman(s) == PartsOf(s) # {}
Record_(s) == parts[CHOOSE i \in PartsOf(s) : TRUE]

(* Attested::of: no input of a seat nobody accounts for.                   *)
Attested(r) == \A i \in DOMAIN r.inputs : IsHuman(r.inputs[i].seat)

Participants(r)      == {s \in ESeats : r.m.names[s] # Nobody}
OnePersonEach(r) == \A s, t \in Participants(r) : r.m.names[s] = r.m.names[t] => s = t

SameInAll(s, c) ==          \* mutant: what was recorded, and not how much
  LET mine == Record_(s)  trace == The(c.m.seats[s])
  IN  trace.views # 0 /\ mine.about = trace.about
SameRecord(s, c) ==
  LET mine == Record_(s)  trace == The(c.m.seats[s])
  IN  /\ mine.samples = trace.samples /\ mine.motions = trace.motions
      /\ trace.views # 0
      /\ mine.about = trace.about
SeatAgrees(s, c) ==
  /\ IsHuman(s) <=> IsSome(c.m.seats[s])
  /\ IsHuman(s) => SameRecord(s, c)

FilesAgree(r, c) ==
  /\ OnePersonEach(r)
  /\ \A s \in ESeats : s \in Participants(r) <=> IsHuman(s)
  /\ \A s \in Participants(r) : Record_(s).samples # 0 /\ ~ Record_(s).accelerated
  /\ IsSome(c) <=> IsSome(r.m.companion)
  /\ IsSome(c) => /\ VerifyCompanion(r, The(c), {r.m.server}) = "ok"
                  /\ \A s \in ESeats : SeatAgrees(s, The(c))

Stored == Assembled /\ Attested(rep) /\ FilesAgree(rep, com)

-----------------------------------------------------------------------------
EInit ==
  /\ of_ \in Hosted_
  /\ rep = Replay_(of_) /\ com = Companion_(of_) /\ parts = Parts_(of_)
  /\ keys = [k \in {Server, Another} |-> "active"]
  /\ trail = <<>>

Did(what) == Len(trail) < MaxChanges /\ trail' = Append(trail, what)

(* One field of the manifest is another's, or is made to fit the log.      *)
Foreign_ == [rules |-> "other rules", version |-> "other version", ticks |-> 9, seed |-> "other seed",
             count |-> 9, outcome |-> Some(9), companion |-> None]
EditManifest(f) ==
  /\ Did(f)
  /\ rep' = [rep EXCEPT !.m[f] = Foreign_[f]]
  /\ UNCHANGED <<of_, com, parts, keys>>

Adjust(f) ==
  /\ Did("adjusted " \o f)
  /\ LET world == Resimulate_(rep.m.seed, rep.m.ticks, rep.inputs)
     IN  rep' = [rep EXCEPT !.m[f] = CASE f = "count"   -> Len(rep.inputs)
                                       [] f = "digest"  -> Untimed(rep.inputs)
                                       [] f = "final"   -> world
                                       [] f = "outcome" -> OutcomeOf(world)]
  /\ UNCHANGED <<of_, com, parts, keys>>

(* The log is cut, reordered, edited or retimed.                           *)
EditLog ==
  /\ Len(rep.inputs) > 1
  /\ \E e \in {"cut", "swapped", "edited", "retimed"} :
       /\ Did(e)
       /\ rep' = [rep EXCEPT !.inputs =
            CASE e = "cut"     -> Front(@)
              [] e = "swapped" -> [@ EXCEPT ![1] = rep.inputs[2], ![2] = rep.inputs[1]]
              [] e = "edited"  -> [@ EXCEPT ![1].act = IF @ = "idle" THEN "cast" ELSE "idle"]
              [] e = "retimed" -> [@ EXCEPT ![1].at = @ + 1]]
  /\ UNCHANGED <<of_, com, parts, keys>>

(* Somebody seals the file as it is.                                       *)
Reseal(k) ==
  /\ Did("sealed by " \o k)
  /\ rep' = [rep EXCEPT !.m.server = k, !.signature = SignedBy([rep.m EXCEPT !.server = k], k)]
  /\ UNCHANGED <<of_, com, parts, keys>>

(* The companion is edited, or is that of another match, and so the parts. *)
EditCompanion ==
  /\ IsSome(com)
  /\ \E e \in {"companion's id", "seat unlisted", "motion uncounted", "sample"} :
       /\ Did(e)
       /\ \E s \in ESeats :
            /\ IsSome(The(com).log[s])
            /\ com' = CASE e = "companion's id"   -> [com EXCEPT ![1].m.id = "no match"]
                        [] e = "seat unlisted"    -> [com EXCEPT ![1].m.seats[s] = None, ![1].log[s] = None]
                        [] e = "motion uncounted" -> [com EXCEPT ![1].m.seats[s][1].motions = @ + 1]
                        [] e = "sample"           -> [com EXCEPT ![1].log[s][1].samples[1] = "press"]
  /\ UNCHANGED <<of_, rep, parts, keys>>

AdjustCompanion ==
  /\ IsSome(com) /\ Did("companion adjusted")
  /\ com' = [com EXCEPT ![1].m.digest = Body(The(com).log), ![1].m.seats = TracesOf(The(com).log)]
  /\ UNCHANGED <<of_, rep, parts, keys>>

ResealCompanion(k) ==
  /\ IsSome(com) /\ Did("companion sealed by " \o k)
  /\ com' = [com EXCEPT ![1].m.server = k, ![1].signature = SignedBy([The(com).m EXCEPT !.server = k], k)]
  /\ UNCHANGED <<of_, rep, parts, keys>>

TakeCompanionOf(other) ==
  /\ other # of_ /\ Did("another match's companion")
  /\ com' = Companion_(other)
  /\ UNCHANGED <<of_, rep, parts, keys>>

TakePartsOf(other) ==
  /\ other # of_
  /\ \/ Did("another match's parts") /\ parts' = Parts_(other)
     \/ Did("both matches' parts") /\ parts' = parts \o Parts_(other)
  /\ UNCHANGED <<of_, rep, com, keys>>

Retire ==
  /\ keys[Server] = "active" /\ Did("retired")
  /\ keys' = [keys EXCEPT ![Server] = "retired"]
  /\ UNCHANGED <<of_, rep, com, parts>>

ENext ==
  \/ \E f \in DOMAIN Foreign_ : EditManifest(f)
  \/ \E f \in {"count", "digest", "final", "outcome"} : Adjust(f)
  \/ EditLog \/ EditCompanion \/ AdjustCompanion \/ Retire
  \/ \E k \in {Server, Another, Foreign} : Reseal(k) \/ ResealCompanion(k)
  \/ \E other \in Hosted_ : TakeCompanionOf(other) \/ TakePartsOf(other)

ESpec == EInit /\ [][ENext]_evars

-----------------------------------------------------------------------------
(* Unless an accepted key was used again, what `verify' accepts is what    *)
(* the server sealed: every word of the manifest, and every input in its   *)
(* place and order -- when it came is not sealed.  And whoever sealed it,  *)
(* the companion accepted with a replay nobody touched is its companion.   *)
(* container.rs and telemetry.rs, verify(), with bin/replay.rs.            *)
SealedAgain == \E i \in DOMAIN trail : trail[i] \in {"sealed by " \o Server, "sealed by " \o Another}

VerifiedIsAsSealed ==
  VerifyCommand(com) = "SUCCESS" /\ ~ SealedAgain =>
    /\ rep.m = Replay_(of_).m
    /\ Untimed(rep.inputs) = Untimed(Replay_(of_).inputs)
    /\ com \in {None, Companion_(of_)}

(* The table of container.rs:54-70: what was done to a file and went no    *)
(* further is told by its own name, with its own error; TelemetryError's   *)
(* cases likewise.                                                         *)
ToldAs ==
  { <<"rules", "RulesHash">>, <<"version", "SimVersion">>, <<"cut", "Truncated">>,
    <<"swapped", "InputLog">>, <<"edited", "InputLog">>, <<"seed", "FinalDigest">>,
    <<"outcome", "Outcome">> }
CompanionToldAs ==
  { <<"companion's id", "Match">>, <<"seat unlisted", "Stream">>, <<"motion uncounted", "Counts">>,
    <<"sample", "Stream">> }
ByServer          == "sealed by " \o Server
CompanionByServer == "companion sealed by " \o Server

EachIsToldApart ==
  /\ \A t \in ToldAs :
       /\ trail = <<t[1], ByServer>> => VerifyReplay(rep) = t[2]
       /\ trail = <<t[1]>> => VerifyReplay(rep) = IF t[2] \in {"Truncated", "InputLog"} THEN t[2] ELSE "Signature"
  /\ trail = <<"edited", "adjusted digest", ByServer>> => VerifyReplay(rep) = "FinalDigest"
  /\ trail = <<"sealed by " \o Foreign>> => VerifyReplay(rep) = "UnknownKey"
  /\ trail \in {<<>>, <<"retimed">>, <<"retired">>} => VerifyReplay(rep) = "ok"
  /\ IsSome(com) /\ rep = Replay_(of_) /\ IsSome(rep.m.companion) =>
       LET told == VerifyCompanion(rep, The(com), DOMAIN keys)
       IN  /\ \A t \in CompanionToldAs : trail = <<t[1], CompanionByServer>> => told = t[2]
           /\ trail = <<"another match's companion">> => told = "Match"
           /\ trail = <<"companion sealed by " \o Another>> => told = "Identity"
           /\ trail = <<"sample", "companion adjusted", CompanionByServer>> => told = "Substituted"

(* What is filed was played: every input is of a seat a part was written   *)
(* for, and where there is a stream it is the stream that part counted --  *)
(* although a part names no match, and parts of another may lie beside     *)
(* this one's.  attest.rs; corpus.rs 504-656.                              *)
FiledBelongTogether ==
  Stored =>
    /\ \A i \in DOMAIN rep.inputs : rep.inputs[i].seat \in Participants(rep)
    /\ IsSome(com) => The(com).m.id = rep.m.id /\ parts = Parts_(The(com).m.id)
=============================================================================
