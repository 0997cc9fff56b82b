------------------------------- MODULE Sealing -------------------------------
(***************************************************************************)
(* The server executable (server/src/main.rs): host the match, wait for    *)
(* the telemetry parts the clients write as they leave, seal them into a   *)
(* companion, commit the replay to it, write both.                         *)
(*                                                                         *)
(* Server and clients share a directory and nothing else.  A write is two  *)
(* steps, the creation of the file and its bytes, and reading a directory  *)
(* is one step per file; anything may happen in between, the death of the  *)
(* process included.  A client's side is the end of ClientSession.tla.     *)
(***************************************************************************)
EXTENDS Naturals, Sequences, FiniteSets

CONSTANT SeatNumbers

(* What a file in the directory of parts is worth to TelemetryPart::decode: *)
(* nothing there, a prefix of a part, or a part of this match or of one     *)
(* played before (a part names no match).                                   *)
Absent  == "absent"
Torn    == "torn"
Now     == "now"
Before  == "before"

VARIABLES
  given,     \* the command line: a key and an output, directories for the parts
  fresh,     \* history: whether the directory of parts was empty at the start
  phase,     \* where main() is
  spoke,     \* the seats with an input in the recording
  client,    \* seat -> "playing", "writing" or "gone"
  part,      \* seat -> what its telemetry part is worth
  toRead,    \* the entries of the directory still to be read, this round
  found,     \* what was read of them: seat -> worth
  overdue,      \* the deadline has passed
  collected,       \* what collect() returned: None or Some(seat -> worth)
  companion, \* on disk: Missing, Partial or the log it Holds
  replay,    \* on disk: Missing, Partial or the commitment it Holds
  exit       \* "none", "SUCCESS", "FAILURE" or "killed"

svars == <<given, fresh, phase, spoke, client, part, toRead, found, overdue, collected,
           companion, replay, exit>>

None    == <<>>
Some(x) == <<x>>
Nothing == [s \in {} |-> Absent]

Missing    == <<>>
Partial    == <<"partial">>
Holds(x)   == <<"holds", x>>
Whole(file) == Len(file) = 2

SInit ==
  /\ given \in [key : BOOLEAN, parts : BOOLEAN]
  /\ fresh \in BOOLEAN
  /\ part \in [SeatNumbers -> IF fresh THEN {Absent} ELSE {Absent, Before}]
  /\ phase = "hosting" /\ spoke = {} /\ client = [s \in SeatNumbers |-> "playing"]
  /\ toRead = {} /\ found = Nothing /\ overdue = FALSE /\ collected = None
  /\ companion = Missing /\ replay = Missing /\ exit = "none"

serverOnly == <<given, fresh, spoke, toRead, found, overdue, collected, companion, replay, exit>>

-----------------------------------------------------------------------------
(* The clients, each at its own time, before the match ends or after.      *)

(* fs::write truncates the file and then fills it.                         *)
ClientOpens(s) ==
  /\ client[s] = "playing"
  /\ client' = [client EXCEPT ![s] = "writing"]
  /\ part'   = [part EXCEPT ![s] = Torn]
  /\ UNCHANGED <<serverOnly, phase>>

ClientFills(s) ==
  /\ client[s] = "writing"
  /\ client' = [client EXCEPT ![s] = "gone"]
  /\ part'   = [part EXCEPT ![s] = Now]
  /\ UNCHANGED <<serverOnly, phase>>

(* It crashes, its disk is full, or it records nothing.                    *)
ClientDies(s) ==
  /\ client[s] # "gone"
  /\ client' = [client EXCEPT ![s] = "gone"]
  /\ UNCHANGED <<serverOnly, phase, part>>

-----------------------------------------------------------------------------
(* main()                                                                  *)

Exit(code) == exit' = code /\ phase' = "over"

(* host() returns a recording, or the error of a stream that failed while  *)
(* the match ran, a handshake's included.  Without key and output there is *)
(* nothing more to do.                                                     *)
Hosted ==
  /\ phase = "hosting"
  /\ spoke' \in SUBSET SeatNumbers
  /\ IF ~given.key THEN Exit("SUCCESS")
     ELSE /\ phase' = IF given.parts THEN "listing" ELSE "replay"
          /\ UNCHANGED exit
  /\ UNCHANGED <<given, fresh, client, part, toRead, found, overdue, collected, companion, replay>>

HostFails ==
  /\ phase = "hosting"
  /\ Exit("FAILURE")
  /\ UNCHANGED <<given, fresh, spoke, client, part, toRead, found, overdue, collected, companion, replay>>

(* collect: a round lists the directory and reads the entries one by one;  *)
(* what cannot be read is passed over.                                     *)
List ==
  /\ phase = "listing"
  /\ phase'  = "reading"
  /\ toRead' = {s \in SeatNumbers : part[s] # Absent}
  /\ found'  = Nothing
  /\ UNCHANGED <<given, fresh, spoke, client, part, overdue, collected, companion, replay, exit>>

Read(s) ==
  /\ phase = "reading" /\ s \in toRead
  /\ toRead' = toRead \ {s}
  /\ \/ found' = [t \in DOMAIN found \cup {s} |-> IF t = s THEN part[s] ELSE found[t]]
     \/ UNCHANGED found
  /\ UNCHANGED <<given, fresh, phase, spoke, client, part, overdue, collected, companion, replay, exit>>

(* TelemetryLog::assemble: every part found has to decode.  (Two parts of  *)
(* one seat need a second file name, which no client writes.)              *)
Assembles == Torn \notin {found[s] : s \in DOMAIN found}

CoversSome == DOMAIN found \subseteq spoke          \* mutant: whoever copied a file
Covers     == DOMAIN found = spoke

Waits == phase' = "listing" /\ UNCHANGED collected
GivesUp == phase' = "replay" /\ UNCHANGED collected

JudgeWaiting ==                                     \* mutant: the deadline is for silence only
  IF ~Assembles THEN GivesUp
  ELSE IF Covers THEN phase' = "companion" /\ collected' = Some(found)
  ELSE IF overdue /\ found = Nothing THEN GivesUp ELSE Waits
JudgePatiently ==                                   \* what collect() documents
  IF Assembles /\ Covers THEN phase' = "companion" /\ collected' = Some(found)
  ELSE IF overdue THEN GivesUp ELSE Waits
JudgeRound ==
  IF ~Assembles THEN GivesUp
  ELSE IF Covers THEN phase' = "companion" /\ collected' = Some(found)
  ELSE IF overdue THEN GivesUp ELSE Waits

Judge ==
  /\ phase = "reading" /\ toRead = {}
  /\ JudgeRound
  /\ UNCHANGED <<given, fresh, spoke, client, part, toRead, found, overdue, companion, replay, exit>>

Deadline ==
  /\ phase \in {"listing", "reading"} /\ ~overdue
  /\ overdue' = TRUE
  /\ UNCHANGED <<given, fresh, phase, spoke, client, part, toRead, found, collected,
                 companion, replay, exit>>

(* The companion first, then the replay that carries its digest; a write   *)
(* that fails ends the process there.                                      *)
Fails == Exit("FAILURE") /\ UNCHANGED <<companion, replay>>

WriteCompanion ==
  /\ phase = "companion"
  /\ \/ companion = Missing /\ companion' = Partial /\ UNCHANGED <<phase, replay, exit>>
     \/ companion = Partial /\ companion' = Holds(collected) /\ phase' = "replay" /\ UNCHANGED <<replay, exit>>
     \/ Fails
  /\ UNCHANGED <<given, fresh, spoke, client, part, toRead, found, overdue, collected>>

CommitmentToLast == IF found = Nothing THEN None ELSE Some(found)  \* mutant: to what was read last
Commitment == collected

WriteReplay ==
  /\ phase = "replay"
  /\ \/ replay = Missing /\ replay' = Partial /\ UNCHANGED <<phase, companion, exit>>
     \/ replay = Partial /\ replay' = Holds(Commitment) /\ Exit("SUCCESS") /\ UNCHANGED companion
     \/ Fails
  /\ UNCHANGED <<given, fresh, spoke, client, part, toRead, found, overdue, collected>>

Killed ==
  /\ phase # "over"
  /\ Exit("killed")
  /\ UNCHANGED <<given, fresh, spoke, client, part, toRead, found, overdue, collected, companion, replay>>

Server ==
  \/ List \/ Judge \/ WriteCompanion \/ WriteReplay
  \/ \E s \in SeatNumbers : Read(s)

SNext ==
  \/ Hosted \/ HostFails \/ Server \/ Deadline \/ Killed
  \/ \E s \in SeatNumbers : ClientOpens(s) \/ ClientFills(s) \/ ClientDies(s)

(* The process runs and the clock advances; the clients owe nothing, and   *)
(* how long a match takes is Host.tla.                                     *)
SFairness == WF_svars(Server) /\ WF_svars(Deadline)

SSpec == SInit /\ [][SNext]_svars /\ SFairness

-----------------------------------------------------------------------------
(* A companion covers exactly the seats that played, each with a whole     *)
(* part -- although parts are read while their clients are writing them -- *)
(* and with parts of this match if the directory was empty when it began.  *)
(* main.rs:30, "a companion covering six of nine seats"; collect().        *)
CompanionIsWhole ==
  Whole(companion) =>
    LET sealed == companion[2][1]
    IN  /\ DOMAIN sealed = spoke
        /\ \A s \in spoke : sealed[s] \in (IF fresh THEN {Now} ELSE {Now, Before})

(* Whenever the process dies, and whichever write fails, a replay on disk  *)
(* that commits to a companion has that companion beside it, one that      *)
(* commits to none has none, and success is said of nothing less.          *)
(* main.rs: the companion is written first.                                *)
ReplayFindsItsCompanion ==
  /\ CompanionIsWhole
  /\ Whole(replay) => companion = IF replay[2] = None THEN Missing ELSE replay
  /\ exit = "SUCCESS" /\ given.key => Whole(replay)
  /\ exit = "FAILURE" => ~Whole(replay)

(* A match that was hosted with a key is sealed or the process said why    *)
(* not: it never waits for ever, whoever keeps their part.  main.rs:133.   *)
WaitEnds == phase = "listing" ~> phase = "over"
=============================================================================
