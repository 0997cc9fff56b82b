------------------------------- MODULE Corpus -------------------------------
(***************************************************************************)
(* The corpus directory (replay/src/corpus.rs) and the commands of the     *)
(* `replay` tool that write to it (replay/src/bin/replay.rs).              *)
(*                                                                         *)
(* A command checks what it has to check when it starts, and then carries  *)
(* out a sequence of file operations, none of which is atomic with the     *)
(* next: the process may die between two of them or in the middle of a     *)
(* write.  One operator runs one command at a time.                        *)
(*                                                                         *)
(* A publication is the same three files of a match under another root,    *)
(* which no search of the corpus reaches: one path stands for them.        *)
(*                                                                         *)
(* Left out: the contents of the three match files beyond "it decodes"     *)
(* (the checks of `store` that compare the three offered files with each   *)
(* other are in Evidence.tla), dates, and the age flag, which `enrol`      *)
(* refuses to write as anything but adult (bin/replay.rs).                 *)
(***************************************************************************)
EXTENDS Naturals, Sequences, FiniteSets, SequencesExt

CONSTANTS
    People,          \* the pseudonyms
    Matches,         \* the match identifiers that may be filed
    Players(_),      \* Players(m): who a match's manifest names
    Committed,       \* the matches whose replay commits to a telemetry companion
    Within(_),       \* Within(p): the pseudonyms whose text contains p's, p among them
    Purposes,        \* the separable purposes (consent.rs, Purpose::ALL)
    Grants,          \* the permission sets a participant may sign for
    MaxDocument,     \* how many versions of the consent document there will be
    MaxCommands,     \* how many commands are run, files left in a directory counted
    Mortal,          \* the commands the process may die in
    MortalAgain      \* those of them it may die in after a death

Retention == "retention-after-project"
Named     == "named-attribution"
Publication == "publication"
Training    == "bot-training"

ASSUME CorpusAssumption ==
    /\ IsFiniteSet(Matches)
    /\ \A m \in Matches : Players(m) \subseteq People /\ Players(m) # {} /\ IsFiniteSet(Players(m))
    /\ Committed \subseteq Matches
    /\ \A p \in People : p \in Within(p) /\ Within(p) \subseteq People
    /\ Grants \subseteq SUBSET Purposes
    /\ MaxDocument \in Nat \ {0}

VARIABLES
    disk,         \* what each file holds
    directories,  \* the match directories there are
    document,     \* ConsentVersion::current() of the build
    running,      \* the command under way
    todo,         \* the file operations it has left
    due,          \* the participants `conclude` has still to withdraw
    (* history *)
    commands,     \* how many commands have been started, and files left
    crashed,      \* whether any command died
    met,          \* everyone whose enrolment ran to its end
    gone,         \* whose last withdrawal ran to its end, and who did not sign again
    revoked,      \* <<person, purpose>> revoked to the end, and not signed for again
    concluded     \* `conclude` ran to its end and nothing was filed or signed since

files   == <<disk, directories>>
history == <<commands, crashed, met, gone, revoked, concluded>>
vars    == <<disk, directories, document, running, todo, due, history>>

-----------------------------------------------------------------------------
(* The files.  A consent record that decodes holds what was signed for and *)
(* the document it was signed under; any other file decodes or does not.   *)

Absent == [state |-> "absent"]
Torn   == [state |-> "torn"]     \* truncated by a write that did not finish
Whole  == [state |-> "whole"]
Signed(permissions, version) ==
    [state |-> "whole", permissions |-> permissions, version |-> version]

Consent(p)   == <<"consent", p>>
Identity(p)  == <<"identity", p>>
Tombstone(p) == <<"withdrawn", p>>   \* of a withdrawal, and of each purpose: nothing reads any
Replay(m)    == <<"replay", m>>
Session(m)   == <<"session", m>>
Telemetry(m) == <<"telemetry", m>>
Stray(m)     == <<"stray", m>>       \* any other file: a client's part left behind, a copy
Published(m) == <<"published", m>>

MatchFiles(m)  == {Replay(m), Session(m), Telemetry(m)}
DirectoryFiles(m) == MatchFiles(m) \cup {Stray(m)}
PersonFiles(p) == {Consent(p), Identity(p), Tombstone(p)}
Paths ==
    (UNION {DirectoryFiles(m) \cup {Published(m)} : m \in Matches}) \cup (UNION {PersonFiles(p) : p \in People})

Exists(path)  == disk[path] # Absent
Decodes(path) == disk[path].state = "whole"

-----------------------------------------------------------------------------
(* What the readers of the corpus answer. *)

\* participants_of, whose error `withdraw` and `audit_purpose` both read as
\* "nobody's".
ParticipantsOrAnyone(m) ==     \* mutant: what does not decode is everybody's
    IF Decodes(Replay(m)) THEN Players(m) ELSE People
ParticipantsOf(m) == IF Decodes(Replay(m)) THEN Players(m) ELSE {}

Listed(p) == {m \in directories : p \in ParticipantsOf(m)}

\* permits: an absent or unreadable record grants nothing.  The mutant takes
\* an unreadable one for a grant.
PermitsUnread(p, purpose) ==
    disk[Consent(p)] = Torn \/ (Decodes(Consent(p)) /\ purpose \in disk[Consent(p)].permissions)
Permits(p, purpose) == Decodes(Consent(p)) /\ purpose \in disk[Consent(p)].permissions

\* permit::everyone_in
EveryoneIn(m, purpose) ==
    /\ Decodes(Replay(m))
    /\ \A p \in Players(m) : Permits(p, purpose)

\* attribution
Attributable(p) == Permits(p, Named) /\ Decodes(Identity(p))

\* Mutant: the replay is not looked at.
AccountableBySession(m) ==
    /\ Decodes(Session(m))
    /\ IF m \in Committed THEN Decodes(Telemetry(m)) ELSE ~ Exists(Telemetry(m))
    /\ ~ Exists(Stray(m))

\* That a companion which decodes is the one the replay commits to is checked
\* when it is stored (Evidence.tla); no command puts another in its place.
Accountable(m) ==
    /\ Decodes(Replay(m))
    /\ Decodes(Session(m))
    /\ IF m \in Committed THEN Decodes(Telemetry(m)) ELSE ~ Exists(Telemetry(m))
    /\ ~ Exists(Stray(m))

\* Publishable::of and TrainingSet::of
Usable(m, purpose) == m \in directories /\ EveryoneIn(m, purpose) /\ Accountable(m)

\* A search of every file but the tombstones for the pseudonym's text, after
\* every match directory nobody can account for.
Mentions(p) ==
    {path \in Paths :
        /\ Exists(path)
        /\ \/ \E q \in Within(p) : path \in {Consent(q), Identity(q)}
           \/ \E m \in Matches : /\ path = Replay(m)
                                 /\ Decodes(path)
                                 /\ Players(m) \cap Within(p) # {}}

Audit(p) == {m \in directories : ~ Accountable(m)} \cup Mentions(p)

AuditPurpose(p, purpose) ==
    IF purpose = Named
    THEN IF Attributable(p) THEN {p} ELSE {}
    ELSE {m \in Listed(p) : EveryoneIn(m, purpose)}

\* Mutant: a record that does not decode refuses nothing.
DueIfRefused ==
    {p \in People : Decodes(Consent(p)) /\ ~ Permits(p, Retention)}

DueAtConclusion ==
    {p \in People : Exists(Consent(p)) /\ ~ Permits(p, Retention)}

-----------------------------------------------------------------------------
(* The file operations a command is made of. *)

Write(path, content) == [does |-> "write", path |-> path, content |-> content]
Unlink(path)         == [does |-> "unlink", path |-> path]
MakeDirectory(m)     == [does |-> "make", match |-> m]
RemoveAll(m)         == [does |-> "remove", match |-> m]

EnrolSteps(p, permissions) ==
    << Write(Consent(p), Signed(permissions, document)),
       Write(Identity(p), Whole) >>

\* Mutant: the companion is not filed.
StoreStepsPromising(m) ==
    << MakeDirectory(m), Write(Replay(m), Whole), Write(Session(m), Whole) >>

StoreSteps(m) ==
    << MakeDirectory(m), Write(Replay(m), Whole), Write(Session(m), Whole) >>
      \o (IF m \in Committed THEN << Write(Telemetry(m), Whole) >> ELSE << >>)

IfThere(path) == IF Exists(path) THEN << Unlink(path) >> ELSE << >>

\* Mutants: the consent goes first; the mapping stays.
WithdrawStepsConsentFirst(p) ==
    IfThere(Consent(p)) \o IfThere(Identity(p))
      \o SetToSeq({RemoveAll(m) : m \in Listed(p)})
      \o << Write(Tombstone(p), Whole) >>

WithdrawStepsKeepingTheName(p) ==
    SetToSeq({RemoveAll(m) : m \in Listed(p)})
      \o IfThere(Consent(p)) \o << Write(Tombstone(p), Whole) >>

\* The matches, then the mapping, then the consent, then the tombstone.
WithdrawSteps(p) ==
    SetToSeq({RemoveAll(m) : m \in Listed(p)})
      \o IfThere(Identity(p)) \o IfThere(Consent(p))
      \o << Write(Tombstone(p), Whole) >>

\* The tombstone is written also where there is nothing to revoke.
RevokeSteps(p, purpose) ==
    (IF Permits(p, purpose)
     THEN << Write(Consent(p), [disk[Consent(p)] EXCEPT !.permissions = @ \ {purpose}]) >>
     ELSE << >>)
      \o << Write(Tombstone(p), Whole) >>

\* Publishable::of and write_to, match by match.  The mutant asks a permission
\* of each match for the training of a bot.
PublishStepsOfTrainable ==
    SetToSeq({Write(Published(m), Whole) : m \in {n \in Matches : Usable(n, Training)}})
PublishStepsOfPublishable ==
    SetToSeq({Write(Published(m), Whole) : m \in {n \in Matches : Usable(n, Publication)}})
PublishSteps == PublishStepsOfPublishable

-----------------------------------------------------------------------------
(* The commands. *)

Idle == [command |-> "none"]

Begin(command, steps) ==
    /\ running = Idle
    /\ commands < MaxCommands
    /\ running' = command
    /\ todo' = steps
    /\ commands' = commands + 1
    /\ UNCHANGED <<files, document, crashed>>

Enrol(p, permissions) ==
    /\ Begin([command |-> "enrol", who |-> p], EnrolSteps(p, permissions))
    /\ gone' = gone \ {p}
    /\ revoked' = {r \in revoked : r[1] # p}
    /\ concluded' = FALSE
    /\ UNCHANGED <<due, met>>

\* Refused unless every participant has a readable record, signed under the
\* document this build records against.
Admits(m) ==
    \A p \in Players(m) :
        Decodes(Consent(p)) /\ disk[Consent(p)].version = document

Store(m) ==
    /\ Admits(m)
    /\ Begin([command |-> "store", what |-> m], StoreSteps(m))
    /\ concluded' = FALSE
    /\ UNCHANGED <<due, met, gone, revoked>>

Withdraw(p) ==
    /\ Begin([command |-> "withdraw", who |-> p], WithdrawSteps(p))
    /\ UNCHANGED <<due, met, gone, revoked, concluded>>

WithdrawPurpose(p, purpose) ==
    /\ Begin([command |-> "revoke", who |-> p, what |-> purpose], RevokeSteps(p, purpose))
    /\ concluded' = FALSE
    /\ UNCHANGED <<due, met, gone, revoked>>

Publish ==
    /\ Begin([command |-> "publish"], PublishSteps)
    /\ UNCHANGED <<due, met, gone, revoked, concluded>>

Conclude ==
    /\ Begin([command |-> "conclude"], << >>)
    /\ due' = DueAtConclusion
    /\ UNCHANGED <<met, gone, revoked, concluded>>

\* `conclude` withdraws the next participant that was due when it started.
ConcludeNext(p) ==
    /\ running.command = "conclude" /\ todo = << >> /\ p \in due
    /\ todo' = WithdrawSteps(p)
    /\ due' = due \ {p}
    /\ UNCHANGED <<files, document, running, history>>

-----------------------------------------------------------------------------
(* The next file operation of the command under way.  `remove_dir_all`     *)
(* empties the directory in whatever order the filesystem lists it, and    *)
(* removes it last.                                                        *)

Busy == running # Idle /\ todo # << >>

Perform ==
    /\ Busy
    /\ LET next == Head(todo)
           rest == Tail(todo)
       IN  \/ /\ next.does = "write"
              /\ disk' = [disk EXCEPT ![next.path] = next.content]
              /\ todo' = rest
              /\ UNCHANGED directories
           \/ /\ next.does = "unlink"
              /\ disk' = [disk EXCEPT ![next.path] = Absent]
              /\ todo' = rest
              /\ UNCHANGED directories
           \/ /\ next.does = "make"
              /\ directories' = directories \cup {next.match}
              /\ todo' = rest
              /\ UNCHANGED disk
           \/ /\ next.does = "remove"
              /\ \E path \in DirectoryFiles(next.match) :
                    /\ Exists(path)
                    /\ disk' = [disk EXCEPT ![path] = Absent]
              /\ UNCHANGED <<todo, directories>>
           \/ /\ next.does = "remove"
              /\ \A path \in DirectoryFiles(next.match) : ~ Exists(path)
              /\ directories' = directories \ {next.match}
              /\ todo' = rest
              /\ UNCHANGED disk
    /\ UNCHANGED <<document, running, due, history>>

\* The command returns.
Returned ==
    /\ running # Idle /\ todo = << >> /\ due = {}
    /\ running' = Idle
    /\ gone' = IF running.command = "withdraw" THEN gone \cup {running.who} ELSE gone
    /\ revoked' = IF running.command = "revoke"
                  THEN revoked \cup {<<running.who, running.what>>} ELSE revoked
    /\ concluded' = (concluded \/ running.command = "conclude")
    /\ met' = IF running.command = "enrol" THEN met \cup {running.who} ELSE met
    /\ UNCHANGED <<files, document, todo, due, commands, crashed>>

\* The process dies, and the write it was in may have truncated its file.
Crash ==
    /\ running # Idle
    /\ running.command \in Mortal /\ (crashed => running.command \in MortalAgain)
    /\ \/ UNCHANGED disk
       \/ /\ todo # << >> /\ Head(todo).does = "write"
          /\ disk' = [disk EXCEPT ![Head(todo).path] = Torn]
    /\ running' = Idle
    /\ todo' = << >>
    /\ due' = {}
    /\ crashed' = TRUE
    /\ UNCHANGED <<directories, document, commands, met, gone, revoked, concluded>>

\* Somebody leaves a file in a match directory, between two commands.
LeaveFile(m) ==
    /\ running = Idle /\ m \in directories /\ ~ Exists(Stray(m))
    /\ commands < MaxCommands
    /\ commands' = commands + 1
    /\ disk' = [disk EXCEPT ![Stray(m)] = Whole]
    /\ UNCHANGED <<directories, document, running, todo, due, crashed, met, gone, revoked, concluded>>

\* A build with a new consent document.
NewDocument ==
    /\ running = Idle /\ document < MaxDocument
    /\ document' = document + 1
    /\ UNCHANGED <<files, running, todo, due, history>>

-----------------------------------------------------------------------------
Init ==
    /\ disk = [path \in Paths |-> Absent]
    /\ directories = {}
    /\ document = 1
    /\ running = Idle
    /\ todo = << >>
    /\ due = {}
    /\ commands = 0
    /\ crashed = FALSE
    /\ met = {} /\ gone = {} /\ revoked = {}
    /\ concluded = FALSE

Next ==
    \/ \E p \in People, permissions \in Grants : Enrol(p, permissions)
    \/ \E m \in Matches : Store(m)
    \/ \E p \in People : Withdraw(p)
    \/ \E p \in People, purpose \in Purposes : WithdrawPurpose(p, purpose)
    \/ Publish
    \/ Conclude
    \/ \E p \in People : ConcludeNext(p)
    \/ Perform
    \/ Returned
    \/ Crash
    \/ \E m \in Matches : LeaveFile(m)
    \/ NewDocument

Spec == Init /\ [][Next]_vars
=============================================================================
