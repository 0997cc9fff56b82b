---------------------------- MODULE CorpusReports ----------------------------
(***************************************************************************)
(* What is said of a corpus, recomputed from its files whenever it is      *)
(* asked: `replay census', `replay permits', the training set a bot would  *)
(* be fitted on, and how a withdrawal, a revocation and the conclusion     *)
(* report what they left (replay/src/bin/replay.rs, permit.rs, split.rs).  *)
(* Then what these, and the files they are read from, have to be.          *)
(***************************************************************************)
EXTENDS Corpus, FiniteSetsExt

CONSTANTS
    Nine,       \* the matches of nine seats
    HeldOut     \* those whose identifier's digest is one in HOLDOUT_IN

-----------------------------------------------------------------------------
(* census *)

RecordedMatches == {m \in directories : Accountable(m)}
Unaccounted     == directories \ RecordedMatches
PeopleConsenting == {p \in People : Exists(Consent(p)) \/ Exists(Tombstone(p))}    \* mutant: whoever the corpus knows
PeopleRecorded   == UNION {Players(m) : m \in RecordedMatches}
PeopleCounted    == PeopleRecorded
SplitOf(m)      == IF m \in HeldOut THEN "holdout" ELSE "train"
Half(split)     == {m \in RecordedMatches : SplitOf(m) = split}
FullMatches     == RecordedMatches \cap Nine
PartialMatches  == RecordedMatches \ Nine
MayBeNamed      == {p \in PeopleCounted : Permits(p, Named)}

\* The same of every purpose but the two that are about a person; `permits'
\* prints it too.
Reached(purpose) == {m \in directories : EveryoneIn(m, purpose)}

\* Of seats: once for each match a person appears in.
Appearances(filter(_)) ==
    FoldSet(LAMBDA m, sum : sum + Cardinality({p \in ParticipantsOf(m) : filter(p)}), 0, directories)
NamedAppearances        == Appearances(Attributable)
PseudonymousAppearances == Appearances(LAMBDA p : ~ Attributable(p))

CensusStatus == IF Unaccounted = {} THEN "SUCCESS" ELSE "FAILURE"

(* The training set, and what a model fitted on it has to carry.           *)
TrainingMatches == {m \in directories : Usable(m, Training)}
Refusal(m)      == IF m \in TrainingMatches THEN "none"
                   ELSE IF EveryoneIn(m, Training) THEN "unaccountable" ELSE "refused"
Provenance(set) == UNION {Players(m) : m \in set}
Load(set)       == {m \in set : Decodes(Replay(m)) /\ Decodes(Session(m))}

(* audit, audit-purpose, and the commands that end with one.               *)
AuditStatus(p)              == IF Audit(p) = {} THEN "SUCCESS" ELSE "FAILURE"
AuditPurposeStatus(p, what) == IF AuditPurpose(p, what) = {} THEN "SUCCESS" ELSE "FAILURE"

-----------------------------------------------------------------------------
(* ``Recomputed from the matches on disk, so it cannot drift from them and *)
(* a withdrawal changes it the moment it happens'' (bin/replay.rs:765).    *)

\* Nothing that is printed counts a person who was forgotten; what may be
\* trained on reads, and is among what is recorded and permitted; and every
\* match, half and seat is counted once.
ReportsAgree ==
    /\ \A p \in gone :
          /\ p \notin PeopleCounted \cup MayBeNamed \cup Provenance(TrainingMatches) \cup DueAtConclusion
          /\ \A purpose \in Purposes : \A m \in Reached(purpose) : p \notin Players(m)
    /\ TrainingMatches \subseteq RecordedMatches \cap Reached(Training)
    /\ Load(TrainingMatches) = TrainingMatches
    /\ CensusStatus = "SUCCESS" => \A m \in Reached(Training) : Refusal(m) = "none"
    /\ FullMatches \cup PartialMatches = Half("train") \cup Half("holdout")
    /\ NamedAppearances + PseudonymousAppearances =
          FoldSet(LAMBDA m, sum : sum + Cardinality(ParticipantsOf(m)), 0, directories)

-----------------------------------------------------------------------------
(* What the corpus promises the people in it, whatever sequence of         *)
(* commands the operator runs and wherever a command dies.                 *)

\* A replay that reads and a name mapping are only ever held beside the consent
\* record of everyone they concern: the order `store` checks and writes in,
\* and the order `withdraw` destroys in, wherever either dies
\* (corpus.rs, the comment in `withdraw`).
\* After `conclude`, it is kept only with the permission of everyone it
\* concerns, those whose record does not read counting as refusers.
HeldUnderConsent ==
    LET kept(p) == /\ Exists(Consent(p))
                   /\ concluded /\ running = Idle => Permits(p, Retention)
    IN  /\ \A m \in directories : \A p \in ParticipantsOf(m) : kept(p)
        /\ \A p \in People : Exists(Identity(p)) => kept(p)

\* The corpus holds nothing that reads about p.
Unknown(p) ==
    /\ ~ Exists(Consent(p)) /\ ~ Exists(Identity(p))
    /\ \A m \in Matches : Decodes(Replay(m)) => p \notin Players(m)

\* A withdrawal that ran to its end leaves nothing that reads: no consent, no
\* mapping, no replay naming them, wherever an earlier command died.  And "an
\* empty result is the only acceptable outcome after a withdrawal"
\* (Corpus::audit): with no command having died that is the result, as long as
\* nobody the corpus knows has a pseudonym the searched one is part of, and no
\* file the corpus does not know stands in a match directory.
WithdrawnIsForgotten ==
    /\ \A p \in gone : Unknown(p)
    /\ ~ crashed /\ running = Idle /\ (\A m \in Matches : ~ Exists(Stray(m))) =>
          \A p \in gone : (\A q \in Within(p) : Unknown(q)) => AuditStatus(p) = "SUCCESS"

\* Nothing recorded from a person is held where their audit cannot see it:
\* between commands, whatever is left of a match they played is reported, also
\* the session records, device streams and foreign files that name nobody.
NothingIsHeldSilently ==
    running = Idle =>
        \A m \in Matches, p \in People :
            p \in Players(m) /\ (\E path \in DirectoryFiles(m) : Exists(path)) => Audit(p) # {}

\* A revoked purpose reaches none of the person's matches again until they
\* sign for it again, by the audit, by the gate of the use itself and by what
\* is written out, also where a later command left their record unreadable.
RevokedIsNotUsed ==
    \A r \in revoked :
        /\ AuditPurposeStatus(r[1], r[2]) = "SUCCESS"
        /\ r[2] # Named => \A m \in Matches : r[1] \in Players(m) => ~ Usable(m, r[2])
        /\ r[2] = Publication /\ running.command = "publish" =>
              \A m \in Matches : r[1] \in Players(m) => Write(Published(m), Whole) \notin Range(todo)

\* "Withdrawing twice is not an error and destroys nothing the second time":
\* a later withdrawal of the same person touches no file but the tombstone.
SecondTimeDestroysNothing ==
    [][\A p \in gone :
          running = [command |-> "withdraw", who |-> p] =>
              /\ directories' = directories
              /\ \A path \in Paths \ {Tombstone(p)} : disk'[path] = disk[path]]_vars

-----------------------------------------------------------------------------
(* A claim of the sources that the code does not keep. *)

\* "If the process dies halfway, what is left is a corpus with fewer matches
\* and a live consent record -- a state the next run of this command repairs"
\* (corpus.rs:844-846): a withdrawal that ran to its end leaves no file of a
\* match the person played.
NextRunRepairs ==
    \A p \in gone, m \in Matches :
        p \in Players(m) => \A path \in MatchFiles(m) : ~ Exists(path)
=============================================================================
