---------------------------- MODULE RecordsProofs ---------------------------
(***************************************************************************)
(* Proofs about what a match leaves behind: the corpus (Corpus.tla and     *)
(* CorpusReports.tla), the evidence (Evidence.tla) and the clocks the      *)
(* evidence is read by (Clocks.tla), for any people, matches, purposes,    *)
(* rates, and any number of commands, alterations and inputs.              *)
(*                                                                         *)
(* A command on the corpus is a list of file operations, and the process   *)
(* may die before each of them and in each write.  That the directory is   *)
(* in order is not inductive: what keeps it in order is which operations   *)
(* the command under way still has before it, and in which order.  Held    *)
(* says what holds of the files at every moment; UnderWay what is left of  *)
(* each command, so that a name and the matches somebody played go before  *)
(* the record of their consent does, and a match is stored only of people  *)
(* whose consent is there.  The census and the audit then add up the same, *)
(* by induction over the people and the matches (FoldLemmas.tla).          *)
(*                                                                         *)
(* Whatever is done to a replay, the signature under it is the server's    *)
(* under what it sealed, or nobody's who is accepted, until an accepted    *)
(* key is used again (SignatureInv); `verify' ties the rest to it.         *)
(*                                                                         *)
(* A log holds stamps, not times.  There are times that every stamp is the *)
(* rounding of (Composed), and what is computed from the stamps is as far  *)
(* from the clocks' rate as the roundings are.                             *)
(***************************************************************************)
EXTENDS CorpusReports, Evidence, Clocks,
        TLAPS, FiniteSetTheorems, SequenceTheorems

(* Versions of the consent document, and what a record of consent that     *)
(* reads holds.                                                            *)
Versions == 1..MaxDocument
Records  == [state : {"whole"}, permissions : SUBSET Purposes, version : Versions]

(* The commands, as the actions of Corpus.tla start them.                  *)
Enrols(p)           == [command |-> "enrol", who |-> p]
Stores(m)           == [command |-> "store", what |-> m]
Withdraws(p)        == [command |-> "withdraw", who |-> p]
Revokes(p, purpose) == [command |-> "revoke", who |-> p, what |-> purpose]
Publishes           == [command |-> "publish"]
Concludes           == [command |-> "conclude"]

Commands ==
    {Idle, Publishes, Concludes}
      \cup {Enrols(p) : p \in People}
      \cup {Stores(m) : m \in Matches}
      \cup {Withdraws(p) : p \in People}
      \cup {Revokes(x[1], x[2]) : x \in People \X Purposes}

Operations ==
    {Write(Consent(x[1]), x[2]) : x \in People \X Records}
      \cup {Write(path, Whole) : path \in Paths \ {Consent(p) : p \in People}}
      \cup {Unlink(path) : path \in Paths}
      \cup {MakeDirectory(m) : m \in Matches}
      \cup {RemoveAll(m) : m \in Matches}

(* What every variable holds; a record of consent is never Whole without   *)
(* its contents.                                                           *)
TypeOK ==
    /\ disk \in [Paths -> {Absent, Torn, Whole} \cup Records]
    /\ \A p \in People : disk[Consent(p)] # Whole
    /\ directories \subseteq Matches
    /\ document \in Versions
    /\ running \in Commands
    /\ todo \in Seq(Operations)
    /\ due \subseteq People
    /\ commands \in Nat
    /\ crashed \in BOOLEAN
    /\ met \subseteq People
    /\ gone \subseteq People
    /\ revoked \subseteq People \X Purposes
    /\ concluded \in BOOLEAN

(* What a match directory has to hold; it may hold other files beside it.  *)
Coherent(m) ==
    /\ Decodes(Replay(m)) /\ Decodes(Session(m))
    /\ IF m \in Committed THEN Decodes(Telemetry(m)) ELSE ~ Exists(Telemetry(m))

(* Wherever b stands in s, a stands before it.                             *)
Before(s, a, b) == \A i \in DOMAIN s : s[i] = b => \E j \in 1..(i - 1) : s[j] = a

(* Files of a match are in its directory, and only a match whose telemetry *)
(* was committed to has a companion.                                       *)
FilesInDirectories ==
    \A m \in Matches :
        /\ \A path \in DirectoryFiles(m) : Exists(path) => m \in directories
        /\ m \notin Committed => ~ Exists(Telemetry(m))

(* Where a recording or a name decodes there is the consent of everybody   *)
(* it is of; after a conclusion, consent to be retained.                   *)
ConsentBeside ==
    /\ \A m \in Matches : Decodes(Replay(m)) => \A p \in Players(m) : Exists(Consent(p))
    /\ \A p \in People : Exists(Identity(p)) => Exists(Consent(p))
    /\ concluded => \A p \in People : Exists(Consent(p)) => Permits(p, Retention)

(* Whoever a withdrawal returned for is unknown, and what was revoked is   *)
(* not permitted.                                                          *)
GoneUnknown == \A p \in gone : Unknown(p)
RevokedOff == \A r \in revoked : ~ Permits(r[1], r[2])

(* As long as no command died, every match directory holds what it has to, *)
(* is about to go, or is being written.                                    *)
AllAccounted ==
    ~ crashed => \A m \in directories :
        \/ Coherent(m)
        \/ RemoveAll(m) \in Range(todo)
        \/ running = Stores(m)

(* What is left of enrol: the record of consent first, the name beside it. *)
Enrolling(p) ==
    /\ p \notin gone /\ ~ concluded
    /\ \A r \in revoked : r[1] # p
    /\ \/ \E permissions \in SUBSET Purposes, version \in Versions :
              todo = <<Write(Consent(p), Signed(permissions, version)), Write(Identity(p), Whole)>>
       \/ Exists(Consent(p)) /\ todo = <<Write(Identity(p), Whole)>>
       \/ todo = << >>

Companion(m) == IF m \in Committed THEN << Write(Telemetry(m), Whole) >> ELSE << >>

(* What is left of store: each suffix of its steps, with the files before  *)
(* it written.                                                             *)
Storing(m) ==
    /\ ~ concluded
    /\ \A p \in Players(m) : Exists(Consent(p))
    /\ \/ todo = StoreSteps(m)
       \/ m \in directories /\ todo = << Write(Replay(m), Whole), Write(Session(m), Whole) >> \o Companion(m)
       \/ m \in directories /\ Decodes(Replay(m)) /\ todo = << Write(Session(m), Whole) >> \o Companion(m)
       \/ m \in directories /\ Decodes(Replay(m)) /\ Decodes(Session(m)) /\ todo = Companion(m)
       \/ Coherent(m) /\ todo = << >>

(* What is left of a withdrawal of one purpose: the record without it, and *)
(* the tombstone.                                                          *)
Revoking(p, purpose) ==
    /\ ~ concluded
    /\ \/ todo \in {<< >>, <<Write(Tombstone(p), Whole)>>} /\ ~ Permits(p, purpose)
       \/ /\ Decodes(Consent(p))
          /\ \E permissions \in SUBSET (disk[Consent(p)].permissions \ {purpose}), version \in Versions :
                 todo = <<Write(Consent(p), Signed(permissions, version)), Write(Tombstone(p), Whole)>>

(* What is left of publish: copies of matches of which everybody permits   *)
(* it.                                                                     *)
Publishing ==
    \A operation \in Range(todo) : \E m \in Matches :
        /\ operation = Write(Published(m), Whole)
        /\ \A p \in Players(m) : Permits(p, Publication)

(* The operations a withdrawal consists of, the record of consent after    *)
(* every match that lists the person and after their name.                 *)
Destroying(p) ==
    /\ Range(todo) \subseteq {RemoveAll(m) : m \in Matches}
                         \cup {Unlink(Identity(p)), Unlink(Consent(p)), Write(Tombstone(p), Whole)}
    /\ \A m \in Listed(p) : Before(todo, RemoveAll(m), Unlink(Consent(p)))
    /\ Exists(Identity(p)) => Before(todo, Unlink(Identity(p)), Unlink(Consent(p)))

(* What is left of a withdrawal: everything of the person that is still    *)
(* there; of somebody gone already, the tombstone at most.                 *)
Withdrawing(p) ==
    /\ Destroying(p)
    /\ \A m \in Listed(p) : RemoveAll(m) \in Range(todo)
    /\ Exists(Identity(p)) => Unlink(Identity(p)) \in Range(todo)
    /\ Exists(Consent(p)) => Unlink(Consent(p)) \in Range(todo)
    /\ p \in gone => Range(todo) \subseteq {Write(Tombstone(p), Whole)}

(* What is left of a conclusion: one person's withdrawal, and those due    *)
(* after them. Nobody without consent to be retained is overlooked.        *)
Concluding ==
    /\ todo = << >> \/ \E p \in People : Destroying(p)
    /\ \A p \in People : Exists(Consent(p)) /\ ~ Permits(p, Retention) =>
          p \in due \/ Unlink(Consent(p)) \in Range(todo)

(* The command under way decides what is left to do.                       *)
UnderWay ==
    /\ running = Idle => todo = << >>
    /\ running # Concludes => due = {}
    /\ \A p \in People : running = Enrols(p) => Enrolling(p)
    /\ \A m \in Matches : running = Stores(m) => Storing(m)
    /\ \A p \in People : running = Withdraws(p) => Withdrawing(p)
    /\ \A p \in People, purpose \in Purposes :
          running = Revokes(p, purpose) => Revoking(p, purpose)
    /\ running = Publishes => Publishing
    /\ running = Concludes => Concluding

(* What holds of the files at every moment.                                *)
Held == FilesInDirectories /\ ConsentBeside /\ GoneUnknown /\ RevokedOff

(* The inductive invariant.                                                *)
IInv == TypeOK /\ Held /\ AllAccounted /\ UnderWay
-----------------------------------------------------------------------------
(* Sequences: which operations are left, and which comes before which.     *)

LEMMA SetToSeqElements ==
  ASSUME NEW S, IsFiniteSet(S)
  PROVE  SetToSeq(S) \in Seq(S) /\ Range(SetToSeq(S)) = S
<1> DEFINE n == Cardinality(S)
           f == SetToSeq(S)
<1>1. n \in Nat /\ ExistsBijection(1..n, S)
  BY FS_CardinalityType
<1>2. PICK g : g \in Bijection(1..n, S)
  BY <1>1 DEF ExistsBijection
<1>3. g \in [1..n -> S] /\ IsInjective(g)
  BY <1>2, Zenon DEF Bijection, Injection
<1>4. f \in [1..n -> S] /\ IsInjective(f)
  BY <1>3, Zenon DEF SetToSeq
<1>5. f \in Injection(1..n, S)
  BY <1>4, Zenon DEF Injection
<1>6. IsFiniteSet(1..n) /\ Cardinality(1..n) = n
  BY <1>1, FS_Interval
<1>7. f \in Surjection(1..n, S)
  BY <1>5, <1>6, FS_Injection
<1>8. f \in Seq(S) /\ DOMAIN f = 1..n
  BY <1>1, <1>4
<1> QED
  BY <1>4, <1>7, <1>8 DEF Surjection, Range

LEMMA FiniteRange ==
  ASSUME NEW S, NEW T, IsFiniteSet(S), NEW f \in [S -> T]
  PROVE  IsFiniteSet(Range(f))
<1>1. f \in Surjection(S, Range(f))
  BY DEF Surjection, Range
<1> QED
  BY <1>1, FS_Surjection

LEMMA Remaining ==
  ASSUME NEW T, NEW s \in Seq(T), s # << >>
  PROVE  /\ Head(s) \in T /\ Tail(s) \in Seq(T)
         /\ Range(s) = {Head(s)} \cup Range(Tail(s))
<1>1. /\ Head(s) \in T /\ Tail(s) \in Seq(T) /\ Len(Tail(s)) = Len(s) - 1
      /\ \A i \in 1..Len(Tail(s)) : Tail(s)[i] = s[i + 1]
      /\ Len(s) \in Nat \ {0} /\ Head(s) = s[1]
      /\ DOMAIN s = 1..Len(s) /\ DOMAIN Tail(s) = 1..Len(Tail(s))
  BY HeadTailProperties, LenProperties
<1>2. \A i \in DOMAIN s : i = 1 \/ (i - 1 \in DOMAIN Tail(s) /\ s[i] = Tail(s)[i - 1])
  BY <1>1
<1>3. \A i \in DOMAIN Tail(s) : i + 1 \in DOMAIN s
  BY <1>1
<1>4. Range(s) \subseteq {Head(s)} \cup Range(Tail(s))
  BY <1>1, <1>2 DEF Range
<1>5. {Head(s)} \cup Range(Tail(s)) \subseteq Range(s)
  BY <1>1, <1>3 DEF Range
<1> QED
  BY <1>1, <1>4, <1>5

LEMMA BeforeOthers ==
  ASSUME NEW T, NEW s \in Seq(T), s # << >>, NEW a, NEW b, Before(s, a, b)
  PROVE  Head(s) # b /\ (Head(s) # a => Before(Tail(s), a, b))
<1>1. /\ Len(Tail(s)) = Len(s) - 1
      /\ \A i \in 1..Len(Tail(s)) : Tail(s)[i] = s[i + 1]
      /\ Len(s) \in Nat \ {0} /\ Head(s) = s[1]
      /\ DOMAIN s = 1..Len(s) /\ DOMAIN Tail(s) = 1..Len(Tail(s))
  BY HeadTailProperties, LenProperties
<1>2. Head(s) # b
  BY <1>1 DEF Before
<1>3. ASSUME Head(s) # a, NEW i \in DOMAIN Tail(s), Tail(s)[i] = b
      PROVE  \E j \in 1..(i - 1) : Tail(s)[j] = a
  <2>1. i + 1 \in DOMAIN s /\ s[i + 1] = b
    BY <1>1, <1>3
  <2>2. PICK j \in 1..((i + 1) - 1) : s[j] = a
    BY <2>1 DEF Before
  <2>3. j # 1
    BY <1>1, <1>3, <2>2
  <2>4. j - 1 \in 1..(i - 1) /\ Tail(s)[j - 1] = s[j]
    BY <1>1, <2>2, <2>3
  <2> QED
    BY <2>2, <2>4
<1> QED
  BY <1>2, <1>3 DEF Before

LEMMA Joined ==
  ASSUME NEW T, NEW s \in Seq(T), NEW t \in Seq(T)
  PROVE  /\ s \o t \in Seq(T)
         /\ Range(s \o t) = Range(s) \cup Range(t)
         /\ \A a, b : (a \in Range(s) /\ b \notin Range(s)) \/ (Before(s, a, b) /\ b \notin Range(t)) =>
               Before(s \o t, a, b)
<1>1. /\ s \o t \in Seq(T)
      /\ DOMAIN (s \o t) = 1..(Len(s) + Len(t))
      /\ DOMAIN s = 1..Len(s) /\ DOMAIN t = 1..Len(t) /\ Len(s) \in Nat /\ Len(t) \in Nat
      /\ \A i \in 1..(Len(s) + Len(t)) : (s \o t)[i] = IF i <= Len(s) THEN s[i] ELSE t[i - Len(s)]
  BY ConcatProperties, LenProperties
<1> DEFINE r == s \o t
<1> HIDE DEF r
<1>2. Range(r) \subseteq Range(s) \cup Range(t)
  <2> SUFFICES ASSUME NEW i \in DOMAIN r
               PROVE  r[i] \in Range(s) \cup Range(t)
    BY DEF Range
  <2>1. CASE i <= Len(s)
    BY <1>1, <2>1 DEF Range, r
  <2>2. CASE ~ (i <= Len(s))
    <3>1. i - Len(s) \in DOMAIN t /\ r[i] = t[i - Len(s)]
      BY <1>1, <2>2 DEF r
    <3> QED
      BY <3>1 DEF Range
  <2> QED
    BY <2>1, <2>2
<1>3. \A i \in DOMAIN s : i \in DOMAIN r /\ r[i] = s[i]
  BY <1>1 DEF r
<1>4. \A i \in DOMAIN t : i + Len(s) \in DOMAIN r /\ r[i + Len(s)] = t[i]
  BY <1>1 DEF r
<1>5. Range(s) \cup Range(t) \subseteq Range(r)
  BY <1>3, <1>4 DEF Range
<1>6. ASSUME NEW a, NEW b,
             (a \in Range(s) /\ b \notin Range(s)) \/ (Before(s, a, b) /\ b \notin Range(t)),
             NEW i \in DOMAIN r, r[i] = b
      PROVE  \E j \in 1..(i - 1) : r[j] = a
  <2>1. CASE i <= Len(s)
    <3>1. i \in DOMAIN s /\ s[i] = b
      BY <1>1, <1>6, <2>1 DEF r
    <3>2. b \in Range(s)
      BY <3>1 DEF Range
    <3>3. PICK j \in 1..(i - 1) : s[j] = a
      BY <1>6, <3>1, <3>2 DEF Before
    <3>4. j \in DOMAIN s
      BY <1>1, <3>1
    <3> QED
      BY <1>3, <3>3, <3>4
  <2>2. CASE ~ (i <= Len(s))
    <3>1. i - Len(s) \in DOMAIN t /\ t[i - Len(s)] = b
      BY <1>1, <1>6, <2>2 DEF r
    <3>2. b \in Range(t)
      BY <3>1 DEF Range
    <3>3. PICK j \in DOMAIN s : s[j] = a
      BY <1>6, <3>2 DEF Range
    <3>4. j \in 1..(i - 1)
      BY <1>1, <2>2, <3>3 DEF r
    <3> QED
      BY <1>3, <3>3, <3>4
  <2> QED
    BY <2>1, <2>2, <1>1 DEF r
<1> QED
  BY <1>1, <1>2, <1>5, <1>6 DEF Before, r

LEMMA Single ==
  ASSUME NEW a
  PROVE  Range(<<a>>) = {a} /\ Range(<< >>) = {} /\ \A T : a \in T => <<a>> \in Seq(T)
<1>1. DOMAIN <<a>> = {1} /\ <<a>>[1] = a
  OBVIOUS
<1>2. DOMAIN << >> = {}
  OBVIOUS
<1> QED
  BY <1>1, <1>2 DEF Range

-----------------------------------------------------------------------------
(* Paths and operations are told apart by what they are of.                *)

LEMMA PathsApart ==
  /\ \A p, q : /\ Consent(p) = Consent(q) => p = q
               /\ Identity(p) = Identity(q) => p = q
               /\ Tombstone(p) = Tombstone(q) => p = q
               /\ Replay(p) = Replay(q) => p = q
               /\ Session(p) = Session(q) => p = q
               /\ Telemetry(p) = Telemetry(q) => p = q
               /\ Published(p) = Published(q) => p = q
               /\ Stray(p) = Stray(q) => p = q
  /\ \A p, q : /\ Consent(p) # Identity(q) /\ Consent(p) # Tombstone(q) /\ Identity(p) # Tombstone(q)
               /\ Replay(p) # Session(q) /\ Replay(p) # Telemetry(q) /\ Session(p) # Telemetry(q)
               /\ Published(p) \notin {Consent(q), Identity(q), Tombstone(q), Replay(q), Session(q), Telemetry(q)}
               /\ Consent(p) \notin {Replay(q), Session(q), Telemetry(q)}
               /\ Identity(p) \notin {Replay(q), Session(q), Telemetry(q)}
               /\ Tombstone(p) \notin {Replay(q), Session(q), Telemetry(q)}
               /\ Stray(p) \notin {Consent(q), Identity(q), Tombstone(q)}
               /\ Stray(p) \notin {Replay(q), Session(q), Telemetry(q), Published(q)}
BY DEF Consent, Identity, Tombstone, Replay, Session, Telemetry, Published, Stray

LEMMA PathsOf ==
  /\ \A p \in People : Consent(p) \in Paths /\ Identity(p) \in Paths /\ Tombstone(p) \in Paths
  /\ \A m \in Matches : /\ Replay(m) \in Paths /\ Session(m) \in Paths /\ Telemetry(m) \in Paths
                        /\ Published(m) \in Paths /\ Stray(m) \in Paths
  /\ \A path \in Paths :
        \/ \E p \in People : path \in {Consent(p), Identity(p), Tombstone(p)}
        \/ \E m \in Matches : path \in {Replay(m), Session(m), Telemetry(m), Published(m), Stray(m)}
<1>1. \A path : path \in Paths <=> \/ \E p \in People : path \in PersonFiles(p)
                                   \/ \E m \in Matches : path \in DirectoryFiles(m) \cup {Published(m)}
  BY Zenon DEF Paths
<1> QED
  BY <1>1 DEF PersonFiles, DirectoryFiles, MatchFiles

LEMMA OperationsApart ==
  /\ \A path, content : /\ Write(path, content).does = "write"
                        /\ Write(path, content).path = path /\ Write(path, content).content = content
  /\ \A path : Unlink(path).does = "unlink" /\ Unlink(path).path = path
  /\ \A m : MakeDirectory(m).does = "make" /\ MakeDirectory(m).match = m
  /\ \A m : RemoveAll(m).does = "remove" /\ RemoveAll(m).match = m
BY DEF Write, Unlink, MakeDirectory, RemoveAll

LEMMA RecordsRead ==
  /\ \A permissions \in SUBSET Purposes, version \in Versions :
        /\ Signed(permissions, version) \in Records
        /\ Signed(permissions, version).permissions = permissions
        /\ Signed(permissions, version).version = version
  /\ \A record \in Records : record.state = "whole" /\ record.permissions \in SUBSET Purposes /\ record.version \in Versions
  /\ \A record \in Records : record \notin {Absent, Torn, Whole}
  /\ Absent.state = "absent" /\ Torn.state = "torn" /\ Whole.state = "whole"
  /\ Absent # Torn /\ Absent # Whole /\ Torn # Whole
<1>1. Absent.state = "absent" /\ Torn.state = "torn" /\ Whole.state = "whole"
  BY DEF Absent, Torn, Whole
<1>2. \A record \in Records : record.state = "whole" /\ record.permissions \in SUBSET Purposes /\ record.version \in Versions
  BY DEF Records
<1>3. \A record \in Records : record # Whole
  BY DEF Records, Whole
<1>4. \A permissions \in SUBSET Purposes, version \in Versions : Signed(permissions, version) \in Records
  BY DEF Records, Signed
<1> QED
  BY <1>1, <1>2, <1>3, <1>4 DEF Signed

-----------------------------------------------------------------------------
(* Type correctness.                                                       *)

LEMMA OperationsOf ==
  /\ \A p \in People : /\ \A record \in Records : Write(Consent(p), record) \in Operations
                       /\ Write(Identity(p), Whole) \in Operations
                       /\ Write(Tombstone(p), Whole) \in Operations
                       /\ Unlink(Consent(p)) \in Operations
                       /\ Unlink(Identity(p)) \in Operations
  /\ \A m \in Matches : /\ Write(Replay(m), Whole) \in Operations
                        /\ Write(Session(m), Whole) \in Operations
                        /\ Write(Telemetry(m), Whole) \in Operations
                        /\ Write(Published(m), Whole) \in Operations
                        /\ MakeDirectory(m) \in Operations
                        /\ RemoveAll(m) \in Operations
<1>1. \A p \in People, record \in Records : Write(Consent(p), record) \in Operations
  <2> SUFFICES ASSUME NEW p \in People, NEW record \in Records
               PROVE  Write(Consent(p), record) \in Operations
    OBVIOUS
  <2>1. <<p, record>> \in People \X Records /\ <<p, record>>[1] = p /\ <<p, record>>[2] = record
    OBVIOUS
  <2> QED
    BY <2>1, Zenon DEF Operations
<1>2. \A path \in Paths : path \notin {Consent(p) : p \in People} => Write(path, Whole) \in Operations
  BY DEF Operations
<1>3. \A path \in Paths : Unlink(path) \in Operations
  BY DEF Operations
<1>4. \A m \in Matches : MakeDirectory(m) \in Operations /\ RemoveAll(m) \in Operations
  BY DEF Operations
<1>5. \A p \in People : Identity(p) \notin {Consent(q) : q \in People} /\ Tombstone(p) \notin {Consent(q) : q \in People}
  BY PathsApart
<1>6. \A m \in Matches : {Replay(m), Session(m), Telemetry(m), Published(m)} \cap {Consent(q) : q \in People} = {}
  BY PathsApart
<1> QED
  BY <1>1, <1>2, <1>3, <1>4, <1>5, <1>6, PathsOf

LEMMA OperationCases ==
  ASSUME NEW operation \in Operations
  PROVE  \/ \E path \in Paths, content \in Records \cup {Whole} :
              /\ operation = Write(path, content)
              /\ content = Whole => \A p \in People : path # Consent(p)
         \/ \E path \in Paths : operation = Unlink(path)
         \/ \E m \in Matches : operation = MakeDirectory(m)
         \/ \E m \in Matches : operation = RemoveAll(m)
<1>1. CASE \E x \in People \X Records : operation = Write(Consent(x[1]), x[2])
  <2>1. PICK x \in People \X Records : operation = Write(Consent(x[1]), x[2])
    BY <1>1
  <2>2. x[1] \in People /\ x[2] \in Records
    OBVIOUS
  <2>3. Consent(x[1]) \in Paths /\ x[2] # Whole
    BY <2>2, PathsOf, RecordsRead
  <2> QED
    BY <2>1, <2>2, <2>3
<1>2. CASE \E path \in Paths \ {Consent(p) : p \in People} : operation = Write(path, Whole)
  BY <1>2
<1> QED
  BY <1>1, <1>2 DEF Operations

(* What the next file operation does, as the invariants below speak of it. *)
LEMMA PerformStep ==
  ASSUME TypeOK, Perform
  PROVE  /\ running # Idle /\ todo # << >>
         /\ Head(todo) \in Operations /\ Tail(todo) \in Seq(Operations)
         /\ Range(todo) = {Head(todo)} \cup Range(Tail(todo))
         /\ \A a, b : Before(todo, a, b) =>
               Head(todo) # b /\ (Head(todo) # a => Before(Tail(todo), a, b))
         /\ \/ /\ \E path \in Paths, content \in Records \cup {Whole} :
                     /\ Head(todo) = Write(path, content)
                     /\ content = Whole => \A p \in People : path # Consent(p)
                     /\ disk' = [disk EXCEPT ![path] = content]
               /\ todo' = Tail(todo) /\ directories' = directories
            \/ /\ \E path \in Paths : Head(todo) = Unlink(path) /\ disk' = [disk EXCEPT ![path] = Absent]
               /\ todo' = Tail(todo) /\ directories' = directories
            \/ /\ \E m \in Matches : Head(todo) = MakeDirectory(m) /\ directories' = directories \cup {m}
               /\ todo' = Tail(todo) /\ disk' = disk
            \/ /\ \E m \in Matches : /\ Head(todo) = RemoveAll(m)
                                     /\ \E path \in DirectoryFiles(m) : Exists(path) /\ disk' = [disk EXCEPT ![path] = Absent]
               /\ todo' = todo /\ directories' = directories
            \/ /\ \E m \in Matches : /\ Head(todo) = RemoveAll(m)
                                     /\ \A path \in DirectoryFiles(m) : ~ Exists(path)
                                     /\ directories' = directories \ {m}
               /\ todo' = Tail(todo) /\ disk' = disk
         /\ UNCHANGED <<document, running, due, history>>
<1>1. /\ running # Idle /\ todo # << >> /\ todo \in Seq(Operations)
      /\ UNCHANGED <<document, running, due, history>>
  BY Zenon DEF Perform, Busy, TypeOK
<1>2. /\ Head(todo) \in Operations /\ Tail(todo) \in Seq(Operations)
      /\ Range(todo) = {Head(todo)} \cup Range(Tail(todo))
  BY <1>1, Remaining
<1>3. \A a, b : Before(todo, a, b) => Head(todo) # b /\ (Head(todo) # a => Before(Tail(todo), a, b))
  BY <1>1, BeforeOthers
<1> DEFINE next == Head(todo)
<1>4. \/ next.does = "write" /\ disk' = [disk EXCEPT ![next.path] = next.content]
           /\ todo' = Tail(todo) /\ directories' = directories
      \/ next.does = "unlink" /\ disk' = [disk EXCEPT ![next.path] = Absent]
           /\ todo' = Tail(todo) /\ directories' = directories
      \/ next.does = "make" /\ directories' = directories \cup {next.match}
           /\ todo' = Tail(todo) /\ disk' = disk
      \/ next.does = "remove"
           /\ (\E path \in DirectoryFiles(next.match) : Exists(path) /\ disk' = [disk EXCEPT ![path] = Absent])
           /\ todo' = todo /\ directories' = directories
      \/ next.does = "remove" /\ (\A path \in DirectoryFiles(next.match) : ~ Exists(path))
           /\ directories' = directories \ {next.match} /\ todo' = Tail(todo) /\ disk' = disk
  BY Zenon DEF Perform
<1> HIDE DEF next
<1>5. CASE \E path \in Paths, content \in Records \cup {Whole} :
              next = Write(path, content) /\ (content = Whole => \A p \in People : path # Consent(p))
  BY <1>1, <1>2, <1>3, <1>4, <1>5, OperationsApart DEF next
<1>6. CASE \E path \in Paths : next = Unlink(path)
  BY <1>1, <1>2, <1>3, <1>4, <1>6, OperationsApart DEF next
<1>7. CASE \E m \in Matches : next = MakeDirectory(m)
  BY <1>1, <1>2, <1>3, <1>4, <1>7, OperationsApart DEF next
<1>8. CASE \E m \in Matches : next = RemoveAll(m)
  BY <1>1, <1>2, <1>3, <1>4, <1>8, OperationsApart DEF next
<1> QED
  BY <1>2, <1>5, <1>6, <1>7, <1>8, OperationCases DEF next

(* The operations of a withdrawal, and the order they come in.             *)
LEMMA WithdrawStepsOf ==
  ASSUME TypeOK, NEW p \in People
  PROVE  LET s == WithdrawSteps(p) IN
         /\ s \in Seq(Operations)
         /\ Range(s) = {RemoveAll(m) : m \in Listed(p)} \cup {Write(Tombstone(p), Whole)}
                         \cup (IF Exists(Identity(p)) THEN {Unlink(Identity(p))} ELSE {})
                         \cup (IF Exists(Consent(p)) THEN {Unlink(Consent(p))} ELSE {})
         /\ \A m \in Listed(p) : Before(s, RemoveAll(m), Unlink(Consent(p)))
         /\ Exists(Identity(p)) => Before(s, Unlink(Identity(p)), Unlink(Consent(p)))
<1> DEFINE removals == {RemoveAll(m) : m \in Listed(p)}
           first  == SetToSeq(removals)
           second == IfThere(Identity(p))
           third  == IfThere(Consent(p))
           last   == << Write(Tombstone(p), Whole) >>
           consent == Unlink(Consent(p))
           identity == Unlink(Identity(p))
<1>1. IsFiniteSet(Listed(p)) /\ Listed(p) \subseteq Matches
  <2>1. Listed(p) \in SUBSET Matches
    BY DEF Listed, TypeOK
  <2> QED
    BY <2>1, FS_Subset, CorpusAssumption
<1>2. removals \subseteq Operations
  BY <1>1, OperationsOf
<1>3. IsFiniteSet(removals)
  <2> DEFINE f == [m \in Listed(p) |-> RemoveAll(m)]
  <2>1. f \in [Listed(p) -> removals] /\ Range(f) = removals
    BY DEF Range
  <2> HIDE DEF f
  <2> QED
    BY <1>1, <2>1, FiniteRange
<1>4. first \in Seq(removals) /\ Range(first) = removals
  BY <1>3, SetToSeqElements
<1>5. first \in Seq(Operations)
  BY <1>2, <1>4
<1>6. /\ second \in Seq(Operations) /\ third \in Seq(Operations) /\ last \in Seq(Operations)
      /\ Range(second) = IF Exists(Identity(p)) THEN {identity} ELSE {}
      /\ Range(third) = IF Exists(Consent(p)) THEN {consent} ELSE {}
      /\ Range(last) = {Write(Tombstone(p), Whole)}
  <2>1. /\ identity \in Operations /\ consent \in Operations /\ Write(Tombstone(p), Whole) \in Operations
    BY OperationsOf
  <2>2. << >> \in Seq(Operations)
    OBVIOUS
  <2> QED
    BY <2>1, <2>2, Single, Zenon DEF IfThere
<1>7. /\ consent \notin removals /\ identity # consent /\ Write(Tombstone(p), Whole) # consent
  <2>1. \A m : RemoveAll(m) # consent
    BY OperationsApart
  <2>2. identity # consent /\ Write(Tombstone(p), Whole) # consent
    BY OperationsApart, PathsApart
  <2> QED
    BY <2>1, <2>2
<1>8. WithdrawSteps(p) = ((first \o second) \o third) \o last
  BY Zenon DEF WithdrawSteps
<1> HIDE DEF first, second, third, last, removals, consent, identity
<1> DEFINE one == first \o second
           two == one \o third
           three == two \o last
<1>9. /\ one \in Seq(Operations) /\ Range(one) = Range(first) \cup Range(second)
      /\ \A a \in removals : Before(one, a, consent)
  BY <1>4, <1>5, <1>6, <1>7, Joined
<1> HIDE DEF one
<1>10. consent \notin Range(one)
  BY <1>4, <1>6, <1>7, <1>9
<1>11. /\ two \in Seq(Operations) /\ Range(two) = Range(one) \cup Range(third)
       /\ \A a \in Range(one) : Before(two, a, consent)
  BY <1>6, <1>9, <1>10, Joined
<1> HIDE DEF two
<1>12. consent \notin Range(last)
  BY <1>6, <1>7
<1>13. /\ three \in Seq(Operations) /\ Range(three) = Range(two) \cup Range(last)
       /\ \A a \in Range(one) : Before(three, a, consent)
  BY <1>6, <1>11, <1>12, Joined
<1>14. /\ Range(three) = Range(first) \cup Range(second) \cup Range(third) \cup Range(last)
       /\ \A a \in removals : Before(three, a, consent)
       /\ Exists(Identity(p)) => Before(three, identity, consent)
  BY <1>4, <1>6, <1>9, <1>11, <1>13
<1>15. WithdrawSteps(p) = three
  BY <1>8 DEF one, two
<1> HIDE DEF three
<1> QED
  BY <1>4, <1>6, <1>13, <1>14, <1>15 DEF removals, consent, identity

LEMMA RevokeStepsOf ==
  ASSUME TypeOK, NEW p \in People, NEW purpose \in Purposes, Permits(p, purpose)
  PROVE  \E permissions \in SUBSET (disk[Consent(p)].permissions \ {purpose}), version \in Versions :
            /\ permissions \in SUBSET Purposes
            /\ RevokeSteps(p, purpose) =
                 <<Write(Consent(p), Signed(permissions, version)), Write(Tombstone(p), Whole)>>
<1> DEFINE record == disk[Consent(p)]
<1>1. Consent(p) \in Paths
  BY PathsOf
<1>2. record \in Records
  BY <1>1, RecordsRead DEF TypeOK, Permits, Decodes
<1>3. [record EXCEPT !.permissions = @ \ {purpose}] = Signed(record.permissions \ {purpose}, record.version)
  BY <1>2 DEF Records, Signed
<1>4. record.permissions \ {purpose} \in SUBSET Purposes /\ record.version \in Versions
  BY <1>2, RecordsRead
<1>5. \A a, b : <<a>> \o <<b>> = <<a, b>>
  <2> SUFFICES ASSUME NEW a, NEW b
               PROVE  <<a>> \o <<b>> = <<a, b>>
    OBVIOUS
  <2> DEFINE T == {a, b}
             r == <<a>> \o <<b>>
  <2>1. /\ <<a>> \in Seq(T) /\ Len(<<a>>) = 1 /\ <<a>>[1] = a
        /\ <<b>> \in Seq(T) /\ Len(<<b>>) = 1 /\ <<b>>[1] = b
        /\ <<a, b>> \in Seq(T) /\ Len(<<a, b>>) = 2 /\ <<a, b>>[1] = a /\ <<a, b>>[2] = b
    OBVIOUS
  <2>2. /\ r \in Seq(T) /\ Len(r) = 2
        /\ \A i \in 1..2 : r[i] = IF i <= 1 THEN <<a>>[i] ELSE <<b>>[i - 1]
    BY <2>1, ConcatProperties
  <2> HIDE DEF r
  <2>3. r[1] = a /\ r[2] = b
    BY <2>1, <2>2
  <2>4. \A i \in 1..2 : r[i] = <<a, b>>[i]
    BY <2>1, <2>3
  <2>5. r = <<a, b>>
    BY <2>1, <2>2, <2>4, LenProperties
  <2> QED
    BY <2>5 DEF r
<1>6. RevokeSteps(p, purpose) =
        <<Write(Consent(p), Signed(record.permissions \ {purpose}, record.version))>> \o <<Write(Tombstone(p), Whole)>>
  BY <1>3, Zenon DEF RevokeSteps
<1>7. RevokeSteps(p, purpose) =
        <<Write(Consent(p), Signed(record.permissions \ {purpose}, record.version)), Write(Tombstone(p), Whole)>>
  BY <1>5, <1>6, Zenon
<1> QED
  BY <1>4, <1>7, Zenon

LEMMA RevokesNothing ==
  ASSUME NEW p \in People, NEW purpose \in Purposes, ~ Permits(p, purpose)
  PROVE  RevokeSteps(p, purpose) = <<Write(Tombstone(p), Whole)>>
<1>1. \A b : << >> \o <<b>> = <<b>>
  OBVIOUS
<1>2. RevokeSteps(p, purpose) = << >> \o <<Write(Tombstone(p), Whole)>>
  BY Zenon DEF RevokeSteps
<1> QED
  BY <1>1, <1>2, Zenon

LEMMA PublishStepsOf ==
  /\ PublishSteps \in Seq(Operations)
  /\ Range(PublishSteps) = {Write(Published(m), Whole) : m \in {n \in Matches : Usable(n, Publication)}}
<1> DEFINE S == {n \in Matches : Usable(n, Publication)}
           W == {Write(Published(m), Whole) : m \in S}
<1>1. IsFiniteSet(S)
  BY FS_Subset, CorpusAssumption
<1>2. IsFiniteSet(W)
  <2> DEFINE f == [m \in S |-> Write(Published(m), Whole)]
  <2> HIDE DEF S
  <2>1. f \in [S -> W] /\ Range(f) = W
    BY DEF Range
  <2> HIDE DEF f
  <2> QED
    BY <1>1, <2>1, FiniteRange, ZenonT(60)
<1>3. SetToSeq(W) \in Seq(W) /\ Range(SetToSeq(W)) = W
  BY <1>2, SetToSeqElements
<1>4. W \subseteq Operations
  BY OperationsOf
<1>5. PublishSteps = SetToSeq(W)
  BY DEF PublishSteps, PublishStepsOfPublishable
<1> HIDE DEF W
<1>6. SetToSeq(W) \in Seq(Operations)
  BY <1>3, <1>4
<1> QED
  BY <1>3, <1>5, <1>6 DEF W

LEMMA StepsTyped ==
  ASSUME TypeOK
  PROVE  /\ \A p \in People, permissions \in Grants : EnrolSteps(p, permissions) \in Seq(Operations)
         /\ \A m \in Matches : StoreSteps(m) \in Seq(Operations)
         /\ \A p \in People : WithdrawSteps(p) \in Seq(Operations)
         /\ \A p \in People, purpose \in Purposes : RevokeSteps(p, purpose) \in Seq(Operations)
         /\ PublishSteps \in Seq(Operations)
<1>1. ASSUME NEW p \in People, NEW permissions \in Grants
      PROVE  EnrolSteps(p, permissions) \in Seq(Operations)
  <2>1. Signed(permissions, document) \in Records
    BY RecordsRead, CorpusAssumption DEF TypeOK
  <2>2. Write(Consent(p), Signed(permissions, document)) \in Operations /\ Write(Identity(p), Whole) \in Operations
    BY <2>1, OperationsOf
  <2> QED
    BY <2>2 DEF EnrolSteps
<1>2. ASSUME NEW m \in Matches
      PROVE  StoreSteps(m) \in Seq(Operations)
  <2> DEFINE make == MakeDirectory(m)
             replay == Write(Replay(m), Whole)
             session == Write(Session(m), Whole)
             telemetry == Write(Telemetry(m), Whole)
  <2>1. {make, replay, session, telemetry} \subseteq Operations
    BY OperationsOf
  <2> HIDE DEF make, replay, session, telemetry
  <2>2. /\ <<make, replay, session>> \in Seq(Operations)
        /\ << >> \in Seq(Operations) /\ <<telemetry>> \in Seq(Operations)
    BY <2>1
  <2>3. /\ <<make, replay, session>> \o <<telemetry>> \in Seq(Operations)
        /\ <<make, replay, session>> \o << >> \in Seq(Operations)
    BY <2>2, ConcatProperties
  <2> QED
    BY <2>3, Zenon DEF StoreSteps, make, replay, session, telemetry
<1>3. ASSUME NEW p \in People
      PROVE  WithdrawSteps(p) \in Seq(Operations)
  BY WithdrawStepsOf
<1>4. ASSUME NEW p \in People, NEW purpose \in Purposes
      PROVE  RevokeSteps(p, purpose) \in Seq(Operations)
  <2>1. CASE Permits(p, purpose)
    <3>1. PICK permissions \in SUBSET Purposes, version \in Versions :
             RevokeSteps(p, purpose) =
               <<Write(Consent(p), Signed(permissions, version)), Write(Tombstone(p), Whole)>>
      BY <2>1, RevokeStepsOf
    <3>2. Write(Consent(p), Signed(permissions, version)) \in Operations /\ Write(Tombstone(p), Whole) \in Operations
      BY RecordsRead, OperationsOf
    <3> QED
      BY <3>1, <3>2
  <2>2. CASE ~ Permits(p, purpose)
    <3>1. Write(Tombstone(p), Whole) \in Operations
      BY OperationsOf
    <3>2. <<Write(Tombstone(p), Whole)>> \in Seq(Operations)
      BY <3>1
    <3> QED
      BY <2>2, <3>2, RevokesNothing
  <2> QED
    BY <2>1, <2>2
<1>5. PublishSteps \in Seq(Operations)
  BY PublishStepsOf
<1> QED
  BY <1>1, <1>2, <1>3, <1>4, <1>5

LEMMA CommandsOf ==
  /\ Idle \in Commands /\ Publishes \in Commands /\ Concludes \in Commands
  /\ \A p \in People : Enrols(p) \in Commands /\ Withdraws(p) \in Commands
  /\ \A m \in Matches : Stores(m) \in Commands
  /\ \A p \in People, purpose \in Purposes : Revokes(p, purpose) \in Commands
  /\ \A command \in Commands :
        \/ command \in {Idle, Publishes, Concludes}
        \/ \E p \in People : command \in {Enrols(p), Withdraws(p)}
        \/ \E m \in Matches : command = Stores(m)
        \/ \E p \in People, purpose \in Purposes : command = Revokes(p, purpose)
<1>1. ASSUME NEW p \in People, NEW purpose \in Purposes
      PROVE  Revokes(p, purpose) \in Commands
  <2>1. <<p, purpose>> \in People \X Purposes /\ <<p, purpose>>[1] = p /\ <<p, purpose>>[2] = purpose
    OBVIOUS
  <2> QED
    BY <2>1, Zenon DEF Commands
<1>2. ASSUME NEW x \in People \X Purposes
      PROVE  x[1] \in People /\ x[2] \in Purposes
  OBVIOUS
<1> QED
  BY <1>1, <1>2 DEF Commands

LEMMA CommandsApart ==
  /\ Idle.command = "none" /\ Publishes.command = "publish" /\ Concludes.command = "conclude"
  /\ \A p : /\ Enrols(p).command = "enrol" /\ Enrols(p).who = p
            /\ Stores(p).command = "store" /\ Stores(p).what = p
            /\ Withdraws(p).command = "withdraw" /\ Withdraws(p).who = p
  /\ \A p, purpose : /\ Revokes(p, purpose).command = "revoke"
                     /\ Revokes(p, purpose).who = p /\ Revokes(p, purpose).what = purpose
BY DEF Idle, Publishes, Concludes, Enrols, Stores, Withdraws, Revokes

LEMMA TypeBegins ==
  ASSUME TypeOK, NEW command \in Commands, NEW steps \in Seq(Operations), Begin(command, steps),
         due' \subseteq People, met' = met, gone' \subseteq gone, revoked' \subseteq revoked, concluded' \in BOOLEAN
  PROVE  TypeOK'
BY DEF TypeOK, Begin, files

LEMMA TypePerforms ==
  ASSUME TypeOK, Perform
  PROVE  TypeOK'
<1>1. /\ Tail(todo) \in Seq(Operations) /\ todo \in Seq(Operations)
      /\ UNCHANGED <<document, running, due, history>>
  BY PerformStep DEF TypeOK
<1>2. ASSUME NEW path \in Paths, NEW content \in {Absent, Whole} \cup Records,
             disk' = [disk EXCEPT ![path] = content], content = Whole => \A p \in People : path # Consent(p)
      PROVE  /\ disk' \in [Paths -> {Absent, Torn, Whole} \cup Records]
             /\ \A p \in People : disk'[Consent(p)] # Whole
  BY <1>2, PathsOf, RecordsRead DEF TypeOK
<1>3. /\ disk' \in [Paths -> {Absent, Torn, Whole} \cup Records]
      /\ \A p \in People : disk'[Consent(p)] # Whole
      /\ directories' \subseteq Matches
      /\ todo' \in Seq(Operations)
  <2>1. CASE \E path \in Paths, content \in Records \cup {Whole} :
               /\ Head(todo) = Write(path, content)
               /\ content = Whole => \A p \in People : path # Consent(p)
               /\ disk' = [disk EXCEPT ![path] = content]
    <3>1. PICK path \in Paths, content \in Records \cup {Whole} :
             /\ Head(todo) = Write(path, content)
             /\ content = Whole => \A p \in People : path # Consent(p)
             /\ disk' = [disk EXCEPT ![path] = content]
      BY <2>1
    <3>2. /\ disk' \in [Paths -> {Absent, Torn, Whole} \cup Records]
          /\ \A p \in People : disk'[Consent(p)] # Whole
      BY <1>2, <3>1
    <3>3. todo' = Tail(todo) /\ directories' = directories
      BY <3>1, PerformStep, OperationsApart
    <3> QED
      BY <1>1, <3>2, <3>3 DEF TypeOK
  <2>2. CASE \E path \in Paths : disk' = [disk EXCEPT ![path] = Absent]
    <3>1. PICK path \in Paths : disk' = [disk EXCEPT ![path] = Absent]
      BY <2>2
    <3>2. Absent # Whole
      BY RecordsRead
    <3>3. /\ disk' \in [Paths -> {Absent, Torn, Whole} \cup Records]
          /\ \A p \in People : disk'[Consent(p)] # Whole
      BY <1>2, <3>1, <3>2
    <3> QED
      BY <1>1, <3>3, PerformStep DEF TypeOK
  <2>3. CASE disk' = disk
    BY <1>1, <2>3, PerformStep DEF TypeOK
  <2> QED
    BY <2>1, <2>2, <2>3, PerformStep, PathsOf DEF DirectoryFiles, MatchFiles
<1> QED
  BY <1>1, <1>3 DEF TypeOK, history

LEMMA TypeStep == TypeOK /\ [Next]_vars => TypeOK'
<1> SUFFICES ASSUME TypeOK, [Next]_vars
             PROVE  TypeOK'
  OBVIOUS
<1>1. CASE \E p \in People, permissions \in Grants : Enrol(p, permissions)
  <2>1. PICK p \in People, permissions \in Grants : Enrol(p, permissions)
    BY <1>1
  <2> QED
    BY <2>1, CommandsOf, StepsTyped, TypeBegins DEF Enrol, Enrols, TypeOK
<1>2. CASE \E m \in Matches : Store(m)
  <2>1. PICK m \in Matches : Store(m)
    BY <1>2
  <2> QED
    BY <2>1, CommandsOf, StepsTyped, TypeBegins DEF Store, Stores, TypeOK
<1>3. CASE \E p \in People : Withdraw(p)
  <2>1. PICK p \in People : Withdraw(p)
    BY <1>3
  <2> QED
    BY <2>1, CommandsOf, StepsTyped, TypeBegins DEF Withdraw, Withdraws, TypeOK
<1>4. CASE \E p \in People, purpose \in Purposes : WithdrawPurpose(p, purpose)
  <2>1. PICK p \in People, purpose \in Purposes : WithdrawPurpose(p, purpose)
    BY <1>4
  <2> QED
    BY <2>1, CommandsOf, StepsTyped, TypeBegins DEF WithdrawPurpose, Revokes, TypeOK
<1>5. CASE Publish
  BY <1>5, CommandsOf, StepsTyped, TypeBegins DEF Publish, Publishes, TypeOK
<1>6. CASE Conclude
  <2>1. Concludes \in Commands /\ << >> \in Seq(Operations)
    BY CommandsOf
  <2>2. due' \subseteq People
    BY <1>6 DEF Conclude, DueAtConclusion
  <2> QED
    BY <1>6, <2>1, <2>2, TypeBegins DEF Conclude, Concludes, TypeOK
<1>7. CASE \E p \in People : ConcludeNext(p)
  BY <1>7, StepsTyped DEF ConcludeNext, TypeOK, files, history
<1>8. CASE Perform
  BY <1>8, TypePerforms
<1>9. CASE Returned
  <2>1. /\ running' = Idle /\ Idle \in Commands
        /\ UNCHANGED <<disk, directories, document, todo, due, commands, crashed>>
    BY <1>9, Zenon DEF Returned, files, Commands
  <2>2. gone' \subseteq People
    BY <1>9, CommandsOf, CommandsApart DEF Returned, TypeOK
  <2>3. revoked' \subseteq People \X Purposes
    BY <1>9, CommandsOf, CommandsApart DEF Returned, TypeOK
  <2>4. met' \subseteq People
    BY <1>9, CommandsOf, CommandsApart DEF Returned, TypeOK
  <2>5. concluded' \in BOOLEAN
    BY <1>9, Zenon DEF Returned
  <2> QED
    BY <2>1, <2>2, <2>3, <2>4, <2>5 DEF TypeOK
<1>10. CASE Crash
  <2>1. /\ running' = Idle /\ todo' = << >> /\ due' = {} /\ crashed' = TRUE
        /\ UNCHANGED <<directories, document, commands, met, gone, revoked, concluded>>
    BY <1>10 DEF Crash
  <2>2. disk' = disk \/ \E path : disk' = [disk EXCEPT ![path] = Torn]
    BY <1>10 DEF Crash
  <2>3. /\ disk' \in [Paths -> {Absent, Torn, Whole} \cup Records]
        /\ \A p \in People : disk'[Consent(p)] # Whole
    BY <2>2, PathsOf, RecordsRead DEF TypeOK
  <2>4. Idle \in Commands /\ << >> \in Seq(Operations)
    BY DEF Commands
  <2> QED
    BY <2>1, <2>3, <2>4 DEF TypeOK
<1>11. CASE NewDocument
  <2>1. document + 1 \in Versions
    BY <1>11, CorpusAssumption DEF NewDocument, TypeOK, Versions
  <2> QED
    BY <1>11, <2>1 DEF NewDocument, TypeOK, files, history
<1>12. CASE UNCHANGED vars
  BY <1>12 DEF vars, history, TypeOK
<1>13. CASE \E m \in Matches : LeaveFile(m)
  <2>1. PICK m \in Matches : LeaveFile(m)
    BY <1>13
  <2>2. /\ disk' = [disk EXCEPT ![Stray(m)] = Whole] /\ commands' = commands + 1
        /\ UNCHANGED <<directories, document, running, todo, due, crashed, met, gone, revoked, concluded>>
    BY <2>1 DEF LeaveFile
  <2>3. /\ disk' \in [Paths -> {Absent, Torn, Whole} \cup Records]
        /\ \A p \in People : disk'[Consent(p)] # Whole
    BY <2>2, PathsOf, PathsApart DEF TypeOK
  <2> QED
    BY <2>2, <2>3 DEF TypeOK
<1> QED
  BY <1>1, <1>2, <1>3, <1>4, <1>5, <1>6, <1>7, <1>8, <1>9, <1>10, <1>11, <1>12, <1>13 DEF Next

LEMMA TypeAtFirst ==
  ASSUME Init
  PROVE  TypeOK
<1>1. disk \in [Paths -> {Absent, Torn, Whole} \cup Records]
  BY DEF Init
<1>2. \A p \in People : disk[Consent(p)] # Whole
  BY PathsOf, RecordsRead DEF Init
<1>3. document \in Versions
  BY CorpusAssumption DEF Init, Versions
<1>4. running \in Commands /\ todo \in Seq(Operations)
  BY DEF Init, Commands
<1> QED
  BY <1>1, <1>2, <1>3, <1>4 DEF Init, TypeOK

(* For any corpus: every variable keeps its type; no operation of a        *)
(* command ever takes a record of consent for a file without contents.     *)
THEOREM CorpusTypeCorrect == Spec => []TypeOK
<1>1. Init => TypeOK
  BY TypeAtFirst
<1>2. TypeOK /\ [Next]_vars => TypeOK'
  BY TypeStep
<1> QED
  BY <1>1, <1>2, PTL DEF Spec

-----------------------------------------------------------------------------
(* What one file operation does to what is held, whatever command it is of.*)

LEMMA Effect ==
  ASSUME TypeOK, NEW path \in Paths, NEW content, disk' = [disk EXCEPT ![path] = content]
  PROVE  disk'[path] = content /\ \A other \in Paths : other # path => disk'[other] = disk[other]
BY DEF TypeOK

LEMMA ConsentEffect ==
  ASSUME TypeOK, NEW p \in People, NEW content, disk' = [disk EXCEPT ![Consent(p)] = content]
  PROVE  /\ disk'[Consent(p)] = content
         /\ \A q \in People : q # p => disk'[Consent(q)] = disk[Consent(q)]
         /\ \A q \in People : disk'[Identity(q)] = disk[Identity(q)]
         /\ \A m \in Matches : /\ disk'[Replay(m)] = disk[Replay(m)] /\ disk'[Session(m)] = disk[Session(m)]
                               /\ disk'[Telemetry(m)] = disk[Telemetry(m)] /\ disk'[Stray(m)] = disk[Stray(m)]
<1>1. Consent(p) \in Paths
  BY PathsOf
<1>2. \A q \in People : Identity(q) # Consent(p) /\ (q # p => Consent(q) # Consent(p))
  BY PathsApart
<1>3. \A m \in Matches : Consent(p) \notin {Replay(m), Session(m), Telemetry(m), Stray(m)}
  BY PathsApart
<1> QED
  BY <1>1, <1>2, <1>3, Effect, PathsOf

LEMMA IdentityEffect ==
  ASSUME TypeOK, NEW p \in People, NEW content, disk' = [disk EXCEPT ![Identity(p)] = content]
  PROVE  /\ disk'[Identity(p)] = content
         /\ \A q \in People : q # p => disk'[Identity(q)] = disk[Identity(q)]
         /\ \A q \in People : disk'[Consent(q)] = disk[Consent(q)]
         /\ \A m \in Matches : /\ disk'[Replay(m)] = disk[Replay(m)] /\ disk'[Session(m)] = disk[Session(m)]
                               /\ disk'[Telemetry(m)] = disk[Telemetry(m)] /\ disk'[Stray(m)] = disk[Stray(m)]
<1>1. Identity(p) \in Paths
  BY PathsOf
<1>2. \A q \in People : Consent(q) # Identity(p) /\ (q # p => Identity(q) # Identity(p))
  BY PathsApart
<1>3. \A m \in Matches : Identity(p) \notin {Replay(m), Session(m), Telemetry(m), Stray(m)}
  BY PathsApart
<1> QED
  BY <1>1, <1>2, <1>3, Effect, PathsOf

LEMMA MatchFileEffect ==
  ASSUME TypeOK, NEW m \in Matches, NEW path \in MatchFiles(m), NEW content, disk' = [disk EXCEPT ![path] = content]
  PROVE  /\ disk'[path] = content
         /\ \A other \in MatchFiles(m) : other # path => disk'[other] = disk[other]
         /\ \A p \in People : disk'[Consent(p)] = disk[Consent(p)] /\ disk'[Identity(p)] = disk[Identity(p)]
         /\ \A n \in Matches : n # m =>
               /\ disk'[Replay(n)] = disk[Replay(n)]
               /\ disk'[Session(n)] = disk[Session(n)]
               /\ disk'[Telemetry(n)] = disk[Telemetry(n)]
         /\ \A n \in Matches : disk'[Stray(n)] = disk[Stray(n)]
<1>1. path \in Paths /\ path \in {Replay(m), Session(m), Telemetry(m)}
  BY PathsOf DEF MatchFiles
<1>2. disk'[path] = content /\ \A other \in Paths : other # path => disk'[other] = disk[other]
  BY <1>1, Effect
<1>3. \A p \in People : Consent(p) # path /\ Identity(p) # path
  BY <1>1, PathsApart
<1>4. \A n \in Matches : path # Stray(n) /\ (n # m => path \notin {Replay(n), Session(n), Telemetry(n)})
  BY <1>1, PathsApart
<1> QED
  BY <1>2, <1>3, <1>4, PathsOf DEF MatchFiles

(* Tombstones and publications are read by none of what follows.           *)
LEMMA AsideEffect ==
  ASSUME TypeOK, NEW content, NEW path,
         \/ \E p \in People : path = Tombstone(p)
         \/ \E m \in Matches : path = Published(m),
         disk' = [disk EXCEPT ![path] = content]
  PROVE  /\ \A p \in People : disk'[Consent(p)] = disk[Consent(p)] /\ disk'[Identity(p)] = disk[Identity(p)]
         /\ \A m \in Matches : /\ disk'[Replay(m)] = disk[Replay(m)] /\ disk'[Session(m)] = disk[Session(m)]
                               /\ disk'[Telemetry(m)] = disk[Telemetry(m)] /\ disk'[Stray(m)] = disk[Stray(m)]
<1>1. path \in Paths
  BY PathsOf
<1>2. \A p \in People : Consent(p) # path /\ Identity(p) # path
  BY PathsApart
<1>3. \A n \in Matches : path \notin {Replay(n), Session(n), Telemetry(n), Stray(n)}
  BY PathsApart
<1> QED
  BY <1>1, <1>2, <1>3, Effect, PathsOf

LEMMA StrayEffect ==
  ASSUME TypeOK, NEW m \in Matches, NEW content, disk' = [disk EXCEPT ![Stray(m)] = content]
  PROVE  /\ disk'[Stray(m)] = content
         /\ \A n \in Matches : n # m => disk'[Stray(n)] = disk[Stray(n)]
         /\ \A p \in People : disk'[Consent(p)] = disk[Consent(p)] /\ disk'[Identity(p)] = disk[Identity(p)]
         /\ \A n \in Matches : /\ disk'[Replay(n)] = disk[Replay(n)] /\ disk'[Session(n)] = disk[Session(n)]
                               /\ disk'[Telemetry(n)] = disk[Telemetry(n)]
<1>1. Stray(m) \in Paths
  BY PathsOf
<1>2. \A p \in People : Consent(p) # Stray(m) /\ Identity(p) # Stray(m)
  BY PathsApart
<1>3. \A n \in Matches : Stray(m) \notin {Replay(n), Session(n), Telemetry(n)} /\ (n # m => Stray(n) # Stray(m))
  BY PathsApart
<1> QED
  BY <1>1, <1>2, <1>3, Effect, PathsOf

LEMMA ListedKept ==
  ASSUME TypeOK, directories' = directories,
         \A m \in Matches : disk'[Replay(m)] = disk[Replay(m)]
  PROVE  \A p : Listed(p)' = Listed(p)
<1>1. directories \subseteq Matches
  BY DEF TypeOK
<1>2. \A m \in directories : ParticipantsOf(m)' = ParticipantsOf(m)
  BY <1>1 DEF ParticipantsOf, Decodes
<1> QED
  BY <1>2 DEF Listed

Remembers == UNCHANGED <<directories, gone, revoked, concluded>>

(* A record of consent is written, or torn, for somebody who is not gone,  *)
(* without a purpose they revoked.                                         *)
LEMMA HeldSigned ==
  ASSUME TypeOK, Held, NEW p \in People, NEW content \in Records \cup {Torn},
         disk' = [disk EXCEPT ![Consent(p)] = content], Remembers,
         ~ concluded, p \notin gone,
         \A r \in revoked : r[1] = p /\ content \in Records => r[2] \notin content.permissions
  PROVE  Held'
<1>1. content # Absent
  BY RecordsRead
<1>2. FilesInDirectories'
  <2>1. \A m \in Matches : \A path \in DirectoryFiles(m) : disk'[path] = disk[path]
    <3> SUFFICES ASSUME NEW m \in Matches
                 PROVE  \A path \in DirectoryFiles(m) : disk'[path] = disk[path]
      OBVIOUS
    <3>1. /\ disk'[Replay(m)] = disk[Replay(m)] /\ disk'[Session(m)] = disk[Session(m)]
          /\ disk'[Telemetry(m)] = disk[Telemetry(m)] /\ disk'[Stray(m)] = disk[Stray(m)]
      BY ConsentEffect
    <3> QED
      BY <3>1 DEF DirectoryFiles, MatchFiles
  <2>2. \A m \in Matches : disk'[Telemetry(m)] = disk[Telemetry(m)]
    BY ConsentEffect
  <2> QED
    BY <2>1, <2>2 DEF Held, FilesInDirectories, Exists, Remembers
<1>3. ConsentBeside'
  <2>1. \A q \in People : Exists(Consent(q)) => Exists(Consent(q))'
    BY <1>1, ConsentEffect DEF Exists
  <2>2. \A m \in Matches : Decodes(Replay(m))' = Decodes(Replay(m))
    BY ConsentEffect DEF Decodes
  <2>3. \A q \in People : Exists(Identity(q))' = Exists(Identity(q))
    BY ConsentEffect DEF Exists
  <2> QED
    BY <2>1, <2>2, <2>3, CorpusAssumption DEF Held, ConsentBeside, Remembers
<1>4. GoneUnknown'
  <2> SUFFICES ASSUME NEW q \in gone
               PROVE  Unknown(q)'
    BY DEF GoneUnknown, Remembers
  <2>1. q \in People /\ q # p /\ Unknown(q)
    BY DEF TypeOK, Held, GoneUnknown
  <2>2. disk'[Consent(q)] = disk[Consent(q)] /\ disk'[Identity(q)] = disk[Identity(q)]
    BY <2>1, ConsentEffect
  <2>3. \A m \in Matches : disk'[Replay(m)] = disk[Replay(m)]
    BY ConsentEffect
  <2> QED
    BY <2>1, <2>2, <2>3 DEF Unknown, Exists, Decodes
<1>5. RevokedOff'
  <2> SUFFICES ASSUME NEW r \in revoked
               PROVE  ~ Permits(r[1], r[2])'
    BY DEF RevokedOff, Remembers
  <2>1. r[1] \in People /\ ~ Permits(r[1], r[2])
    BY DEF TypeOK, Held, RevokedOff
  <2>2. CASE r[1] = p
    <3>1. disk'[Consent(p)] = content
      BY ConsentEffect
    <3>2. content \in Records => r[2] \notin content.permissions
      BY <2>2
    <3>3. content \in Records \/ content.state # "whole"
      BY RecordsRead
    <3> QED
      BY <2>2, <3>1, <3>2, <3>3 DEF Permits, Decodes
  <2>3. CASE r[1] # p
    BY <2>1, <2>3, ConsentEffect DEF Permits, Decodes
  <2> QED
    BY <2>2, <2>3
<1> QED
  BY <1>2, <1>3, <1>4, <1>5 DEF Held

(* A name is written, or torn, beside a record of consent, or is removed.  *)
LEMMA HeldNamed ==
  ASSUME TypeOK, Held, NEW p \in People, NEW content \in {Whole, Torn, Absent},
         disk' = [disk EXCEPT ![Identity(p)] = content], Remembers,
         content = Absent \/ Exists(Consent(p))
  PROVE  Held'
<1>1. FilesInDirectories'
  <2>1. \A m \in Matches : \A path \in DirectoryFiles(m) : disk'[path] = disk[path]
    <3> SUFFICES ASSUME NEW m \in Matches
                 PROVE  \A path \in DirectoryFiles(m) : disk'[path] = disk[path]
      OBVIOUS
    <3>1. /\ disk'[Replay(m)] = disk[Replay(m)] /\ disk'[Session(m)] = disk[Session(m)]
          /\ disk'[Telemetry(m)] = disk[Telemetry(m)] /\ disk'[Stray(m)] = disk[Stray(m)]
      BY IdentityEffect
    <3> QED
      BY <3>1 DEF DirectoryFiles, MatchFiles
  <2>2. \A m \in Matches : disk'[Telemetry(m)] = disk[Telemetry(m)]
    BY IdentityEffect
  <2> QED
    BY <2>1, <2>2 DEF Held, FilesInDirectories, Exists, Remembers
<1>2. ConsentBeside'
  <2>1. \A q \in People : Exists(Consent(q))' = Exists(Consent(q)) /\ Permits(q, Retention)' = Permits(q, Retention)
    BY IdentityEffect DEF Exists, Permits, Decodes
  <2>2. \A m \in Matches : Decodes(Replay(m))' = Decodes(Replay(m))
    BY IdentityEffect DEF Decodes
  <2>3. \A q \in People : Exists(Identity(q))' => Exists(Identity(q)) \/ (q = p /\ content # Absent)
    BY IdentityEffect DEF Exists
  <2> QED
    BY <2>1, <2>2, <2>3, CorpusAssumption DEF Held, ConsentBeside, Remembers
<1>3. GoneUnknown'
  <2> SUFFICES ASSUME NEW q \in gone
               PROVE  Unknown(q)'
    BY DEF GoneUnknown, Remembers
  <2>1. q \in People /\ Unknown(q) /\ (q = p => content = Absent)
    BY DEF TypeOK, Held, GoneUnknown, Unknown
  <2>2. disk'[Consent(q)] = disk[Consent(q)] /\ (disk'[Identity(q)] = disk[Identity(q)] \/ disk'[Identity(q)] = Absent)
    BY <2>1, IdentityEffect
  <2>3. \A m \in Matches : disk'[Replay(m)] = disk[Replay(m)]
    BY IdentityEffect
  <2> QED
    BY <2>1, <2>2, <2>3 DEF Unknown, Exists, Decodes
<1>4. RevokedOff'
  <2> SUFFICES ASSUME NEW r \in revoked
               PROVE  ~ Permits(r[1], r[2])'
    BY DEF RevokedOff, Remembers
  <2>1. r[1] \in People /\ ~ Permits(r[1], r[2])
    BY DEF TypeOK, Held, RevokedOff
  <2> QED
    BY <2>1, IdentityEffect DEF Permits, Decodes
<1> QED
  BY <1>1, <1>2, <1>3, <1>4 DEF Held

(* A file of a match is written, or torn, beside the consent of everybody  *)
(* who played, or is removed.                                              *)
LEMMA HeldFiled ==
  ASSUME TypeOK, Held, NEW m \in Matches, NEW path \in MatchFiles(m), NEW content \in {Whole, Torn, Absent},
         disk' = [disk EXCEPT ![path] = content], Remembers,
         \/ content = Absent
         \/ /\ m \in directories
            /\ path = Telemetry(m) => m \in Committed
            /\ \A p \in Players(m) : Exists(Consent(p))
  PROVE  Held'
<1>1. \A n \in Matches : \A other \in DirectoryFiles(n) :
         Exists(other)' => Exists(other) \/ (n = m /\ other = path /\ content # Absent)
  <2>1. \A other \in MatchFiles(m) : Exists(other)' => Exists(other) \/ (other = path /\ content # Absent)
    BY MatchFileEffect DEF Exists
  <2>2. \A n \in Matches : n # m => \A other \in MatchFiles(n) : disk'[other] = disk[other]
    <3> SUFFICES ASSUME NEW n \in Matches, n # m, NEW other \in MatchFiles(n)
                 PROVE  disk'[other] = disk[other]
      OBVIOUS
    <3>1. other \in {Replay(n), Session(n), Telemetry(n)}
      BY DEF MatchFiles
    <3>2. /\ disk'[Replay(n)] = disk[Replay(n)] /\ disk'[Session(n)] = disk[Session(n)]
          /\ disk'[Telemetry(n)] = disk[Telemetry(n)]
      BY MatchFileEffect
    <3> QED
      BY <3>1, <3>2
  <2>3. \A n \in Matches : disk'[Stray(n)] = disk[Stray(n)]
    BY MatchFileEffect
  <2> QED
    BY <2>1, <2>2, <2>3 DEF Exists, DirectoryFiles
<1>2. FilesInDirectories'
  <2>1. \A n \in Matches : Telemetry(n) \in DirectoryFiles(n)
    BY DEF DirectoryFiles, MatchFiles
  <2> QED
    BY <1>1, <2>1 DEF Held, FilesInDirectories, Remembers
<1>3. \A p \in People : /\ Exists(Consent(p))' = Exists(Consent(p)) /\ Exists(Identity(p))' = Exists(Identity(p))
                        /\ \A purpose : Permits(p, purpose)' = Permits(p, purpose)
  BY MatchFileEffect DEF Exists, Permits, Decodes
<1>4. \A n \in Matches : Decodes(Replay(n))' => Decodes(Replay(n)) \/ (n = m /\ content # Absent)
  <2>1. \A n \in Matches : n # m => disk'[Replay(n)] = disk[Replay(n)]
    BY MatchFileEffect
  <2>2. disk'[Replay(m)] = disk[Replay(m)] \/ disk'[Replay(m)] = content
    BY MatchFileEffect DEF MatchFiles
  <2> QED
    BY <2>1, <2>2, RecordsRead DEF Decodes
<1>5. ConsentBeside'
  BY <1>3, <1>4, CorpusAssumption DEF Held, ConsentBeside, Remembers
<1>6. GoneUnknown'
  BY <1>3, <1>4 DEF Held, GoneUnknown, Unknown, Remembers, TypeOK
<1>7. RevokedOff'
  BY <1>3 DEF Held, RevokedOff, Remembers, TypeOK
<1> QED
  BY <1>2, <1>5, <1>6, <1>7 DEF Held

(* Nothing that is read changes, and no more is forgotten than before.     *)
LEMMA HeldAside ==
  ASSUME TypeOK, Held,
         \A p \in People : disk'[Consent(p)] = disk[Consent(p)] /\ disk'[Identity(p)] = disk[Identity(p)],
         \A m \in Matches : /\ disk'[Replay(m)] = disk[Replay(m)] /\ disk'[Session(m)] = disk[Session(m)]
                            /\ disk'[Telemetry(m)] = disk[Telemetry(m)],
         directories \subseteq directories' \/ \A m \in directories \ directories' : \A path \in DirectoryFiles(m) : ~ Exists(path),
         \A m \in Matches : disk'[Stray(m)] # Absent => disk[Stray(m)] # Absent \/ m \in directories',
         directories' \subseteq Matches,
         gone' \subseteq gone, revoked' \subseteq revoked, concluded' => concluded
  PROVE  Held'
<1>1. \A m \in Matches : \A path \in DirectoryFiles(m) : Exists(path)' => Exists(path) \/ m \in directories'
  BY DEF DirectoryFiles, MatchFiles, Exists
<1>2. FilesInDirectories'
  <2>1. \A n \in Matches : Exists(Telemetry(n))' = Exists(Telemetry(n))
    BY DEF Exists
  <2> QED
    BY <1>1, <2>1 DEF Held, FilesInDirectories
<1>3. \A p \in People : /\ Exists(Consent(p))' = Exists(Consent(p)) /\ Exists(Identity(p))' = Exists(Identity(p))
                        /\ \A purpose : Permits(p, purpose)' = Permits(p, purpose)
  BY DEF Exists, Permits, Decodes
<1>4. \A n \in Matches : Decodes(Replay(n))' = Decodes(Replay(n))
  BY DEF Decodes
<1>5. ConsentBeside'
  BY <1>3, <1>4, CorpusAssumption DEF Held, ConsentBeside
<1>6. GoneUnknown'
  BY <1>3, <1>4 DEF Held, GoneUnknown, Unknown, TypeOK
<1>7. RevokedOff'
  BY <1>3 DEF Held, RevokedOff, TypeOK
<1> QED
  BY <1>2, <1>5, <1>6, <1>7 DEF Held

(* The record of consent goes last: of a person of whom no name is kept    *)
(* and no match is listed.                                                 *)
LEMMA HeldUnsigned ==
  ASSUME TypeOK, Held, NEW p \in People,
         disk' = [disk EXCEPT ![Consent(p)] = Absent], Remembers,
         ~ Exists(Identity(p)), Listed(p) = {}
  PROVE  Held'
<1>1. FilesInDirectories'
  <2>1. \A m \in Matches : \A path \in DirectoryFiles(m) : disk'[path] = disk[path]
    <3> SUFFICES ASSUME NEW m \in Matches
                 PROVE  \A path \in DirectoryFiles(m) : disk'[path] = disk[path]
      OBVIOUS
    <3>1. /\ disk'[Replay(m)] = disk[Replay(m)] /\ disk'[Session(m)] = disk[Session(m)]
          /\ disk'[Telemetry(m)] = disk[Telemetry(m)] /\ disk'[Stray(m)] = disk[Stray(m)]
      BY ConsentEffect
    <3> QED
      BY <3>1 DEF DirectoryFiles, MatchFiles
  <2>2. \A m \in Matches : disk'[Telemetry(m)] = disk[Telemetry(m)]
    BY ConsentEffect
  <2> QED
    BY <2>1, <2>2 DEF Held, FilesInDirectories, Exists, Remembers
<1>2. \A m \in Matches : Decodes(Replay(m)) => p \notin Players(m)
  <2> SUFFICES ASSUME NEW m \in Matches, Decodes(Replay(m)), p \in Players(m)
               PROVE  FALSE
    OBVIOUS
  <2>1. Exists(Replay(m))
    BY RecordsRead DEF Decodes, Exists
  <2>2. m \in directories
    BY <2>1 DEF Held, FilesInDirectories, DirectoryFiles, MatchFiles
  <2>3. m \in Listed(p)
    BY <2>2 DEF Listed, ParticipantsOf
  <2> QED
    BY <2>3
<1>3. \A m \in Matches : Decodes(Replay(m))' = Decodes(Replay(m))
  BY ConsentEffect DEF Decodes
<1>4. \A q \in People : Exists(Identity(q))' = Exists(Identity(q))
  BY ConsentEffect DEF Exists
<1>5. \A q \in People : q # p => /\ Exists(Consent(q))' = Exists(Consent(q))
                                 /\ \A purpose : Permits(q, purpose)' = Permits(q, purpose)
  BY ConsentEffect DEF Exists, Permits, Decodes
<1>6. ~ Exists(Consent(p))' /\ \A purpose : ~ Permits(p, purpose)'
  BY ConsentEffect, RecordsRead DEF Exists, Permits, Decodes
<1>7. ConsentBeside'
  BY <1>2, <1>3, <1>4, <1>5, <1>6, CorpusAssumption DEF Held, ConsentBeside, Remembers
<1>8. GoneUnknown'
  BY <1>3, <1>4, <1>5, <1>6 DEF Held, GoneUnknown, Unknown, Remembers, TypeOK
<1>9. RevokedOff'
  BY <1>5, <1>6 DEF Held, RevokedOff, Remembers, TypeOK
<1> QED
  BY <1>1, <1>7, <1>8, <1>9 DEF Held

-----------------------------------------------------------------------------
(* Which command is under way decides what the operations that are left    *)
(* have to be.                                                             *)

LEMMA UnderWayOf ==
  /\ running' = Idle /\ todo' = << >> /\ due' = {} => UnderWay'
  /\ \A p \in People : running' = Enrols(p) /\ due' = {} /\ Enrolling(p)' => UnderWay'
  /\ \A m \in Matches : running' = Stores(m) /\ due' = {} /\ Storing(m)' => UnderWay'
  /\ \A p \in People : running' = Withdraws(p) /\ due' = {} /\ Withdrawing(p)' => UnderWay'
  /\ \A p \in People, purpose \in Purposes :
        running' = Revokes(p, purpose) /\ due' = {} /\ Revoking(p, purpose)' => UnderWay'
  /\ running' = Publishes /\ due' = {} /\ Publishing' => UnderWay'
  /\ running' = Concludes /\ Concluding' => UnderWay'
<1>1. running' = Idle /\ todo' = << >> /\ due' = {} => UnderWay'
  BY CommandsApart DEF UnderWay
<1>2. ASSUME NEW p \in People, running' = Enrols(p), due' = {}, Enrolling(p)'
      PROVE  UnderWay'
  BY <1>2, CommandsApart DEF UnderWay
<1>3. ASSUME NEW m \in Matches, running' = Stores(m), due' = {}, Storing(m)'
      PROVE  UnderWay'
  BY <1>3, CommandsApart DEF UnderWay
<1>4. ASSUME NEW p \in People, running' = Withdraws(p), due' = {}, Withdrawing(p)'
      PROVE  UnderWay'
  BY <1>4, CommandsApart DEF UnderWay
<1>5. ASSUME NEW p \in People, NEW purpose \in Purposes,
             running' = Revokes(p, purpose), due' = {}, Revoking(p, purpose)'
      PROVE  UnderWay'
  BY <1>5, CommandsApart DEF UnderWay
<1>6. running' = Publishes /\ due' = {} /\ Publishing' => UnderWay'
  BY CommandsApart DEF UnderWay
<1>7. running' = Concludes /\ Concluding' => UnderWay'
  BY CommandsApart DEF UnderWay
<1> QED
  BY <1>1, <1>2, <1>3, <1>4, <1>5, <1>6, <1>7

LEMMA AccountedKept ==
  ASSUME TypeOK, AllAccounted, crashed' = crashed,
         directories' \subseteq directories,
         \A m \in directories' : /\ disk'[Replay(m)] = disk[Replay(m)] /\ disk'[Session(m)] = disk[Session(m)]
                                 /\ disk'[Telemetry(m)] = disk[Telemetry(m)],
         \A m \in directories' : RemoveAll(m) \in Range(todo) => RemoveAll(m) \in Range(todo'),
         \A m \in Matches : running = Stores(m) => running' = Stores(m)
  PROVE  AllAccounted'
<1>1. \A m \in directories' : Coherent(m) => Coherent(m)'
  BY DEF Coherent, Exists, Decodes
<1> QED
  BY <1>1 DEF AllAccounted, Stores, TypeOK

(* A command that begins has done nothing yet.                             *)
LEMMA Begun ==
  ASSUME IInv, NEW command, NEW steps, Begin(command, steps),
         gone' \subseteq gone, revoked' \subseteq revoked, concluded' => concluded
  PROVE  /\ running' = command /\ todo' = steps
         /\ disk' = disk /\ directories' = directories /\ document' = document /\ due = {}
         /\ Held' /\ AllAccounted'
<1>1. /\ running = Idle /\ running' = command /\ todo' = steps
      /\ UNCHANGED <<disk, directories, document, crashed>>
  BY DEF Begin, files
<1>2. todo = << >> /\ due = {}
  BY <1>1, CommandsApart DEF IInv, UnderWay
<1>3. Held'
  BY <1>1, HeldAside DEF IInv, TypeOK
<1>4. Range(todo) = {}
  BY <1>2, Single
<1>5. AllAccounted'
  BY <1>1, <1>4, AccountedKept, CommandsApart DEF IInv, TypeOK
<1> QED
  BY <1>1, <1>2, <1>3, <1>5

LEMMA EnrolHolds ==
  ASSUME IInv, NEW p \in People, NEW permissions \in Grants, Enrol(p, permissions)
  PROVE  Held' /\ AllAccounted' /\ UnderWay'
<1>1. /\ Begin(Enrols(p), EnrolSteps(p, permissions))
      /\ gone' = gone \ {p} /\ revoked' = {r \in revoked : r[1] # p} /\ concluded' = FALSE /\ due' = due
  BY DEF Enrol, Enrols
<1>2. /\ running' = Enrols(p) /\ todo' = EnrolSteps(p, permissions) /\ due' = {}
      /\ Held' /\ AllAccounted'
  BY <1>1, Begun
<1>3. permissions \in SUBSET Purposes /\ document \in Versions
  BY CorpusAssumption DEF IInv, TypeOK
<1>4. Enrolling(p)'
  BY <1>1, <1>2, <1>3 DEF Enrolling, EnrolSteps
<1> QED
  BY <1>2, <1>4, UnderWayOf

LEMMA StoreHolds ==
  ASSUME IInv, NEW m \in Matches, Store(m)
  PROVE  Held' /\ AllAccounted' /\ UnderWay'
<1>1. /\ Begin(Stores(m), StoreSteps(m)) /\ Admits(m)
      /\ concluded' = FALSE /\ UNCHANGED <<due, met, gone, revoked>>
  BY DEF Store, Stores
<1>2. /\ running' = Stores(m) /\ todo' = StoreSteps(m) /\ due' = {} /\ disk' = disk
      /\ Held' /\ AllAccounted'
  BY <1>1, Begun
<1>3. \A p \in Players(m) : Exists(Consent(p))'
  BY <1>1, <1>2, RecordsRead DEF Admits, Exists, Decodes
<1>4. Storing(m)'
  BY <1>1, <1>2, <1>3 DEF Storing, StoreSteps
<1> QED
  BY <1>2, <1>4, UnderWayOf

LEMMA WithdrawHolds ==
  ASSUME IInv, NEW p \in People, Withdraw(p)
  PROVE  Held' /\ AllAccounted' /\ UnderWay'
<1>1. /\ Begin(Withdraws(p), WithdrawSteps(p)) /\ UNCHANGED <<due, met, gone, revoked, concluded>>
  BY DEF Withdraw, Withdraws
<1>2. /\ running' = Withdraws(p) /\ todo' = WithdrawSteps(p) /\ due' = {}
      /\ disk' = disk /\ directories' = directories
      /\ Held' /\ AllAccounted'
  BY <1>1, Begun
<1>3. TypeOK /\ Listed(p) \subseteq Matches
  BY DEF IInv, TypeOK, Listed
<1>4. Destroying(p)'
  BY <1>2, <1>3, WithdrawStepsOf DEF Destroying, Listed, ParticipantsOf, Exists, Decodes
<1>5. p \in gone => Listed(p) = {} /\ ~ Exists(Identity(p)) /\ ~ Exists(Consent(p))
  BY <1>3 DEF IInv, Held, GoneUnknown, Unknown, Listed, ParticipantsOf, TypeOK
<1>6. /\ (\A n \in Listed(p) : RemoveAll(n) \in Range(todo))'
      /\ (Exists(Identity(p)) => Unlink(Identity(p)) \in Range(todo))'
      /\ (Exists(Consent(p)) => Unlink(Consent(p)) \in Range(todo))'
  BY <1>2, <1>3, WithdrawStepsOf DEF Listed, ParticipantsOf, Exists, Decodes
<1>7. p \in gone' => Range(todo') \subseteq {Write(Tombstone(p), Whole)}
  BY <1>1, <1>2, <1>3, <1>5, WithdrawStepsOf
<1> QED
  BY <1>2, <1>4, <1>6, <1>7, UnderWayOf DEF Withdrawing

LEMMA WithdrawPurposeHolds ==
  ASSUME IInv, NEW p \in People, NEW purpose \in Purposes, WithdrawPurpose(p, purpose)
  PROVE  Held' /\ AllAccounted' /\ UnderWay'
<1>1. /\ Begin(Revokes(p, purpose), RevokeSteps(p, purpose))
      /\ concluded' = FALSE /\ UNCHANGED <<due, met, gone, revoked>>
  BY DEF WithdrawPurpose, Revokes
<1>2. /\ running' = Revokes(p, purpose) /\ todo' = RevokeSteps(p, purpose) /\ due' = {} /\ disk' = disk
      /\ Held' /\ AllAccounted'
  BY <1>1, Begun
<1>3. CASE Permits(p, purpose)
  <2>1. PICK permissions \in SUBSET (disk[Consent(p)].permissions \ {purpose}), version \in Versions :
           RevokeSteps(p, purpose) = <<Write(Consent(p), Signed(permissions, version)), Write(Tombstone(p), Whole)>>
    BY <1>3, RevokeStepsOf DEF IInv
  <2>2. Revoking(p, purpose)'
    BY <1>1, <1>2, <1>3, <2>1 DEF Revoking, Permits, Decodes
  <2> QED
    BY <1>2, <2>2, UnderWayOf
<1>4. CASE ~ Permits(p, purpose)
  <2>1. Revoking(p, purpose)'
    BY <1>1, <1>2, <1>4, RevokesNothing DEF Revoking, Permits, Decodes
  <2> QED
    BY <1>2, <2>1, UnderWayOf
<1> QED
  BY <1>3, <1>4

LEMMA PublishHolds ==
  ASSUME IInv, Publish
  PROVE  Held' /\ AllAccounted' /\ UnderWay'
<1>1. /\ Begin(Publishes, PublishSteps) /\ UNCHANGED <<due, met, gone, revoked, concluded>>
  BY DEF Publish, Publishes
<1>2. /\ running' = Publishes /\ todo' = PublishSteps /\ due' = {} /\ disk' = disk
      /\ Held' /\ AllAccounted'
  BY <1>1, Begun
<1>3. Publishing'
  BY <1>2, PublishStepsOf DEF Publishing, Usable, EveryoneIn, Permits, Decodes
<1> QED
  BY <1>2, <1>3, UnderWayOf

LEMMA ConcludeHolds ==
  ASSUME IInv, Conclude
  PROVE  Held' /\ AllAccounted' /\ UnderWay'
<1>1. /\ Begin(Concludes, << >>) /\ due' = DueAtConclusion /\ UNCHANGED <<met, gone, revoked, concluded>>
  BY DEF Conclude, Concludes
<1>2. /\ running' = Concludes /\ todo' = << >> /\ disk' = disk
      /\ Held' /\ AllAccounted'
  BY <1>1, Begun
<1>3. Concluding'
  BY <1>1, <1>2 DEF Concluding, DueAtConclusion, Exists, Permits, Decodes
<1> QED
  BY <1>2, <1>3, UnderWayOf

LEMMA ConcludeNextHolds ==
  ASSUME IInv, NEW p \in People, ConcludeNext(p)
  PROVE  Held' /\ AllAccounted' /\ UnderWay'
<1>1. /\ running.command = "conclude" /\ todo = << >> /\ p \in due
      /\ todo' = WithdrawSteps(p) /\ due' = due \ {p}
      /\ UNCHANGED <<disk, directories, running, gone, revoked, concluded, crashed>>
  BY DEF ConcludeNext, files, history
<1>2. TypeOK /\ running = Concludes /\ Listed(p) \subseteq Matches
  BY <1>1, CommandsOf, CommandsApart DEF IInv, TypeOK, Listed
<1>3. Held'
  BY <1>1, HeldAside DEF IInv, TypeOK
<1>4. Range(todo) = {}
  BY <1>1, Single
<1>5. AllAccounted'
  BY <1>1, <1>4, AccountedKept DEF IInv, TypeOK
<1>6. Destroying(p)'
  BY <1>1, <1>2, WithdrawStepsOf DEF Destroying, Listed, ParticipantsOf, Exists, Decodes
<1>7. Concluding
  BY <1>2 DEF IInv, UnderWay
<1>8. Exists(Consent(p)) => Unlink(Consent(p)) \in Range(WithdrawSteps(p))
  BY <1>2, WithdrawStepsOf
<1>9. ASSUME NEW q \in People, (Exists(Consent(q)) /\ ~ Permits(q, Retention))'
      PROVE  q \in due' \/ (Unlink(Consent(q)) \in Range(todo))'
  <2>1. Exists(Consent(q)) /\ ~ Permits(q, Retention)
    BY <1>1, <1>9 DEF Exists, Permits, Decodes
  <2>2. q \in due
    BY <1>4, <1>7, <2>1 DEF Concluding
  <2> QED
    BY <1>1, <1>8, <2>1, <2>2
<1>10. Concluding'
  BY <1>6, <1>9 DEF Concluding
<1> QED
  BY <1>1, <1>2, <1>3, <1>5, <1>10, UnderWayOf

-----------------------------------------------------------------------------
(* The file operations of each command, one command at a time.             *)

LEMMA WritePerformed ==
  ASSUME TypeOK, Perform, NEW path, NEW content, Head(todo) = Write(path, content)
  PROVE  /\ path \in Paths /\ disk' = [disk EXCEPT ![path] = content]
         /\ todo' = Tail(todo) /\ directories' = directories
         /\ \A m : RemoveAll(m) \in Range(todo) => RemoveAll(m) \in Range(todo')
         /\ UNCHANGED <<document, running, due, history>>
<1>1. todo' = Tail(todo) /\ directories' = directories /\ path \in Paths /\ disk' = [disk EXCEPT ![path] = content]
  BY PerformStep, OperationsApart
<1>2. \A m : RemoveAll(m) # Head(todo)
  BY OperationsApart
<1> QED
  BY <1>1, <1>2, PerformStep

LEMMA UnlinkPerformed ==
  ASSUME TypeOK, Perform, NEW path, Head(todo) = Unlink(path)
  PROVE  /\ path \in Paths /\ disk' = [disk EXCEPT ![path] = Absent]
         /\ todo' = Tail(todo) /\ directories' = directories
         /\ \A m : RemoveAll(m) \in Range(todo) => RemoveAll(m) \in Range(todo')
         /\ UNCHANGED <<document, running, due, history>>
<1>1. todo' = Tail(todo) /\ directories' = directories /\ path \in Paths /\ disk' = [disk EXCEPT ![path] = Absent]
  BY PerformStep, OperationsApart
<1>2. \A m : RemoveAll(m) # Head(todo)
  BY OperationsApart
<1> QED
  BY <1>1, <1>2, PerformStep

LEMMA EnrolsPerforms ==
  ASSUME IInv, NEW p \in People, running = Enrols(p), Perform
  PROVE  Held' /\ AllAccounted' /\ UnderWay'
<1>1. TypeOK /\ Held /\ AllAccounted /\ Enrolling(p) /\ due = {}
  BY CommandsApart DEF IInv, UnderWay
<1>2. todo # << >> /\ UNCHANGED <<running, due, history>>
  BY <1>1, PerformStep
<1>3. ASSUME NEW permissions \in SUBSET Purposes, NEW version \in Versions,
             todo = <<Write(Consent(p), Signed(permissions, version)), Write(Identity(p), Whole)>>
      PROVE  Held' /\ AllAccounted' /\ UnderWay'
  <2>1. Head(todo) = Write(Consent(p), Signed(permissions, version)) /\ Tail(todo) = <<Write(Identity(p), Whole)>>
    BY <1>3
  <2>2. /\ disk' = [disk EXCEPT ![Consent(p)] = Signed(permissions, version)]
        /\ todo' = <<Write(Identity(p), Whole)>> /\ directories' = directories
        /\ \A m : RemoveAll(m) \in Range(todo) => RemoveAll(m) \in Range(todo')
    BY <1>1, <2>1, WritePerformed
  <2>3. Signed(permissions, version) \in Records /\ Signed(permissions, version) # Absent
    BY RecordsRead
  <2>4. Held'
    BY <1>1, <1>2, <2>2, <2>3, HeldSigned DEF Remembers, history, Enrolling
  <2>5. AllAccounted'
    BY <1>1, <1>2, <2>2, AccountedKept, ConsentEffect DEF history, TypeOK
  <2>6. Exists(Consent(p))'
    BY <1>1, <2>2, <2>3, ConsentEffect DEF Exists
  <2>7. Enrolling(p)'
    BY <1>1, <1>2, <2>2, <2>6 DEF Enrolling, history
  <2> QED
    BY <1>1, <1>2, <2>4, <2>5, <2>7, UnderWayOf
<1>4. ASSUME Exists(Consent(p)), todo = <<Write(Identity(p), Whole)>>
      PROVE  Held' /\ AllAccounted' /\ UnderWay'
  <2>1. Head(todo) = Write(Identity(p), Whole) /\ Tail(todo) = << >>
    BY <1>4
  <2>2. /\ disk' = [disk EXCEPT ![Identity(p)] = Whole]
        /\ todo' = << >> /\ directories' = directories
        /\ \A m : RemoveAll(m) \in Range(todo) => RemoveAll(m) \in Range(todo')
    BY <1>1, <2>1, WritePerformed
  <2>3. Held'
    BY <1>1, <1>2, <1>4, <2>2, HeldNamed DEF Remembers, history
  <2>4. AllAccounted'
    BY <1>1, <1>2, <2>2, AccountedKept, IdentityEffect DEF history, TypeOK
  <2>5. Enrolling(p)'
    BY <1>1, <1>2, <2>2 DEF Enrolling, history
  <2> QED
    BY <1>1, <1>2, <2>3, <2>4, <2>5, UnderWayOf
<1> QED
  BY <1>1, <1>2, <1>3, <1>4 DEF Enrolling

LEMMA RevokesPerforms ==
  ASSUME IInv, NEW p \in People, NEW purpose \in Purposes, running = Revokes(p, purpose), Perform
  PROVE  Held' /\ AllAccounted' /\ UnderWay'
<1>1. TypeOK /\ Held /\ AllAccounted /\ Revoking(p, purpose) /\ due = {}
  BY CommandsApart DEF IInv, UnderWay
<1>2. todo # << >> /\ UNCHANGED <<running, due, history>>
  BY <1>1, PerformStep
<1>3. ASSUME NEW permissions \in SUBSET (disk[Consent(p)].permissions \ {purpose}), NEW version \in Versions,
             Decodes(Consent(p)),
             todo = <<Write(Consent(p), Signed(permissions, version)), Write(Tombstone(p), Whole)>>
      PROVE  Held' /\ AllAccounted' /\ UnderWay'
  <2>1. Head(todo) = Write(Consent(p), Signed(permissions, version)) /\ Tail(todo) = <<Write(Tombstone(p), Whole)>>
    BY <1>3
  <2>2. /\ disk' = [disk EXCEPT ![Consent(p)] = Signed(permissions, version)]
        /\ todo' = <<Write(Tombstone(p), Whole)>> /\ directories' = directories
        /\ \A m : RemoveAll(m) \in Range(todo) => RemoveAll(m) \in Range(todo')
    BY <1>1, <2>1, WritePerformed
  <2>3. Exists(Consent(p)) /\ disk[Consent(p)] \in Records
    BY <1>1, <1>3, RecordsRead, PathsOf DEF Decodes, Exists, TypeOK
  <2>4. Signed(permissions, version) \in Records /\ Signed(permissions, version).permissions = permissions
    BY <1>3, <2>3, RecordsRead
  <2>5. p \notin gone
    BY <1>1, <2>3 DEF Held, GoneUnknown, Unknown
  <2>6. \A r \in revoked : r[1] = p => r[2] \notin permissions
    BY <1>1, <1>3 DEF Held, RevokedOff, Permits
  <2>7. Held'
    BY <1>1, <1>2, <2>2, <2>4, <2>5, <2>6, HeldSigned DEF Remembers, history, Revoking
  <2>8. AllAccounted'
    BY <1>1, <1>2, <2>2, AccountedKept, ConsentEffect DEF history, TypeOK
  <2>9. ~ Permits(p, purpose)'
    BY <1>1, <1>3, <2>2, <2>4, ConsentEffect DEF Permits
  <2>10. Revoking(p, purpose)'
    BY <1>1, <1>2, <2>2, <2>9 DEF Revoking, history
  <2> QED
    BY <1>1, <1>2, <2>7, <2>8, <2>10, UnderWayOf
<1>4. ASSUME todo = <<Write(Tombstone(p), Whole)>>, ~ Permits(p, purpose)
      PROVE  Held' /\ AllAccounted' /\ UnderWay'
  <2>1. Head(todo) = Write(Tombstone(p), Whole) /\ Tail(todo) = << >>
    BY <1>4
  <2>2. /\ disk' = [disk EXCEPT ![Tombstone(p)] = Whole] /\ todo' = << >> /\ directories' = directories
        /\ \A m : RemoveAll(m) \in Range(todo) => RemoveAll(m) \in Range(todo')
    BY <1>1, <2>1, WritePerformed
  <2>3. /\ \A q \in People : disk'[Consent(q)] = disk[Consent(q)] /\ disk'[Identity(q)] = disk[Identity(q)]
        /\ \A n \in Matches : /\ disk'[Replay(n)] = disk[Replay(n)] /\ disk'[Session(n)] = disk[Session(n)]
                              /\ disk'[Telemetry(n)] = disk[Telemetry(n)] /\ disk'[Stray(n)] = disk[Stray(n)]
    BY <1>1, <2>2, AsideEffect
  <2>4. Held'
    BY <1>1, <1>2, <2>2, <2>3, HeldAside DEF history, TypeOK
  <2>5. AllAccounted'
    BY <1>1, <1>2, <2>2, <2>3, AccountedKept DEF history, TypeOK
  <2>6. Revoking(p, purpose)'
    BY <1>1, <1>2, <1>4, <2>2, <2>3 DEF Revoking, Permits, Decodes, history
  <2> QED
    BY <1>1, <1>2, <2>4, <2>5, <2>6, UnderWayOf
<1> QED
  BY <1>1, <1>2, <1>3, <1>4 DEF Revoking

LEMMA PublishesPerforms ==
  ASSUME IInv, running = Publishes, Perform
  PROVE  Held' /\ AllAccounted' /\ UnderWay'
<1>1. TypeOK /\ Held /\ AllAccounted /\ Publishing /\ due = {}
  BY CommandsApart DEF IInv, UnderWay
<1>2. /\ Range(todo) = {Head(todo)} \cup Range(Tail(todo)) /\ UNCHANGED <<running, due, history>>
  BY <1>1, PerformStep
<1>3. PICK m \in Matches : Head(todo) = Write(Published(m), Whole)
  BY <1>1, <1>2 DEF Publishing
<1>4. /\ disk' = [disk EXCEPT ![Published(m)] = Whole]
      /\ todo' = Tail(todo) /\ directories' = directories
      /\ \A n : RemoveAll(n) \in Range(todo) => RemoveAll(n) \in Range(todo')
  BY <1>1, <1>3, WritePerformed
<1>5. /\ \A p \in People : disk'[Consent(p)] = disk[Consent(p)] /\ disk'[Identity(p)] = disk[Identity(p)]
      /\ \A n \in Matches : /\ disk'[Replay(n)] = disk[Replay(n)] /\ disk'[Session(n)] = disk[Session(n)]
                            /\ disk'[Telemetry(n)] = disk[Telemetry(n)] /\ disk'[Stray(n)] = disk[Stray(n)]
  BY <1>1, <1>4, AsideEffect
<1>6. Held'
  BY <1>1, <1>2, <1>4, <1>5, HeldAside DEF history, TypeOK
<1>7. AllAccounted'
  BY <1>1, <1>2, <1>4, <1>5, AccountedKept DEF history, TypeOK
<1>8. Publishing'
  BY <1>1, <1>2, <1>4, <1>5, CorpusAssumption DEF Publishing, Permits, Decodes
<1> QED
  BY <1>1, <1>2, <1>6, <1>7, <1>8, UnderWayOf

LEMMA Led ==
  ASSUME NEW T, NEW a \in T, NEW s \in Seq(T)
  PROVE  /\ <<a>> \o s \in Seq(T) /\ <<a>> \o s # << >>
         /\ Head(<<a>> \o s) = a /\ Tail(<<a>> \o s) = s
<1> DEFINE r == <<a>> \o s
<1>1. <<a>> \in Seq(T) /\ Len(<<a>>) = 1 /\ <<a>>[1] = a
  OBVIOUS
<1>2. /\ r \in Seq(T) /\ Len(r) = 1 + Len(s)
      /\ \A i \in 1..(1 + Len(s)) : r[i] = IF i <= 1 THEN <<a>>[i] ELSE s[i - 1]
  BY <1>1, ConcatProperties
<1>3. Len(s) \in Nat /\ s \in [1..Len(s) -> T]
  BY LenProperties
<1> HIDE DEF r
<1>4. r # << >> /\ Head(r) = a
  BY <1>1, <1>2, <1>3
<1>5. Tail(r) \in Seq(T) /\ Len(Tail(r)) = Len(s) /\ \A i \in 1..Len(Tail(r)) : Tail(r)[i] = s[i]
  BY <1>2, <1>3, <1>4, HeadTailProperties
<1>6. Tail(r) = s
  BY <1>3, <1>5, LenProperties
<1> QED
  BY <1>2, <1>4, <1>6 DEF r

LEMMA LedByPair ==
  ASSUME NEW T, NEW a \in T, NEW b \in T, NEW s \in Seq(T)
  PROVE  /\ <<a, b>> \o s \in Seq(T) /\ <<a, b>> \o s # << >>
         /\ Head(<<a, b>> \o s) = a /\ Tail(<<a, b>> \o s) = <<b>> \o s
<1> DEFINE r == <<a, b>> \o s
           t == <<b>> \o s
<1>1. /\ <<a, b>> \in Seq(T) /\ Len(<<a, b>>) = 2 /\ <<a, b>>[1] = a /\ <<a, b>>[2] = b
      /\ <<b>> \in Seq(T) /\ Len(<<b>>) = 1 /\ <<b>>[1] = b
  OBVIOUS
<1>2. /\ r \in Seq(T) /\ Len(r) = 2 + Len(s)
      /\ \A i \in 1..(2 + Len(s)) : r[i] = IF i <= 2 THEN <<a, b>>[i] ELSE s[i - 2]
  BY <1>1, ConcatProperties
<1>3. /\ t \in Seq(T) /\ Len(t) = 1 + Len(s)
      /\ \A i \in 1..(1 + Len(s)) : t[i] = IF i <= 1 THEN <<b>>[i] ELSE s[i - 1]
  BY <1>1, ConcatProperties
<1>4. Len(s) \in Nat /\ t \in [1..Len(t) -> T]
  BY <1>3, LenProperties
<1> HIDE DEF r, t
<1>5. r # << >> /\ Head(r) = a
  BY <1>1, <1>2, <1>4
<1>6. Tail(r) \in Seq(T) /\ Len(Tail(r)) = Len(t) /\ \A i \in 1..Len(Tail(r)) : Tail(r)[i] = r[i + 1]
  BY <1>2, <1>3, <1>4, <1>5, HeadTailProperties
<1>7. \A i \in 1..Len(t) : r[i + 1] = t[i]
  <2> SUFFICES ASSUME NEW i \in 1..Len(t)
               PROVE  r[i + 1] = t[i]
    OBVIOUS
  <2>1. CASE i = 1
    BY <1>1, <1>2, <1>3, <1>4, <2>1
  <2>2. CASE i # 1
    <3>1. r[i + 1] = s[i - 1]
      BY <1>2, <1>3, <1>4, <2>2
    <3>2. t[i] = s[i - 1]
      BY <1>3, <1>4, <2>2
    <3> QED
      BY <3>1, <3>2
  <2> QED
    BY <2>1, <2>2
<1>8. Tail(r) = t
  BY <1>4, <1>6, <1>7, LenProperties
<1> QED
  BY <1>2, <1>5, <1>8 DEF r, t

LEMMA LedByThree ==
  ASSUME NEW T, NEW a \in T, NEW b \in T, NEW c \in T, NEW s \in Seq(T)
  PROVE  /\ <<a, b, c>> \o s \in Seq(T) /\ <<a, b, c>> \o s # << >>
         /\ Head(<<a, b, c>> \o s) = a /\ Tail(<<a, b, c>> \o s) = <<b, c>> \o s
<1> DEFINE r == <<a, b, c>> \o s
           t == <<b, c>> \o s
<1>1. /\ <<a, b, c>> \in Seq(T) /\ Len(<<a, b, c>>) = 3
      /\ <<a, b, c>>[1] = a /\ <<a, b, c>>[2] = b /\ <<a, b, c>>[3] = c
      /\ <<b, c>> \in Seq(T) /\ Len(<<b, c>>) = 2 /\ <<b, c>>[1] = b /\ <<b, c>>[2] = c
  OBVIOUS
<1>2. /\ r \in Seq(T) /\ Len(r) = 3 + Len(s)
      /\ \A i \in 1..(3 + Len(s)) : r[i] = IF i <= 3 THEN <<a, b, c>>[i] ELSE s[i - 3]
  BY <1>1, ConcatProperties
<1>3. /\ t \in Seq(T) /\ Len(t) = 2 + Len(s)
      /\ \A i \in 1..(2 + Len(s)) : t[i] = IF i <= 2 THEN <<b, c>>[i] ELSE s[i - 2]
  BY <1>1, ConcatProperties
<1>4. Len(s) \in Nat /\ t \in [1..Len(t) -> T]
  BY <1>3, LenProperties
<1> HIDE DEF r, t
<1>5. r # << >> /\ Head(r) = a
  BY <1>1, <1>2, <1>4
<1>6. Tail(r) \in Seq(T) /\ Len(Tail(r)) = Len(t) /\ \A i \in 1..Len(Tail(r)) : Tail(r)[i] = r[i + 1]
  BY <1>2, <1>3, <1>4, <1>5, HeadTailProperties
<1>7. \A i \in 1..Len(t) : r[i + 1] = t[i]
  <2> SUFFICES ASSUME NEW i \in 1..Len(t)
               PROVE  r[i + 1] = t[i]
    OBVIOUS
  <2>1. CASE i = 1 \/ i = 2
    BY <1>1, <1>2, <1>3, <1>4, <2>1
  <2>2. CASE i # 1 /\ i # 2
    <3>1. r[i + 1] = s[i - 2]
      BY <1>2, <1>3, <1>4, <2>2
    <3>2. t[i] = s[i - 2]
      BY <1>3, <1>4, <2>2
    <3> QED
      BY <3>1, <3>2
  <2> QED
    BY <2>1, <2>2
<1>8. Tail(r) = t
  BY <1>4, <1>6, <1>7, LenProperties
<1> QED
  BY <1>2, <1>5, <1>8 DEF r, t

LEMMA StoreOrder ==
  ASSUME NEW m \in Matches
  PROVE  /\ Head(StoreSteps(m)) = MakeDirectory(m)
         /\ Tail(StoreSteps(m)) = <<Write(Replay(m), Whole), Write(Session(m), Whole)>> \o Companion(m)
         /\ Head(Tail(StoreSteps(m))) = Write(Replay(m), Whole)
         /\ Tail(Tail(StoreSteps(m))) = <<Write(Session(m), Whole)>> \o Companion(m)
         /\ Head(<<Write(Session(m), Whole)>> \o Companion(m)) = Write(Session(m), Whole)
         /\ Tail(<<Write(Session(m), Whole)>> \o Companion(m)) = Companion(m)
<1> DEFINE make == MakeDirectory(m)
           replay == Write(Replay(m), Whole)
           session == Write(Session(m), Whole)
           rest == Companion(m)
<1>1. {make, replay, session, Write(Telemetry(m), Whole)} \subseteq Operations
  BY OperationsOf
<1>2. rest \in Seq(Operations)
  BY <1>1 DEF Companion
<1>3. StoreSteps(m) = <<make, replay, session>> \o rest
  BY Zenon DEF StoreSteps, Companion
<1> HIDE DEF make, replay, session, rest
<1>4. Head(<<session>> \o rest) = session /\ Tail(<<session>> \o rest) = rest
  BY <1>1, <1>2, Led
<1>5. Head(<<replay, session>> \o rest) = replay /\ Tail(<<replay, session>> \o rest) = <<session>> \o rest
  BY <1>1, <1>2, LedByPair
<1>6. Head(<<make, replay, session>> \o rest) = make /\ Tail(<<make, replay, session>> \o rest) = <<replay, session>> \o rest
  BY <1>1, <1>2, LedByThree, SMTT(40)
<1> QED
  BY <1>3, <1>4, <1>5, <1>6 DEF make, replay, session, rest

LEMMA StoreNotEmpty ==
  ASSUME NEW m \in Matches
  PROVE  /\ StoreSteps(m) # << >>
         /\ <<Write(Replay(m), Whole), Write(Session(m), Whole)>> \o Companion(m) # << >>
         /\ <<Write(Session(m), Whole)>> \o Companion(m) # << >>
<1> DEFINE make == MakeDirectory(m)
           replay == Write(Replay(m), Whole)
           session == Write(Session(m), Whole)
           rest == Companion(m)
<1>1. {make, replay, session, Write(Telemetry(m), Whole)} \subseteq Operations
  BY OperationsOf
<1>2. rest \in Seq(Operations)
  BY <1>1 DEF Companion
<1>3. StoreSteps(m) = <<make, replay, session>> \o rest
  BY Zenon DEF StoreSteps, Companion
<1> HIDE DEF make, replay, session, rest
<1> QED
  BY <1>1, <1>2, <1>3, Led, LedByPair, LedByThree DEF make, replay, session, rest

LEMMA StoresPerforms ==
  ASSUME IInv, NEW m \in Matches, running = Stores(m), Perform
  PROVE  Held' /\ AllAccounted' /\ UnderWay'
<1>1. TypeOK /\ Held /\ AllAccounted /\ Storing(m) /\ due = {}
  BY CommandsApart DEF IInv, UnderWay
<1>2. todo # << >> /\ UNCHANGED <<running, due, history>>
  BY <1>1, PerformStep
<1>3. CASE todo = StoreSteps(m)
  <2>1. /\ Head(todo) = MakeDirectory(m)
        /\ Tail(todo) = <<Write(Replay(m), Whole), Write(Session(m), Whole)>> \o Companion(m)
    BY <1>3, StoreOrder
  <2>2. disk' = disk /\ directories' = directories \cup {m} /\ todo' = Tail(todo)
    BY <1>1, <2>1, PerformStep, OperationsApart
  <2>3. Held'
    BY <1>1, <1>2, <2>2, HeldAside DEF history, TypeOK
  <2>4. Storing(m)'
    BY <1>1, <1>2, <2>1, <2>2 DEF Storing, Exists, history
  <2>5. AllAccounted'
    <3>1. \A n : RemoveAll(n) # Head(todo)
      BY <2>1, OperationsApart
    <3>2. Range(todo) = {Head(todo)} \cup Range(Tail(todo))
      BY <1>1, PerformStep
    <3>3. \A n : RemoveAll(n) \in Range(todo) => RemoveAll(n) \in Range(todo')
      BY <2>2, <3>1, <3>2
    <3>4. \A n : Coherent(n)' = Coherent(n)
      BY <2>2 DEF Coherent, Exists, Decodes
    <3> QED
      BY <1>1, <1>2, <2>2, <3>3, <3>4 DEF AllAccounted, history
  <2> QED
    BY <1>1, <1>2, <2>3, <2>4, <2>5, UnderWayOf
<1>4. ASSUME NEW path \in MatchFiles(m), Head(todo) = Write(path, Whole), m \in directories,
             path = Telemetry(m) => m \in Committed
      PROVE  /\ Held' /\ AllAccounted'
             /\ todo' = Tail(todo) /\ directories' = directories
             /\ disk'[path] = Whole /\ \A other \in MatchFiles(m) : other # path => disk'[other] = disk[other]
             /\ \A p \in Players(m) : Exists(Consent(p))'
  <2>1. /\ disk' = [disk EXCEPT ![path] = Whole] /\ todo' = Tail(todo) /\ directories' = directories
        /\ \A n : RemoveAll(n) \in Range(todo) => RemoveAll(n) \in Range(todo')
    BY <1>1, <1>4, WritePerformed
  <2>2. Held'
    BY <1>1, <1>2, <1>4, <2>1, HeldFiled DEF Remembers, history, Storing
  <2>3. AllAccounted'
    <3> SUFFICES ASSUME ~ crashed', NEW n \in directories'
                 PROVE  (Coherent(n) \/ RemoveAll(n) \in Range(todo) \/ running = Stores(n))'
      BY DEF AllAccounted, Stores
    <3>1. CASE n = m
      BY <1>2, <3>1
    <3>2. CASE n # m
      <4>1. n \in Matches /\ (Coherent(n) \/ RemoveAll(n) \in Range(todo))
        BY <1>1, <1>2, <2>1, <3>2, CommandsApart DEF AllAccounted, TypeOK, history, Stores
      <4>2. Coherent(n)' = Coherent(n)
        <5>1. /\ disk'[Replay(n)] = disk[Replay(n)] /\ disk'[Session(n)] = disk[Session(n)]
              /\ disk'[Telemetry(n)] = disk[Telemetry(n)]
          BY <1>1, <2>1, <3>2, <4>1, MatchFileEffect
        <5> QED
          BY <5>1 DEF Coherent, Decodes, Exists
      <4> QED
        BY <2>1, <4>1, <4>2
    <3> QED
      BY <3>1, <3>2
  <2>4. \A p \in Players(m) : Exists(Consent(p))'
    BY <1>1, <2>1, MatchFileEffect, CorpusAssumption DEF Storing, Exists
  <2>5. disk'[path] = Whole /\ \A other \in MatchFiles(m) : other # path => disk'[other] = disk[other]
    <3>1. disk'[path] = Whole
      BY <1>1, <2>1, PathsOf, Effect DEF MatchFiles
    <3>2. \A other \in MatchFiles(m) : other # path => disk'[other] = disk[other]
      BY <1>1, <2>1, MatchFileEffect
    <3> QED
      BY <3>1, <3>2
  <2> QED
    BY <2>1, <2>2, <2>3, <2>4, <2>5
<1>5. /\ Replay(m) \in MatchFiles(m) /\ Session(m) \in MatchFiles(m) /\ Telemetry(m) \in MatchFiles(m)
      /\ Replay(m) # Session(m) /\ Replay(m) # Telemetry(m) /\ Session(m) # Telemetry(m)
      /\ Whole.state = "whole"
  BY PathsApart, RecordsRead DEF MatchFiles
<1>6. CASE m \in directories /\ todo = << Write(Replay(m), Whole), Write(Session(m), Whole) >> \o Companion(m)
  <2>1. Head(todo) = Write(Replay(m), Whole) /\ Tail(todo) = <<Write(Session(m), Whole)>> \o Companion(m)
    BY <1>6, StoreOrder
  <2>2. Storing(m)'
    BY <1>1, <1>2, <1>4, <1>5, <1>6, <2>1 DEF Storing, Decodes, history, Companion
  <2> QED
    BY <1>1, <1>2, <1>4, <1>5, <1>6, <2>1, <2>2, UnderWayOf
<1>7. CASE m \in directories /\ Decodes(Replay(m)) /\ todo = << Write(Session(m), Whole) >> \o Companion(m)
  <2>1. Head(todo) = Write(Session(m), Whole) /\ Tail(todo) = Companion(m)
    BY <1>7, StoreOrder
  <2>2. Storing(m)'
    BY <1>1, <1>2, <1>4, <1>5, <1>7, <2>1 DEF Storing, Decodes, history, Companion
  <2> QED
    BY <1>1, <1>2, <1>4, <1>5, <1>7, <2>1, <2>2, UnderWayOf
<1>8. CASE m \in directories /\ Decodes(Replay(m)) /\ Decodes(Session(m)) /\ todo = Companion(m)
  <2>1. m \in Committed /\ Head(todo) = Write(Telemetry(m), Whole) /\ Tail(todo) = << >>
    BY <1>2, <1>8 DEF Companion
  <2>2. Coherent(m)' /\ todo' = << >>
    BY <1>4, <1>5, <1>8, <2>1 DEF Coherent, Decodes
  <2>3. Storing(m)'
    BY <1>1, <1>2, <1>4, <1>5, <1>8, <2>1, <2>2 DEF Storing, history
  <2> QED
    BY <1>1, <1>2, <1>4, <1>5, <1>8, <2>1, <2>3, UnderWayOf
<1> QED
  BY <1>1, <1>2, <1>3, <1>6, <1>7, <1>8 DEF Storing

(* A withdrawal, on its own or one of a conclusion's.  Its operations never  *)
(* meet a record of consent while something is held beside it.             *)
LEMMA DestroyingPerforms ==
  ASSUME IInv, NEW p \in People, Destroying(p), Perform, ~ (running.command = "store")
  PROVE  /\ Held' /\ AllAccounted' /\ Destroying(p)'
         /\ UNCHANGED <<running, due, history>>
         /\ directories' \subseteq directories /\ Range(todo') \subseteq Range(todo)
         /\ Listed(p)' \subseteq Listed(p)
         /\ \A m \in Listed(p)' : RemoveAll(m) \in Range(todo) => RemoveAll(m) \in Range(todo')
         /\ Exists(Identity(p))' => /\ Exists(Identity(p))
                                    /\ Unlink(Identity(p)) \in Range(todo) => Unlink(Identity(p)) \in Range(todo')
         /\ Exists(Consent(p))' => (Unlink(Consent(p)) \in Range(todo) => Unlink(Consent(p)) \in Range(todo'))
         /\ \A q \in People : /\ Exists(Consent(q))' => Exists(Consent(q))
                              /\ q # p => /\ Exists(Consent(q))' = Exists(Consent(q))
                              /\ Exists(Consent(q))' => \A purpose : Permits(q, purpose)' = Permits(q, purpose)
<1>1. TypeOK /\ Held /\ AllAccounted
  BY DEF IInv
<1>2. /\ running # Idle /\ todo # << >> /\ todo \in Seq(Operations)
      /\ Range(todo) = {Head(todo)} \cup Range(Tail(todo))
      /\ \A a, b : Before(todo, a, b) => Head(todo) # b /\ (Head(todo) # a => Before(Tail(todo), a, b))
      /\ UNCHANGED <<document, running, due, history>>
  BY <1>1, PerformStep DEF TypeOK
<1> DEFINE consent == Unlink(Consent(p))
           identity == Unlink(Identity(p))
           tombstone == Write(Tombstone(p), Whole)
<1>3. /\ Range(todo) \subseteq {RemoveAll(m) : m \in Matches} \cup {identity, consent, tombstone}
      /\ \A m \in Listed(p) : Before(todo, RemoveAll(m), consent)
      /\ Exists(Identity(p)) => Before(todo, identity, consent)
  BY DEF Destroying
<1>4. Listed(p) \subseteq Matches
  BY <1>1 DEF Listed, TypeOK
<1>5. /\ consent # identity /\ consent # tombstone /\ identity # tombstone
      /\ \A m : RemoveAll(m) \notin {consent, identity, tombstone}
      /\ \A m, n : RemoveAll(m) = RemoveAll(n) => m = n
  BY OperationsApart, PathsApart
<1>6. CASE Head(todo) = tombstone
  <2>1. /\ disk' = [disk EXCEPT ![Tombstone(p)] = Whole] /\ todo' = Tail(todo) /\ directories' = directories
        /\ \A m : RemoveAll(m) \in Range(todo) => RemoveAll(m) \in Range(todo')
    BY <1>1, <1>6, WritePerformed
  <2>2. /\ \A q \in People : disk'[Consent(q)] = disk[Consent(q)] /\ disk'[Identity(q)] = disk[Identity(q)]
        /\ \A n \in Matches : /\ disk'[Replay(n)] = disk[Replay(n)] /\ disk'[Session(n)] = disk[Session(n)]
                              /\ disk'[Telemetry(n)] = disk[Telemetry(n)] /\ disk'[Stray(n)] = disk[Stray(n)]
    BY <1>1, <2>1, AsideEffect
  <2>3. Held'
    BY <1>1, <1>2, <2>1, <2>2, HeldAside DEF history, TypeOK
  <2>4. AllAccounted'
    BY <1>1, <1>2, <2>1, <2>2, AccountedKept DEF history, TypeOK
  <2>5. /\ Listed(p)' = Listed(p)
        /\ \A q \in People : /\ Exists(Identity(q))' = Exists(Identity(q)) /\ Exists(Consent(q))' = Exists(Consent(q))
                             /\ \A purpose : Permits(q, purpose)' = Permits(q, purpose)
    <3>1. Listed(p)' = Listed(p)
      BY <1>1, <2>1, <2>2, ListedKept
    <3> QED
      BY <2>2, <3>1 DEF Exists, Decodes, Permits
  <2>6. Destroying(p)'
    BY <1>2, <1>3, <1>5, <1>6, <2>1, <2>5 DEF Destroying
  <2> QED
    BY <1>2, <1>5, <1>6, <2>1, <2>3, <2>4, <2>5, <2>6
<1>7. CASE Head(todo) = identity
  <2>1. /\ disk' = [disk EXCEPT ![Identity(p)] = Absent] /\ todo' = Tail(todo) /\ directories' = directories
        /\ \A m : RemoveAll(m) \in Range(todo) => RemoveAll(m) \in Range(todo')
    BY <1>1, <1>7, UnlinkPerformed
  <2>2. Held'
    BY <1>1, <1>2, <2>1, HeldNamed DEF Remembers, history
  <2>3. AllAccounted'
    BY <1>1, <1>2, <2>1, AccountedKept, IdentityEffect DEF history, TypeOK
  <2>4. ~ Exists(Identity(p))'
    BY <1>1, <2>1, IdentityEffect DEF Exists
  <2>5. /\ Listed(p)' = Listed(p)
        /\ \A q \in People : /\ Exists(Consent(q))' = Exists(Consent(q))
                             /\ \A purpose : Permits(q, purpose)' = Permits(q, purpose)
    <3>1. Listed(p)' = Listed(p)
      BY <1>1, <2>1, IdentityEffect, ListedKept
    <3> QED
      BY <1>1, <2>1, <3>1, IdentityEffect DEF Exists, Decodes, Permits
  <2>6. Destroying(p)'
    BY <1>2, <1>3, <1>5, <1>7, <2>1, <2>4, <2>5 DEF Destroying
  <2> QED
    BY <1>2, <1>5, <1>7, <2>1, <2>2, <2>3, <2>4, <2>5, <2>6
<1>8. CASE Head(todo) = consent
  <2>1. /\ disk' = [disk EXCEPT ![Consent(p)] = Absent] /\ todo' = Tail(todo) /\ directories' = directories
        /\ \A m : RemoveAll(m) \in Range(todo) => RemoveAll(m) \in Range(todo')
    BY <1>1, <1>8, UnlinkPerformed
  <2>2. Listed(p) = {} /\ ~ Exists(Identity(p))
    BY <1>2, <1>3, <1>8
  <2>3. Held'
    BY <1>1, <1>2, <2>1, <2>2, HeldUnsigned DEF Remembers, history
  <2>4. AllAccounted'
    BY <1>1, <1>2, <2>1, AccountedKept, ConsentEffect DEF history, TypeOK
  <2>5. /\ ~ Exists(Consent(p))' /\ ~ Exists(Identity(p))' /\ Listed(p)' = {}
        /\ \A q \in People : q # p => /\ Exists(Consent(q))' = Exists(Consent(q))
                                      /\ \A purpose : Permits(q, purpose)' = Permits(q, purpose)
    <3>1. Listed(p)' = {}
      BY <1>1, <2>1, <2>2, ConsentEffect, ListedKept
    <3>2. ~ Exists(Consent(p))' /\ ~ Exists(Identity(p))'
      BY <1>1, <2>1, <2>2, ConsentEffect DEF Exists
    <3> QED
      BY <1>1, <2>1, <3>1, <3>2, ConsentEffect DEF Exists, Decodes, Permits
  <2>6. Destroying(p)'
    BY <1>2, <1>3, <2>1, <2>5 DEF Destroying
  <2> QED
    BY <1>2, <1>5, <1>8, <2>1, <2>3, <2>4, <2>5, <2>6
<1>9. ASSUME NEW m \in Matches, Head(todo) = RemoveAll(m),
             NEW path \in MatchFiles(m), disk' = [disk EXCEPT ![path] = Absent],
             todo' = todo, directories' = directories
      PROVE  Held' /\ AllAccounted' /\ Destroying(p)' /\ Listed(p)' \subseteq Listed(p)
             /\ \A q \in People : /\ Exists(Identity(q))' = Exists(Identity(q)) /\ Exists(Consent(q))' = Exists(Consent(q))
                                  /\ \A purpose : Permits(q, purpose)' = Permits(q, purpose)
  <2>1. Held'
    BY <1>1, <1>2, <1>9, HeldFiled DEF Remembers, history
  <2>2. AllAccounted'
    <3> SUFFICES ASSUME ~ crashed', NEW n \in directories'
                 PROVE  (Coherent(n) \/ RemoveAll(n) \in Range(todo) \/ running = Stores(n))'
      BY DEF AllAccounted, Stores
    <3>1. CASE n = m
      BY <1>2, <1>9, <3>1
    <3>2. CASE n # m
      <4>1. n \in Matches /\ (Coherent(n) \/ RemoveAll(n) \in Range(todo) \/ running = Stores(n))
        BY <1>1, <1>2, <1>9 DEF AllAccounted, TypeOK, history, Stores
      <4>2. Coherent(n)' = Coherent(n)
        <5>1. /\ disk'[Replay(n)] = disk[Replay(n)] /\ disk'[Session(n)] = disk[Session(n)]
              /\ disk'[Telemetry(n)] = disk[Telemetry(n)]
          BY <1>1, <1>9, <3>2, <4>1, MatchFileEffect, ZenonT(40)
        <5> QED
          BY <5>1 DEF Coherent, Decodes, Exists
      <4> QED
        BY <1>2, <1>9, <4>1, <4>2 DEF Stores
    <3> QED
      BY <3>1, <3>2
  <2>3. \A q \in People : /\ Exists(Identity(q))' = Exists(Identity(q)) /\ Exists(Consent(q))' = Exists(Consent(q))
                          /\ \A purpose : Permits(q, purpose)' = Permits(q, purpose)
    BY <1>1, <1>9, MatchFileEffect DEF Exists, Permits, Decodes
  <2>4. \A n \in Matches : Decodes(Replay(n))' => Decodes(Replay(n))
    <3>1. \A n \in Matches : n # m => disk'[Replay(n)] = disk[Replay(n)]
      BY <1>1, <1>9, MatchFileEffect
    <3>2. disk'[Replay(m)] = disk[Replay(m)] \/ disk'[Replay(m)] = Absent
      BY <1>1, <1>9, MatchFileEffect DEF MatchFiles
    <3> QED
      BY <3>1, <3>2, RecordsRead DEF Decodes
  <2>5. Listed(p)' \subseteq Listed(p)
    BY <1>1, <1>9, <2>4 DEF Listed, ParticipantsOf, TypeOK
  <2>6. Destroying(p)'
    BY <1>3, <1>9, <2>3, <2>5 DEF Destroying
  <2> QED
    BY <2>1, <2>2, <2>3, <2>5, <2>6
<1>10. ASSUME NEW m \in Matches, Head(todo) = RemoveAll(m), \A path \in DirectoryFiles(m) : ~ Exists(path),
              directories' = directories \ {m}, todo' = Tail(todo), disk' = disk
       PROVE  /\ Held' /\ AllAccounted' /\ Destroying(p)' /\ Listed(p)' = Listed(p) \ {m}
              /\ \A q \in People : /\ Exists(Identity(q))' = Exists(Identity(q)) /\ Exists(Consent(q))' = Exists(Consent(q))
                                   /\ \A purpose : Permits(q, purpose)' = Permits(q, purpose)
  <2>1. Held'
    BY <1>1, <1>2, <1>10, HeldAside DEF history, TypeOK
  <2>2. \A n : n # m /\ RemoveAll(n) \in Range(todo) => RemoveAll(n) \in Range(todo')
    BY <1>2, <1>5, <1>10
  <2>3. AllAccounted'
    BY <1>1, <1>2, <1>10, <2>2, AccountedKept DEF history, TypeOK
  <2>4. \A q \in People : /\ Exists(Identity(q))' = Exists(Identity(q)) /\ Exists(Consent(q))' = Exists(Consent(q))
                          /\ \A purpose : Permits(q, purpose)' = Permits(q, purpose)
    BY <1>10 DEF Exists, Permits, Decodes
  <2>5. Listed(p)' = Listed(p) \ {m}
    BY <1>10 DEF Listed, ParticipantsOf, Decodes
  <2>6. Destroying(p)'
    BY <1>2, <1>3, <1>5, <1>10, <2>4, <2>5 DEF Destroying
  <2> QED
    BY <2>1, <2>3, <2>4, <2>5, <2>6
<1>11. ASSUME NEW m \in Matches, Head(todo) = RemoveAll(m), disk' = [disk EXCEPT ![Stray(m)] = Absent],
              todo' = todo, directories' = directories
       PROVE  /\ Held' /\ AllAccounted' /\ Destroying(p)' /\ Listed(p)' \subseteq Listed(p)
              /\ \A q \in People : /\ Exists(Identity(q))' = Exists(Identity(q)) /\ Exists(Consent(q))' = Exists(Consent(q))
                                   /\ \A purpose : Permits(q, purpose)' = Permits(q, purpose)
  <2>1. /\ \A q \in People : disk'[Consent(q)] = disk[Consent(q)] /\ disk'[Identity(q)] = disk[Identity(q)]
        /\ \A n \in Matches : /\ disk'[Replay(n)] = disk[Replay(n)] /\ disk'[Session(n)] = disk[Session(n)]
                              /\ disk'[Telemetry(n)] = disk[Telemetry(n)]
        /\ \A n \in Matches : disk'[Stray(n)] # Absent => disk[Stray(n)] # Absent
    BY <1>1, <1>11, StrayEffect
  <2>2. Held'
    BY <1>1, <1>2, <1>11, <2>1, HeldAside DEF history, TypeOK
  <2>3. AllAccounted'
    BY <1>1, <1>2, <1>11, <2>1, AccountedKept DEF history, TypeOK
  <2>4. Listed(p)' = Listed(p)
    BY <1>1, <1>11, <2>1, ListedKept
  <2>5. \A q \in People : /\ Exists(Identity(q))' = Exists(Identity(q)) /\ Exists(Consent(q))' = Exists(Consent(q))
                          /\ \A purpose : Permits(q, purpose)' = Permits(q, purpose)
    BY <2>1 DEF Exists, Permits, Decodes
  <2>6. Destroying(p)'
    BY <1>3, <1>11, <2>4, <2>5 DEF Destroying
  <2> QED
    BY <2>2, <2>3, <2>4, <2>5, <2>6
<1>12. CASE \E m \in Matches : Head(todo) = RemoveAll(m)
  <2>1. PICK m \in Matches : Head(todo) = RemoveAll(m)
    BY <1>12
  <2>2. \/ todo' = todo /\ directories' = directories /\ \E path \in DirectoryFiles(m) : disk' = [disk EXCEPT ![path] = Absent]
        \/ todo' = Tail(todo) /\ disk' = disk /\ directories' = directories \ {m} /\ \A path \in DirectoryFiles(m) : ~ Exists(path)
    BY <1>1, <2>1, PerformStep, OperationsApart
  <2>3. CASE todo' = todo /\ directories' = directories /\ \E path \in DirectoryFiles(m) : disk' = [disk EXCEPT ![path] = Absent]
    <3>1. /\ Held' /\ AllAccounted' /\ Destroying(p)' /\ Listed(p)' \subseteq Listed(p)
          /\ \A q \in People : /\ Exists(Identity(q))' = Exists(Identity(q)) /\ Exists(Consent(q))' = Exists(Consent(q))
                               /\ \A purpose : Permits(q, purpose)' = Permits(q, purpose)
      BY <1>9, <1>11, <2>1, <2>3 DEF DirectoryFiles
    <3> QED
      BY <1>2, <2>3, <3>1
  <2>4. CASE todo' = Tail(todo) /\ disk' = disk /\ directories' = directories \ {m} /\ \A path \in DirectoryFiles(m) : ~ Exists(path)
    <3>1. /\ Held' /\ AllAccounted' /\ Destroying(p)' /\ Listed(p)' = Listed(p) \ {m}
          /\ \A q \in People : /\ Exists(Identity(q))' = Exists(Identity(q)) /\ Exists(Consent(q))' = Exists(Consent(q))
                               /\ \A purpose : Permits(q, purpose)' = Permits(q, purpose)
      BY <1>10, <2>1, <2>4
    <3> QED
      BY <1>2, <1>5, <2>1, <2>4, <3>1
  <2> QED
    BY <2>2, <2>3, <2>4
<1> QED
  BY <1>2, <1>3, <1>6, <1>7, <1>8, <1>12

LEMMA WithdrawsPerforms ==
  ASSUME IInv, NEW p \in People, running = Withdraws(p), Perform
  PROVE  Held' /\ AllAccounted' /\ UnderWay'
<1>1. Withdrawing(p) /\ Destroying(p) /\ due = {} /\ running.command # "store"
  BY CommandsApart DEF IInv, UnderWay, Withdrawing
<1>2. /\ Held' /\ AllAccounted' /\ Destroying(p)' /\ UNCHANGED <<running, due, history>>
      /\ Range(todo') \subseteq Range(todo) /\ Listed(p)' \subseteq Listed(p)
      /\ \A m \in Listed(p)' : RemoveAll(m) \in Range(todo) => RemoveAll(m) \in Range(todo')
      /\ Exists(Identity(p))' => /\ Exists(Identity(p))
                                 /\ Unlink(Identity(p)) \in Range(todo) => Unlink(Identity(p)) \in Range(todo')
      /\ Exists(Consent(p))' => (Unlink(Consent(p)) \in Range(todo) => Unlink(Consent(p)) \in Range(todo'))
      /\ Exists(Consent(p))' => Exists(Consent(p))
  BY <1>1, DestroyingPerforms
<1>3. Withdrawing(p)'
  BY <1>1, <1>2 DEF Withdrawing, history
<1> QED
  BY <1>1, <1>2, <1>3, UnderWayOf

LEMMA ConcludesPerforms ==
  ASSUME IInv, running = Concludes, Perform
  PROVE  Held' /\ AllAccounted' /\ UnderWay'
<1>1. Concluding /\ running.command # "store" /\ TypeOK
  BY CommandsApart DEF IInv, UnderWay
<1>2. todo # << >>
  BY <1>1, PerformStep
<1>3. PICK p \in People : Destroying(p)
  BY <1>1, <1>2 DEF Concluding
<1>4. /\ Held' /\ AllAccounted' /\ Destroying(p)' /\ UNCHANGED <<running, due, history>>
      /\ Exists(Consent(p))' => (Unlink(Consent(p)) \in Range(todo) => Unlink(Consent(p)) \in Range(todo'))
      /\ \A q \in People : /\ Exists(Consent(q))' => Exists(Consent(q))
                           /\ Exists(Consent(q))' => \A purpose : Permits(q, purpose)' = Permits(q, purpose)
  BY <1>1, <1>3, DestroyingPerforms
<1>5. \A q \in People : q # p => (Unlink(Consent(q)) \in Range(todo) => FALSE)
  <2>1. \A q \in People : q # p => Unlink(Consent(q)) \notin {Unlink(Identity(p)), Unlink(Consent(p)), Write(Tombstone(p), Whole)}
    BY OperationsApart, PathsApart
  <2>2. \A q, m : Unlink(q) # RemoveAll(m)
    BY OperationsApart
  <2> QED
    BY <1>3, <2>1, <2>2 DEF Destroying
<1>6. ASSUME NEW q \in People, (Exists(Consent(q)) /\ ~ Permits(q, Retention))'
      PROVE  (q \in due \/ Unlink(Consent(q)) \in Range(todo))'
  <2>1. Exists(Consent(q)) /\ ~ Permits(q, Retention)
    BY <1>4, <1>6
  <2>2. q \in due \/ Unlink(Consent(q)) \in Range(todo)
    BY <1>1, <2>1 DEF Concluding
  <2> QED
    BY <1>4, <1>5, <1>6, <2>2
<1>7. Concluding'
  BY <1>4, <1>6 DEF Concluding
<1> QED
  BY <1>4, <1>7, UnderWayOf

-----------------------------------------------------------------------------
(* A command returns, dies, or finds another build in place.               *)

LEMMA ReturnedHolds ==
  ASSUME IInv, Returned
  PROVE  Held' /\ AllAccounted' /\ UnderWay'
<1>1. /\ running # Idle /\ todo = << >> /\ due = {} /\ running' = Idle /\ todo' = << >> /\ due' = {}
      /\ UNCHANGED <<disk, directories, crashed>>
      /\ gone' = IF running.command = "withdraw" THEN gone \cup {running.who} ELSE gone
      /\ revoked' = IF running.command = "revoke" THEN revoked \cup {<<running.who, running.what>>} ELSE revoked
      /\ concluded' = (concluded \/ running.command = "conclude")
  BY DEF Returned, files
<1>2. TypeOK /\ Held /\ AllAccounted /\ UnderWay /\ Range(todo) = {}
  BY <1>1, Single DEF IInv
<1>3. FilesInDirectories'
  BY <1>1, <1>2 DEF Held, FilesInDirectories, Exists
<1>4. /\ \A p, purpose : Permits(p, purpose)' = Permits(p, purpose)
      /\ \A path : Exists(path)' = Exists(path) /\ Decodes(path)' = Decodes(path)
      /\ \A p : Unknown(p)' = Unknown(p)
  BY <1>1 DEF Permits, Exists, Decodes, Unknown
<1>5. ConsentBeside'
  <2>1. ASSUME running.command = "conclude", NEW p \in People, Exists(Consent(p))
        PROVE  Permits(p, Retention)
    <3>1. Concluding
      BY <1>2, <2>1, CommandsOf, CommandsApart DEF UnderWay, TypeOK
    <3> QED
      BY <1>1, <1>2, <2>1, <3>1 DEF Concluding
  <2> QED
    BY <1>1, <1>2, <1>4, <2>1, CorpusAssumption DEF Held, ConsentBeside
<1>6. GoneUnknown'
  <2>1. ASSUME running.command = "withdraw"
        PROVE  Unknown(running.who)
    <3>1. PICK p \in People : running = Withdraws(p)
      BY <1>2, <2>1, CommandsOf, CommandsApart DEF TypeOK
    <3>2. Withdrawing(p) /\ running.who = p
      BY <1>2, <3>1, CommandsApart DEF UnderWay
    <3>3. Listed(p) = {} /\ ~ Exists(Consent(p)) /\ ~ Exists(Identity(p))
      BY <1>2, <3>2 DEF Withdrawing
    <3>4. ASSUME NEW m \in Matches, Decodes(Replay(m))
          PROVE  p \notin Players(m)
      <4>1. Exists(Replay(m))
        BY <3>4, RecordsRead DEF Decodes, Exists
      <4>2. m \in directories
        BY <1>2, <4>1 DEF Held, FilesInDirectories, DirectoryFiles, MatchFiles
      <4> QED
        BY <3>3, <3>4, <4>2 DEF Listed, ParticipantsOf
    <3> QED
      BY <3>2, <3>3, <3>4 DEF Unknown
  <2> QED
    BY <1>1, <1>2, <1>4, <2>1 DEF Held, GoneUnknown
<1>7. RevokedOff'
  <2>1. ASSUME running.command = "revoke"
        PROVE  ~ Permits(running.who, running.what)
    <3>1. PICK p \in People, purpose \in Purposes : running = Revokes(p, purpose)
      BY <1>2, <2>1, CommandsOf, CommandsApart DEF TypeOK
    <3>2. Revoking(p, purpose) /\ running.who = p /\ running.what = purpose
      BY <1>2, <3>1, CommandsApart DEF UnderWay
    <3> QED
      BY <1>1, <3>2 DEF Revoking
  <2> QED
    BY <1>1, <1>2, <1>4, <2>1 DEF Held, RevokedOff
<1>8. AllAccounted'
  <2>1. ASSUME NEW m \in directories, running = Stores(m)
        PROVE  Coherent(m)
    <3>1. m \in Matches /\ Storing(m)
      BY <1>2, <2>1 DEF UnderWay, TypeOK
    <3>2. StoreSteps(m) # << >>
      BY StoreNotEmpty, <3>1
    <3>3. \/ m \notin Committed /\ Decodes(Replay(m)) /\ Decodes(Session(m))
          \/ Coherent(m)
      BY <1>1, <3>1, <3>2, StoreNotEmpty DEF Storing, Companion
    <3> QED
      BY <1>2, <3>1, <3>3 DEF Coherent, Held, FilesInDirectories
  <2>2. \A m \in directories : Coherent(m)' = Coherent(m)
    BY <1>1 DEF Coherent, Exists, Decodes
  <2> QED
    BY <1>1, <1>2, <2>1, <2>2 DEF AllAccounted, Stores
<1>9. UnderWay'
  BY <1>1, UnderWayOf
<1> QED
  BY <1>3, <1>5, <1>6, <1>7, <1>8, <1>9 DEF Held

(* The process dies in a write: the file that is torn is one the command   *)
(* was entitled to write.                                                  *)
LEMMA CrashHolds ==
  ASSUME IInv, Crash
  PROVE  Held' /\ AllAccounted' /\ UnderWay'
<1>1. /\ running # Idle /\ running' = Idle /\ todo' = << >> /\ due' = {} /\ crashed' = TRUE
      /\ UNCHANGED <<directories, gone, revoked, concluded>>
      /\ \/ disk' = disk
         \/ todo # << >> /\ Head(todo).does = "write" /\ disk' = [disk EXCEPT ![Head(todo).path] = Torn]
  BY DEF Crash
<1>2. TypeOK /\ Held /\ UnderWay /\ todo \in Seq(Operations)
  BY DEF IInv, TypeOK
<1>3. AllAccounted' /\ UnderWay'
  BY <1>1, UnderWayOf DEF AllAccounted
<1>4. CASE disk' = disk
  BY <1>1, <1>2, <1>3, <1>4, HeldAside DEF TypeOK
<1>5. CASE todo # << >> /\ Head(todo).does = "write" /\ disk' = [disk EXCEPT ![Head(todo).path] = Torn]
  <2> DEFINE path == Head(todo).path
  <2>1. Remembers /\ disk' = [disk EXCEPT ![path] = Torn]
    BY <1>1, <1>5 DEF Remembers
  <2>2. Range(todo) = {Head(todo)} \cup Range(Tail(todo))
    BY <1>2, <1>5, Remaining
  <2>3. \A other, content : Head(todo) = Write(other, content) => path = other
    BY OperationsApart
  <2> HIDE DEF path
  <2>4. ASSUME NEW p \in People, running = Enrols(p)
        PROVE  Held'
    <3>1. Enrolling(p)
      BY <1>2, <2>4 DEF UnderWay
    <3>2. path = Consent(p) \/ (path = Identity(p) /\ Exists(Consent(p)))
      BY <1>5, <2>3, <3>1 DEF Enrolling
    <3>3. CASE path = Consent(p)
      BY <1>2, <2>1, <3>1, <3>3, HeldSigned, RecordsRead DEF Enrolling
    <3>4. CASE path = Identity(p) /\ Exists(Consent(p))
      BY <1>2, <2>1, <3>4, HeldNamed
    <3> QED
      BY <3>2, <3>3, <3>4
  <2>5. ASSUME NEW m \in Matches, running = Stores(m)
        PROVE  Held'
    <3>1. Storing(m)
      BY <1>2, <2>5 DEF UnderWay
    <3>2. m \in directories /\ path \in MatchFiles(m) /\ (path = Telemetry(m) => m \in Committed)
      <4>1. CASE todo = StoreSteps(m)
        BY <1>5, <4>1, StoreOrder, OperationsApart
      <4>2. CASE m \in directories /\ todo = << Write(Replay(m), Whole), Write(Session(m), Whole) >> \o Companion(m)
        <5>1. path = Replay(m)
          BY <2>3, <4>2, StoreOrder
        <5> QED
          BY <4>2, <5>1, PathsApart DEF MatchFiles
      <4>3. CASE m \in directories /\ todo = << Write(Session(m), Whole) >> \o Companion(m)
        <5>1. path = Session(m)
          BY <2>3, <4>3, StoreOrder
        <5> QED
          BY <4>3, <5>1, PathsApart DEF MatchFiles
      <4>4. CASE m \in directories /\ todo = Companion(m)
        BY <1>5, <2>3, <4>4 DEF MatchFiles, Companion
      <4> QED
        BY <1>5, <3>1, <4>1, <4>2, <4>3, <4>4 DEF Storing
    <3> QED
      BY <1>2, <2>1, <3>1, <3>2, HeldFiled DEF Storing
  <2>6. ASSUME NEW p \in People, path = Tombstone(p)
         PROVE  Held'
    <3>1. /\ \A q \in People : disk'[Consent(q)] = disk[Consent(q)] /\ disk'[Identity(q)] = disk[Identity(q)]
          /\ \A n \in Matches : /\ disk'[Replay(n)] = disk[Replay(n)] /\ disk'[Session(n)] = disk[Session(n)]
                                /\ disk'[Telemetry(n)] = disk[Telemetry(n)] /\ disk'[Stray(n)] = disk[Stray(n)]
      BY <1>2, <2>1, <2>6, AsideEffect
    <3> QED
      BY <1>2, <2>1, <3>1, HeldAside DEF Remembers, TypeOK
  <2>7. ASSUME NEW p \in People, Destroying(p)
        PROVE  Held'
    <3>1. Head(todo) = Write(Tombstone(p), Whole)
      <4>1. \/ \E m \in Matches : Head(todo) = RemoveAll(m)
            \/ Head(todo) \in {Unlink(Identity(p)), Unlink(Consent(p)), Write(Tombstone(p), Whole)}
        BY <2>2, <2>7 DEF Destroying
      <4> QED
        BY <1>5, <4>1, OperationsApart
    <3> QED
      BY <2>3, <2>6, <3>1
  <2>8. ASSUME NEW p \in People, NEW purpose \in Purposes, running = Revokes(p, purpose)
        PROVE  Held'
    <3>1. Revoking(p, purpose)
      BY <1>2, <2>8 DEF UnderWay
    <3>2. CASE todo = <<Write(Tombstone(p), Whole)>>
      <4>1. path = Tombstone(p)
        BY <2>3, <3>2
      <4> QED
        BY <1>2, <2>1, <2>6, <4>1
    <3>3. CASE todo # <<Write(Tombstone(p), Whole)>>
      <4>1. path = Consent(p) /\ Decodes(Consent(p)) /\ ~ concluded
        BY <1>5, <2>3, <3>1, <3>3 DEF Revoking
      <4>2. p \notin gone
        BY <1>2, <4>1, RecordsRead DEF Held, GoneUnknown, Unknown, Exists, Decodes
      <4> QED
        BY <1>2, <2>1, <4>1, <4>2, HeldSigned, RecordsRead
    <3> QED
      BY <3>2, <3>3
  <2>9. ASSUME running = Publishes
        PROVE  Held'
    <3>1. Publishing
      BY <1>2, <2>9 DEF UnderWay
    <3>2. PICK m \in Matches : path = Published(m)
      BY <2>2, <2>3, <3>1 DEF Publishing
    <3>3. /\ \A p \in People : disk'[Consent(p)] = disk[Consent(p)] /\ disk'[Identity(p)] = disk[Identity(p)]
          /\ \A n \in Matches : /\ disk'[Replay(n)] = disk[Replay(n)] /\ disk'[Session(n)] = disk[Session(n)]
                                /\ disk'[Telemetry(n)] = disk[Telemetry(n)] /\ disk'[Stray(n)] = disk[Stray(n)]
      BY <1>2, <2>1, <3>2, AsideEffect
    <3> QED
      BY <1>2, <2>1, <3>3, HeldAside DEF Remembers, TypeOK
  <2>10. ASSUME NEW p \in People, running = Withdraws(p)
        PROVE  Held'
    BY <1>2, <2>7, <2>10 DEF UnderWay, Withdrawing
  <2>11. ASSUME running = Concludes
         PROVE  Held'
    BY <1>2, <1>5, <2>7, <2>11 DEF UnderWay, Concluding
  <2>12. Held'
    BY <1>1, <1>2, <2>4, <2>5, <2>8, <2>9, <2>10, <2>11, CommandsOf DEF TypeOK
  <2> QED
    BY <1>3, <2>12
<1> QED
  BY <1>1, <1>3, <1>4, <1>5

LEMMA IdleHolds ==
  ASSUME IInv, NewDocument \/ UNCHANGED vars
  PROVE  Held' /\ AllAccounted' /\ UnderWay'
<1>1. UNCHANGED <<disk, directories, running, todo, due, crashed, gone, revoked, concluded>>
  BY DEF NewDocument, files, history, vars
<1>2. Held'
  BY <1>1, HeldAside DEF IInv, TypeOK
<1>3. AllAccounted'
  BY <1>1, AccountedKept DEF IInv, TypeOK
<1>4. /\ \A p : Exists(p)' = Exists(p) /\ Decodes(p)' = Decodes(p) /\ Listed(p)' = Listed(p)
      /\ \A p, purpose : Permits(p, purpose)' = Permits(p, purpose)
      /\ \A m : Coherent(m)' = Coherent(m)
  BY <1>1 DEF Exists, Decodes, Listed, ParticipantsOf, Permits, Coherent
<1>5. /\ \A p : Enrolling(p) => Enrolling(p)'
      /\ \A p, purpose : Revoking(p, purpose) => Revoking(p, purpose)'
  BY <1>1, <1>4 DEF Enrolling, Revoking
<1>6. \A m : Storing(m) => Storing(m)'
  BY <1>1, <1>4 DEF Storing, StoreSteps
<1>7. \A p : Destroying(p) => Destroying(p)'
  BY <1>1, <1>4 DEF Destroying
<1>8. \A p : Withdrawing(p) => Withdrawing(p)'
  BY <1>1, <1>4, <1>7 DEF Withdrawing
<1>9. (Publishing => Publishing') /\ (Concluding => Concluding')
  BY <1>1, <1>4, <1>7 DEF Publishing, Concluding
<1>10. UnderWay'
  BY <1>1, <1>5, <1>6, <1>8, <1>9 DEF IInv, UnderWay
<1> QED
  BY <1>2, <1>3, <1>10

LEMMA LeaveFileHolds ==
  ASSUME IInv, NEW m \in Matches, LeaveFile(m)
  PROVE  Held' /\ AllAccounted' /\ UnderWay'
<1>1. /\ running = Idle /\ m \in directories /\ disk' = [disk EXCEPT ![Stray(m)] = Whole]
      /\ UNCHANGED <<directories, running, todo, due, crashed, gone, revoked, concluded>>
  BY DEF LeaveFile
<1>2. /\ \A p \in People : disk'[Consent(p)] = disk[Consent(p)] /\ disk'[Identity(p)] = disk[Identity(p)]
      /\ \A n \in Matches : /\ disk'[Replay(n)] = disk[Replay(n)] /\ disk'[Session(n)] = disk[Session(n)]
                            /\ disk'[Telemetry(n)] = disk[Telemetry(n)]
      /\ \A n \in Matches : n # m => disk'[Stray(n)] = disk[Stray(n)]
  BY <1>1, StrayEffect DEF IInv
<1>3. Held'
  BY <1>1, <1>2, HeldAside DEF IInv, TypeOK
<1>4. AllAccounted'
  BY <1>1, <1>2, AccountedKept DEF IInv, TypeOK
<1>5. todo = << >> /\ due = {}
  BY <1>1, CommandsApart DEF IInv, UnderWay
<1> QED
  BY <1>1, <1>3, <1>4, <1>5, UnderWayOf

-----------------------------------------------------------------------------
(* For any corpus: the files are in order at every moment, with what the   *)
(* command under way still has to do.                                      *)
THEOREM CorpusInvariant == Spec => []IInv
<1>1. Init => IInv
  <2> SUFFICES ASSUME Init
               PROVE  IInv
    OBVIOUS
  <2>1. TypeOK
    BY TypeAtFirst
  <2>2. \A path \in Paths : ~ Exists(path) /\ ~ Decodes(path)
    BY RecordsRead DEF Init, Exists, Decodes
  <2>3. \A m \in Matches : DirectoryFiles(m) \subseteq Paths
    BY PathsOf DEF DirectoryFiles, MatchFiles
  <2>4. Held
    BY <2>2, <2>3, PathsOf DEF Init, Held, FilesInDirectories, ConsentBeside, GoneUnknown, RevokedOff
  <2>5. AllAccounted /\ UnderWay
    BY CommandsApart DEF Init, AllAccounted, UnderWay
  <2> QED
    BY <2>1, <2>4, <2>5 DEF IInv
<1>2. IInv /\ [Next]_vars => IInv'
  <2> SUFFICES ASSUME IInv, [Next]_vars
               PROVE  IInv'
    OBVIOUS
  <2>1. TypeOK' /\ TypeOK
    BY TypeStep DEF IInv
  <2>2. CASE Perform
    <3>1. running \in Commands \ {Idle}
      BY <2>1, <2>2, PerformStep DEF TypeOK
    <3> QED
      BY <2>1, <2>2, <3>1, CommandsOf, EnrolsPerforms, StoresPerforms, WithdrawsPerforms, RevokesPerforms,
         PublishesPerforms, ConcludesPerforms DEF IInv
  <2>3. CASE Next /\ ~ Perform
    BY <2>1, <2>3, EnrolHolds, StoreHolds, WithdrawHolds, WithdrawPurposeHolds, PublishHolds, ConcludeHolds,
       ConcludeNextHolds, ReturnedHolds, CrashHolds, IdleHolds, LeaveFileHolds DEF Next, IInv
  <2>4. CASE UNCHANGED vars
    BY <2>1, <2>4, IdleHolds DEF IInv
  <2> QED
    BY <2>2, <2>3, <2>4
<1> QED
  BY <1>1, <1>2, PTL DEF Spec

(* For any corpus, whatever dies and wherever: a replay that reads and a   *)
(* name are held only beside the consent of everybody they concern, after  *)
(* a conclusion only with their permission (the order store() checks and   *)
(* writes in, and the order withdraw() destroys in).                       *)
THEOREM HoldsUnderConsent == Spec => []HeldUnderConsent
<1>1. IInv => HeldUnderConsent
  <2> SUFFICES ASSUME IInv
               PROVE  HeldUnderConsent
    OBVIOUS
  <2>1. /\ \A m \in directories : \A p \in ParticipantsOf(m) : p \in People /\ Exists(Consent(p))
        /\ \A p \in People : Exists(Identity(p)) => Exists(Consent(p))
    BY CorpusAssumption DEF IInv, TypeOK, Held, ConsentBeside, ParticipantsOf
  <2>2. concluded => \A p \in People : Exists(Consent(p)) => Permits(p, Retention)
    BY DEF IInv, Held, ConsentBeside
  <2> QED
    BY <2>1, <2>2 DEF HeldUnderConsent
<1> QED
  BY <1>1, CorpusInvariant, PTL

(* For any corpus: of whoever a withdrawal returned for, nothing that      *)
(* reads is left, wherever an earlier command died; where none died the    *)
(* audit finds nothing, unless the corpus knows somebody in whose          *)
(* pseudonym theirs is a part or a foreign file stands in it (withdraw(),  *)
(* audit()).                                                               *)
THEOREM ForgetsTheWithdrawn == Spec => []WithdrawnIsForgotten
<1>1. IInv => WithdrawnIsForgotten
  <2> SUFFICES ASSUME IInv
               PROVE  WithdrawnIsForgotten
    OBVIOUS
  <2>1. \A p \in gone : Unknown(p)
    BY DEF IInv, Held, GoneUnknown
  <2>2. ASSUME ~ crashed, running = Idle, \A m \in Matches : ~ Exists(Stray(m)), NEW p \in gone, \A q \in Within(p) : Unknown(q)
        PROVE  Audit(p) = {}
    <3>1. todo = << >>
      BY <2>2 DEF IInv, UnderWay
    <3>2. \A m \in directories : Accountable(m)
      BY <2>2, <3>1, Single, CommandsApart DEF IInv, TypeOK, AllAccounted, Stores, Coherent, Accountable
    <3>3. Mentions(p) = {}
      <4>1. ASSUME NEW path \in Paths, NEW q \in Within(p), path \in {Consent(q), Identity(q)}
            PROVE  ~ Exists(path)
        BY <2>2, <4>1 DEF Unknown
      <4>2. ASSUME NEW m \in Matches, Decodes(Replay(m)), Players(m) \cap Within(p) # {}
            PROVE  FALSE
        BY <2>2, <4>2 DEF Unknown
      <4> QED
        BY <4>1, <4>2 DEF Mentions
    <3> QED
      BY <3>2, <3>3 DEF Audit
  <2> QED
    BY <2>1, <2>2 DEF WithdrawnIsForgotten, AuditStatus
<1> QED
  BY <1>1, CorpusInvariant, PTL

(* For any corpus: between commands, any file of a match a person played   *)
(* is reported by their audit, the files that name nobody included, also   *)
(* where a command died and left a torn recording (audit(),                *)
(* unaccounted()).                                                         *)
THEOREM HoldsNothingSilently == Spec => []NothingIsHeldSilently
<1>1. IInv => NothingIsHeldSilently
  <2> SUFFICES ASSUME IInv, running = Idle, NEW m \in Matches, NEW p \in People, p \in Players(m),
                      NEW path \in DirectoryFiles(m), Exists(path)
               PROVE  Audit(p) # {}
    BY DEF NothingIsHeldSilently
  <2>1. m \in directories
    BY DEF IInv, Held, FilesInDirectories
  <2>2. CASE ~ Accountable(m)
    BY <2>1, <2>2 DEF Audit
  <2>3. CASE Accountable(m)
    <3>1. Replay(m) \in Paths /\ Decodes(Replay(m)) /\ Exists(Replay(m))
      BY <2>3, PathsOf, RecordsRead DEF Accountable, Decodes, Exists
    <3>2. p \in Players(m) \cap Within(p)
      BY CorpusAssumption
    <3>3. Replay(m) \in Mentions(p)
      BY <3>1, <3>2 DEF Mentions
    <3> QED
      BY <3>3 DEF Audit
  <2> QED
    BY <2>2, <2>3
<1> QED
  BY <1>1, CorpusInvariant, PTL

(* For any corpus: a revoked purpose passes neither its audit nor the gate *)
(* of its use, and no publication writes a match out, until the person     *)
(* signs again (withdraw_purpose(), publish()).                            *)
THEOREM RevocationsHold == Spec => []RevokedIsNotUsed
<1>1. IInv => RevokedIsNotUsed
  <2> SUFFICES ASSUME IInv, NEW r \in revoked
               PROVE  /\ AuditPurposeStatus(r[1], r[2]) = "SUCCESS"
                      /\ r[2] # Named => \A m \in Matches : r[1] \in Players(m) => ~ Usable(m, r[2])
                      /\ r[2] = Publication /\ running.command = "publish" =>
                           \A m \in Matches : r[1] \in Players(m) => Write(Published(m), Whole) \notin Range(todo)
    BY DEF RevokedIsNotUsed
  <2>1. ~ Permits(r[1], r[2])
    BY DEF IInv, Held, RevokedOff
  <2>2. AuditPurpose(r[1], r[2]) = {}
    <3>1. CASE r[2] = Named
      BY <2>1, <3>1 DEF AuditPurpose, Attributable
    <3>2. CASE r[2] # Named
      <4>1. \A m \in Listed(r[1]) : ~ EveryoneIn(m, r[2])
        BY <2>1 DEF Listed, ParticipantsOf, EveryoneIn
      <4> QED
        BY <3>2, <4>1 DEF AuditPurpose
    <3> QED
      BY <3>1, <3>2
  <2>3. \A m \in Matches : r[1] \in Players(m) => ~ Usable(m, r[2])
    BY <2>1 DEF Usable, EveryoneIn
  <2>4. ASSUME r[2] = Publication, running.command = "publish", NEW m \in Matches, r[1] \in Players(m),
               Write(Published(m), Whole) \in Range(todo)
        PROVE  FALSE
    <3>1. Publishing
      BY <2>4, CommandsOf, CommandsApart DEF IInv, TypeOK, UnderWay
    <3>2. PICK n \in Matches : Write(Published(m), Whole) = Write(Published(n), Whole) /\ \A p \in Players(n) : Permits(p, Publication)
      BY <2>4, <3>1 DEF Publishing
    <3>3. n = m
      BY <3>2, OperationsApart, PathsApart
    <3> QED
      BY <2>1, <2>4, <3>2, <3>3
  <2> QED
    BY <2>2, <2>3, <2>4 DEF AuditPurposeStatus
<1> QED
  BY <1>1, CorpusInvariant, PTL

(* For any corpus: a withdrawal of somebody who is gone touches no file    *)
(* but the tombstone, in none of its steps (withdraw()).                   *)
THEOREM WithdrawsTwiceForNothing == Spec => SecondTimeDestroysNothing
<1> DEFINE Kept == \A p \in gone : running = [command |-> "withdraw", who |-> p] =>
                      /\ directories' = directories
                      /\ \A path \in Paths \ {Tombstone(p)} : disk'[path] = disk[path]
<1>1. IInv /\ [Next]_vars => [Kept]_vars
  <2> SUFFICES ASSUME IInv, Next, NEW p \in gone, running = Withdraws(p)
               PROVE  /\ directories' = directories
                      /\ \A path \in Paths \ {Tombstone(p)} : disk'[path] = disk[path]
    BY DEF Withdraws
  <2>1. TypeOK /\ p \in People /\ running # Idle /\ running.command # "conclude"
    BY CommandsApart DEF IInv, TypeOK
  <2>2. Range(todo) \subseteq {Write(Tombstone(p), Whole)}
    BY <2>1 DEF IInv, UnderWay, Withdrawing
  <2>3. CASE Perform
    <3>1. Head(todo) = Write(Tombstone(p), Whole)
      BY <2>1, <2>2, <2>3, PerformStep
    <3>2. Tombstone(p) \in Paths /\ disk' = [disk EXCEPT ![Tombstone(p)] = Whole] /\ directories' = directories
      BY <2>1, <2>3, <3>1, WritePerformed
    <3> QED
      BY <2>1, <3>2, Effect
  <2>4. CASE Crash
    <3>1. directories' = directories
      BY <2>4 DEF Crash
    <3>2. CASE disk' = disk
      BY <3>1, <3>2
    <3>3. CASE todo # << >> /\ disk' = [disk EXCEPT ![Head(todo).path] = Torn]
      <4>1. Head(todo) \in Range(todo)
        BY <2>1, <3>3, Remaining DEF TypeOK
      <4>2. Head(todo).path = Tombstone(p) /\ Tombstone(p) \in Paths
        BY <2>1, <2>2, <4>1, OperationsApart, PathsOf
      <4> QED
        BY <2>1, <3>1, <3>3, <4>2, Effect
    <3> QED
      BY <2>4, <3>2, <3>3 DEF Crash
  <2>5. CASE Returned
    BY <2>5 DEF Returned, files
  <2>6. ~ NewDocument /\ (\A q : ~ ConcludeNext(q)) /\ \A m : ~ LeaveFile(m)
    BY <2>1 DEF NewDocument, ConcludeNext, LeaveFile
  <2>7. \A command, steps : ~ Begin(command, steps)
    BY <2>1 DEF Begin
  <2> QED
    BY <2>3, <2>4, <2>5, <2>6, <2>7 DEF Next, Enrol, Store, Withdraw, WithdrawPurpose, Publish, Conclude
<1> QED
  BY <1>1, CorpusInvariant, PTL DEF Spec, SecondTimeDestroysNothing

-----------------------------------------------------------------------------
(* The reports. *)

(* The seats of one match more, on top of a sum: those of people who are   *)
(* named, of people who are not, and all of them (the folds of census).    *)
NamedSeats(sum, m)        == sum + Cardinality({p \in ParticipantsOf(m) : Attributable(p)})
PseudonymousSeats(sum, m) == sum + Cardinality({p \in ParticipantsOf(m) : ~ Attributable(p)})
AllSeats(sum, m)          == sum + Cardinality(ParticipantsOf(m))

ByName    == INSTANCE FoldLemmas WITH Op <- NamedSeats, V <- Nat, E <- Matches
Otherwise == INSTANCE FoldLemmas WITH Op <- PseudonymousSeats, V <- Nat, E <- Matches
BySeat    == INSTANCE FoldLemmas WITH Op <- AllSeats, V <- Nat, E <- Matches

(* The sums census prints are folds over the match directories.            *)
LEMMA SumsAreFolds ==
  /\ NamedAppearances = ByName!Gathered(0, directories)
  /\ PseudonymousAppearances = Otherwise!Gathered(0, directories)
  /\ FoldSet(LAMBDA m, sum : sum + Cardinality(ParticipantsOf(m)), 0, directories)
        = BySeat!Gathered(0, directories)
<1>1. NamedAppearances = ByName!Gathered(0, directories)
  BY DEF NamedAppearances, Appearances, FoldSet, MapThenFoldSet, ByName!Gathered, ByName!Picked, NamedSeats
<1>2. PseudonymousAppearances = Otherwise!Gathered(0, directories)
  BY DEF PseudonymousAppearances, Appearances, FoldSet, MapThenFoldSet, Otherwise!Gathered, Otherwise!Picked,
         PseudonymousSeats
<1>3. FoldSet(LAMBDA m, sum : sum + Cardinality(ParticipantsOf(m)), 0, directories) = BySeat!Gathered(0, directories)
  BY DEF FoldSet, MapThenFoldSet, BySeat!Gathered, BySeat!Picked, AllSeats
<1> QED
  BY <1>1, <1>2, <1>3

(* In each match, whoever is not named is counted by pseudonym.            *)
LEMMA SeatsOfMatch ==
  ASSUME NEW m \in Matches
  PROVE  /\ Cardinality({p \in ParticipantsOf(m) : Attributable(p)}) \in Nat
         /\ Cardinality({p \in ParticipantsOf(m) : ~ Attributable(p)}) \in Nat
         /\ Cardinality(ParticipantsOf(m)) \in Nat
         /\ Cardinality({p \in ParticipantsOf(m) : Attributable(p)})
              + Cardinality({p \in ParticipantsOf(m) : ~ Attributable(p)})
            = Cardinality(ParticipantsOf(m))
<1> DEFINE A == ParticipantsOf(m)
           N == {p \in A : Attributable(p)}
           O == {p \in A : ~ Attributable(p)}
<1>1. IsFiniteSet(A)
  BY CorpusAssumption, FS_EmptySet DEF ParticipantsOf
<1> HIDE DEF A
<1>2. A \ N = O /\ A \cap N = N /\ N \in SUBSET A
  OBVIOUS
<1>3. IsFiniteSet(N) /\ IsFiniteSet(O) /\ Cardinality(O) = Cardinality(A) - Cardinality(N)
  <2> HIDE DEF N, O
  <2>1. IsFiniteSet(N)
    BY <1>1, <1>2, FS_Subset
  <2>2. IsFiniteSet(A \ N) /\ Cardinality(A \ N) = Cardinality(A) - Cardinality(A \cap N)
    BY <1>1, FS_Difference
  <2> QED
    BY <1>2, <2>1, <2>2
<1>4. Cardinality(A) \in Nat /\ Cardinality(N) \in Nat /\ Cardinality(O) \in Nat
  BY <1>1, <1>3, FS_CardinalityType
<1> HIDE DEF N, O
<1>5. Cardinality(N) + Cardinality(O) = Cardinality(A)
  BY <1>3, <1>4
<1> QED
  BY <1>4, <1>5 DEF A, N, O

(* Each of the sums is where a run over the sets of matches ends.          *)
LEMMA SumsRun ==
  ASSUME NEW D \in SUBSET Matches, IsFiniteSet(D), NEW z \in Nat
  PROVE  /\ \E f \in [SUBSET D -> Nat] :
              /\ f[{}] = z
              /\ \A t \in SUBSET D : t # {} => f[t] = NamedSeats(f[t \ {ByName!Picked(t)}], ByName!Picked(t))
              /\ ByName!Gathered(z, D) = f[D]
         /\ \E f \in [SUBSET D -> Nat] :
              /\ f[{}] = z
              /\ \A t \in SUBSET D : t # {} => f[t] = PseudonymousSeats(f[t \ {ByName!Picked(t)}], ByName!Picked(t))
              /\ Otherwise!Gathered(z, D) = f[D]
         /\ \E f \in [SUBSET D -> Nat] :
              /\ f[{}] = z
              /\ \A t \in SUBSET D : t # {} => f[t] = AllSeats(f[t \ {ByName!Picked(t)}], ByName!Picked(t))
              /\ BySeat!Gathered(z, D) = f[D]
<1>1. ByName!IsFiniteSet(D) /\ Otherwise!IsFiniteSet(D) /\ BySeat!IsFiniteSet(D)
  BY DEF IsFiniteSet, ByName!IsFiniteSet, Otherwise!IsFiniteSet, BySeat!IsFiniteSet
<1>2. /\ \A v \in Nat, m \in Matches : NamedSeats(v, m) \in Nat
      /\ \A v \in Nat, m \in Matches : PseudonymousSeats(v, m) \in Nat
      /\ \A v \in Nat, m \in Matches : AllSeats(v, m) \in Nat
  <2> SUFFICES ASSUME NEW v \in Nat, NEW m \in Matches
               PROVE NamedSeats(v, m) \in Nat /\ PseudonymousSeats(v, m) \in Nat /\ AllSeats(v, m) \in Nat
    OBVIOUS
  <2>1. PICK a, b, c \in Nat :
          /\ a = Cardinality({p \in ParticipantsOf(m) : Attributable(p)})
          /\ b = Cardinality({p \in ParticipantsOf(m) : ~ Attributable(p)})
          /\ c = Cardinality(ParticipantsOf(m))
    BY SeatsOfMatch
  <2>2. v + a \in Nat /\ v + b \in Nat /\ v + c \in Nat
    OBVIOUS
  <2> QED
    BY <2>1, <2>2 DEF NamedSeats, PseudonymousSeats, AllSeats
<1>3. \A t : Otherwise!Picked(t) = ByName!Picked(t) /\ BySeat!Picked(t) = ByName!Picked(t)
  BY DEF ByName!Picked, Otherwise!Picked, BySeat!Picked
<1>4. \E f \in [SUBSET D -> Nat] :
        /\ f[{}] = z
        /\ \A t \in SUBSET D : t # {} => f[t] = NamedSeats(f[t \ {ByName!Picked(t)}], ByName!Picked(t))
        /\ ByName!Gathered(z, D) = f[D]
  BY <1>1, <1>2, ByName!GatherRuns
<1>5. \E f \in [SUBSET D -> Nat] :
        /\ f[{}] = z
        /\ \A t \in SUBSET D : t # {} => f[t] = PseudonymousSeats(f[t \ {Otherwise!Picked(t)}], Otherwise!Picked(t))
        /\ Otherwise!Gathered(z, D) = f[D]
  BY <1>1, <1>2, Otherwise!GatherRuns
<1>6. \E f \in [SUBSET D -> Nat] :
        /\ f[{}] = z
        /\ \A t \in SUBSET D : t # {} => f[t] = AllSeats(f[t \ {BySeat!Picked(t)}], BySeat!Picked(t))
        /\ BySeat!Gathered(z, D) = f[D]
  BY <1>1, <1>2, BySeat!GatherRuns
<1> QED
  BY <1>3, <1>4, <1>5, <1>6

(* The seats of all the matches, named or not, are counted once each.      *)
LEMMA SeatsAddUp ==
  ASSUME directories \subseteq Matches
  PROVE  NamedAppearances + PseudonymousAppearances =
           FoldSet(LAMBDA m, sum : sum + Cardinality(ParticipantsOf(m)), 0, directories)
<1>1. PICK D : D = directories
  OBVIOUS
<1>2. PICK z \in Nat : z = 0
  OBVIOUS
<1>3. D \in SUBSET Matches /\ IsFiniteSet(D) /\ ByName!IsFiniteSet(D)
  <2>1. D \in SUBSET Matches /\ IsFiniteSet(D)
    BY <1>1, CorpusAssumption, FS_Subset
  <2>2. ByName!IsFiniteSet(D)
    BY <2>1 DEF IsFiniteSet, ByName!IsFiniteSet
  <2> QED
    BY <2>1, <2>2
<1> DEFINE Pick(t) == ByName!Picked(t)
<1>4. PICK f \in [SUBSET D -> Nat] :
        /\ f[{}] = z
        /\ \A t \in SUBSET D : t # {} => f[t] = NamedSeats(f[t \ {Pick(t)}], Pick(t))
        /\ ByName!Gathered(z, D) = f[D]
  BY <1>3, SumsRun
<1>5. PICK g \in [SUBSET D -> Nat] :
        /\ g[{}] = z
        /\ \A t \in SUBSET D : t # {} => g[t] = PseudonymousSeats(g[t \ {Pick(t)}], Pick(t))
        /\ Otherwise!Gathered(z, D) = g[D]
  BY <1>3, SumsRun
<1>6. PICK h \in [SUBSET D -> Nat] :
        /\ h[{}] = z
        /\ \A t \in SUBSET D : t # {} => h[t] = AllSeats(h[t \ {Pick(t)}], Pick(t))
        /\ BySeat!Gathered(z, D) = h[D]
  BY <1>3, SumsRun
<1> DEFINE P == {t \in SUBSET D : f[t] + g[t] = h[t]}
<1>7. {} \in P
  BY <1>2, <1>4, <1>5, <1>6
<1>8. ASSUME NEW t \in SUBSET D, t # {}, t \ {Pick(t)} \in P PROVE t \in P
  <2>1. Pick(t) \in t /\ Pick(t) \in Matches
    BY <1>3, <1>8 DEF ByName!Picked
  <2> DEFINE u == t \ {Pick(t)}
  <2>2. u \in SUBSET D /\ f[u] \in Nat /\ g[u] \in Nat /\ h[u] \in Nat /\ f[u] + g[u] = h[u]
    BY <1>4, <1>5, <1>6, <1>8
  <2>3. f[t] = NamedSeats(f[u], Pick(t)) /\ g[t] = PseudonymousSeats(g[u], Pick(t)) /\ h[t] = AllSeats(h[u], Pick(t))
    BY <1>4, <1>5, <1>6, <1>8
  <2> HIDE DEF u, Pick
  <2>4. PICK a, b, c \in Nat :
          /\ a = Cardinality({p \in ParticipantsOf(Pick(t)) : Attributable(p)})
          /\ b = Cardinality({p \in ParticipantsOf(Pick(t)) : ~ Attributable(p)})
          /\ c = Cardinality(ParticipantsOf(Pick(t))) /\ a + b = c
    BY <2>1, SeatsOfMatch
  <2>5. f[t] = f[u] + a /\ g[t] = g[u] + b /\ h[t] = h[u] + c
    BY <2>3, <2>4 DEF NamedSeats, PseudonymousSeats, AllSeats
  <2>6. f[t] + g[t] = h[t]
    BY <2>2, <2>4, <2>5
  <2> QED
    BY <2>6
<1> HIDE DEF P
<1>9. \A t \in SUBSET D : t \in P
  BY <1>3, <1>7, <1>8, ByName!SubsetsUp
<1>10. f[D] + g[D] = h[D]
  BY <1>9 DEF P
<1> QED
  BY <1>1, <1>2, <1>4, <1>5, <1>6, <1>10, SumsAreFolds

(* For any corpus: the reports recomputed from its files agree with each   *)
(* other and with who is gone, wherever a command is or died: nobody       *)
(* forgotten is counted, named, trained on or due; what may be trained on  *)
(* reads and is recorded and permitted; every match, half and seat is      *)
(* counted once (census, permits, TrainingSet).                            *)
THEOREM CorpusReportsAgree == Spec => []ReportsAgree
<1>1. IInv => ReportsAgree
  <2> SUFFICES ASSUME IInv PROVE ReportsAgree
    OBVIOUS
  <2>1. directories \subseteq Matches /\ gone \subseteq People /\ \A p \in gone : Unknown(p)
    BY DEF IInv, TypeOK, Held, GoneUnknown
  <2>2. ASSUME NEW p \in gone
        PROVE  /\ p \notin PeopleCounted \cup MayBeNamed \cup Provenance(TrainingMatches) \cup DueAtConclusion
               /\ \A purpose \in Purposes : \A m \in Reached(purpose) : p \notin Players(m)
    <3>1. Unknown(p)
      BY <2>1
    <3>2. \A m \in directories : Decodes(Replay(m)) => p \notin Players(m)
      BY <2>1, <3>1 DEF Unknown
    <3>3. p \notin PeopleCounted
      BY <3>2 DEF PeopleCounted, PeopleRecorded, RecordedMatches, Accountable
    <3>4. p \notin MayBeNamed
      BY <3>3 DEF MayBeNamed
    <3>5. p \notin Provenance(TrainingMatches)
      BY <3>2 DEF Provenance, TrainingMatches, Usable, EveryoneIn
    <3>6. p \notin DueAtConclusion
      BY <3>1 DEF Unknown, DueAtConclusion
    <3>7. \A purpose \in Purposes : \A m \in Reached(purpose) : p \notin Players(m)
      BY <3>2 DEF Reached, EveryoneIn
    <3> QED
      BY <3>3, <3>4, <3>5, <3>6, <3>7
  <2>3. TrainingMatches \subseteq RecordedMatches \cap Reached(Training)
    BY DEF TrainingMatches, Usable, RecordedMatches, Reached
  <2>4. Load(TrainingMatches) = TrainingMatches
    BY DEF Load, TrainingMatches, Usable, Accountable
  <2>5. CensusStatus = "SUCCESS" => \A m \in Reached(Training) : Refusal(m) = "none"
    <3> SUFFICES ASSUME CensusStatus = "SUCCESS", NEW m \in Reached(Training) PROVE m \in TrainingMatches
      BY DEF Refusal
    <3>1. Unaccounted = {}
      BY DEF CensusStatus
    <3>2. m \in directories /\ EveryoneIn(m, Training)
      BY DEF Reached
    <3>3. Accountable(m)
      BY <3>1, <3>2 DEF Unaccounted, RecordedMatches
    <3> QED
      BY <3>2, <3>3 DEF TrainingMatches, Usable
  <2>6. FullMatches \cup PartialMatches = Half("train") \cup Half("holdout")
    BY DEF FullMatches, PartialMatches, Half, SplitOf
  <2>7. NamedAppearances + PseudonymousAppearances =
          FoldSet(LAMBDA m, sum : sum + Cardinality(ParticipantsOf(m)), 0, directories)
    BY <2>1, SeatsAddUp
  <2> QED
    BY <2>2, <2>3, <2>4, <2>5, <2>6, <2>7 DEF ReportsAgree
<1> QED
  BY <1>1, CorpusInvariant, PTL

-----------------------------------------------------------------------------

(* What may be done to the files between sealing and reading.              *)
Deeds ==
  DOMAIN Foreign_
    \cup {"adjusted " \o f : f \in {"count", "digest", "final", "outcome"}}
    \cup {"cut", "swapped", "edited", "retimed", "retired", "companion adjusted",
          "companion's id", "seat unlisted", "motion uncounted", "sample",
          "another match's companion", "another match's parts", "both matches' parts"}
    \cup {"sealed by " \o k : k \in {Server, Another, Foreign}}
    \cup {"companion sealed by " \o k : k \in {Server, Another, Foreign}}

(* Whose signature is under a replay: the server's under what it sealed,   *)
(* as long as no accepted key was used again, or that of nobody accepted.  *)
SignatureInv ==
  \/ SealedAgain
  \/ rep.signature = SignedBy(Replay_(of_).m, Server)
  \/ \E m : rep.signature = SignedBy(m, Foreign)

One(c) == c = Some(The(c))

EvidenceInv ==
  /\ DOMAIN rep = {"m", "signature", "inputs"}
  /\ com = None \/ One(com)
  /\ DOMAIN keys = {Server, Another}
  /\ trail \in Seq(Deeds)
  /\ SignatureInv

(* What has been done stays done.                                          *)
LEMMA DoneStays ==
  ASSUME trail \in Seq(Deeds), NEW what \in Deeds, Did(what)
  PROVE  /\ trail' \in Seq(Deeds) /\ Len(trail) + 1 \in DOMAIN trail' /\ trail'[Len(trail) + 1] = what
         /\ SealedAgain => SealedAgain'
<1>1. trail' = Append(trail, what)
  BY DEF Did
<1>2. /\ trail' \in Seq(Deeds) /\ Len(trail') = Len(trail) + 1 /\ Len(trail) \in Nat
      /\ trail'[Len(trail) + 1] = what /\ \A i \in 1 .. Len(trail) : trail'[i] = trail[i]
  BY <1>1, AppendProperties
<1>3. DOMAIN trail = 1 .. Len(trail) /\ DOMAIN trail' = 1 .. (Len(trail) + 1)
  BY <1>2
<1>4. ASSUME NEW i \in DOMAIN trail PROVE i \in DOMAIN trail' /\ trail'[i] = trail[i]
  BY <1>2, <1>3
<1>5. SealedAgain => SealedAgain'
  BY <1>4 DEF SealedAgain
<1>6. Len(trail) + 1 \in DOMAIN trail'
  BY <1>2, <1>3
<1> QED
  BY <1>2, <1>5, <1>6

LEMMA SignatureStays ==
  ASSUME EvidenceInv, NEW what \in Deeds, Did(what), of_' = of_,
         rep'.signature = rep.signature
  PROVE  SignatureInv' /\ trail' \in Seq(Deeds)
<1>1. trail' \in Seq(Deeds) /\ (SealedAgain => SealedAgain')
  BY DoneStays DEF EvidenceInv
<1>2. Replay_(of_)' = Replay_(of_)
  OBVIOUS
<1> QED
  BY <1>1, <1>2 DEF EvidenceInv, SignatureInv

(* A companion with a field of it changed is a companion.                  *)
LEMMA StillOne ==
  ASSUME NEW c, One(c), NEW x
  PROVE  One([c EXCEPT ![1].m.id = x])
  BY DEF One, Some, The

LEMMA OneUnlisted ==
  ASSUME NEW c, One(c), NEW s, NEW x, NEW y
  PROVE  One([c EXCEPT ![1].m.seats[s] = x, ![1].log[s] = y])
  BY DEF One, Some, The

LEMMA OneUncounted ==
  ASSUME NEW c, One(c), NEW s, NEW x
  PROVE  One([c EXCEPT ![1].m.seats[s][1].motions = x])
  BY DEF One, Some, The

LEMMA OneResampled ==
  ASSUME NEW c, One(c), NEW s, NEW i, NEW x
  PROVE  One([c EXCEPT ![1].log[s][1].samples[i] = x])
  BY DEF One, Some, The

LEMMA OneAdjusted ==
  ASSUME NEW c, One(c), NEW x, NEW y
  PROVE  One([c EXCEPT ![1].m.digest = x, ![1].m.seats = y])
  BY DEF One, Some, The

LEMMA OneResealed ==
  ASSUME NEW c, One(c), NEW x, NEW y
  PROVE  One([c EXCEPT ![1].m.server = x, ![1].signature = y])
  BY DEF One, Some, The

LEMMA EvidenceAtFirst == EInit => EvidenceInv
<1> SUFFICES ASSUME EInit PROVE EvidenceInv
  OBVIOUS
<1>1. rep = Replay_(of_) /\ com = Companion_(of_) /\ trail = <<>>
  BY DEF EInit
<1>2. DOMAIN rep = {"m", "signature", "inputs"} /\ rep.signature = SignedBy(Replay_(of_).m, Server)
  <2>1. PICK m : rep = [m |-> m, signature |-> SignedBy(m, Server), inputs |-> Recording_(of_).inputs]
    BY <1>1 DEF Replay_, SealReplay
  <2>2. rep.m = m
    BY <2>1
  <2> QED
    BY <1>1, <2>1, <2>2
<1>3. com = None \/ One(com)
  BY <1>1 DEF Companion_, One, Some, The
<1>4. DOMAIN keys = {Server, Another}
  BY DEF EInit
<1> QED
  BY <1>1, <1>2, <1>3, <1>4 DEF EvidenceInv, SignatureInv

LEMMA EvidenceStep == EvidenceInv /\ [ENext]_evars => EvidenceInv'
<1> SUFFICES ASSUME EvidenceInv, [ENext]_evars PROVE EvidenceInv'
  OBVIOUS
<1>1. /\ DOMAIN rep = {"m", "signature", "inputs"} /\ (com = None \/ One(com))
      /\ DOMAIN keys = {Server, Another} /\ trail \in Seq(Deeds) /\ SignatureInv
  BY DEF EvidenceInv
<1>3. CASE UNCHANGED evars
  BY <1>1, <1>3 DEF One, evars, EvidenceInv, SignatureInv, SealedAgain
<1>4. ASSUME NEW f \in DOMAIN Foreign_, EditManifest(f) PROVE EvidenceInv'
  <2>1. f \in Deeds /\ Did(f) /\ of_' = of_ /\ com' = com /\ keys' = keys
    BY <1>4 DEF EditManifest, Deeds
  <2>2. rep'.signature = rep.signature /\ DOMAIN rep' = DOMAIN rep
    BY <1>1, <1>4 DEF EditManifest
  <2> QED
    BY <1>1, <2>1, <2>2, SignatureStays DEF EvidenceInv
<1>5. ASSUME NEW f \in {"count", "digest", "final", "outcome"}, Adjust(f) PROVE EvidenceInv'
  <2>1. "adjusted " \o f \in Deeds /\ Did("adjusted " \o f) /\ of_' = of_ /\ com' = com /\ keys' = keys
    BY <1>5 DEF Adjust, Deeds
  <2>2. rep'.signature = rep.signature /\ DOMAIN rep' = DOMAIN rep
    BY <1>1, <1>5 DEF Adjust
  <2> QED
    BY <1>1, <2>1, <2>2, SignatureStays DEF EvidenceInv
<1>6. CASE EditLog
  <2>1. PICK e \in {"cut", "swapped", "edited", "retimed"} :
          Did(e) /\ rep' = [rep EXCEPT !.inputs =
            CASE e = "cut"     -> Front(@)
              [] e = "swapped" -> [@ EXCEPT ![1] = rep.inputs[2], ![2] = rep.inputs[1]]
              [] e = "edited"  -> [@ EXCEPT ![1].act = IF @ = "idle" THEN "cast" ELSE "idle"]
              [] e = "retimed" -> [@ EXCEPT ![1].at = @ + 1]]
    BY <1>6 DEF EditLog
  <2>2. e \in Deeds /\ of_' = of_ /\ com' = com /\ keys' = keys
    BY <1>6 DEF EditLog, Deeds
  <2>3. rep'.signature = rep.signature /\ DOMAIN rep' = DOMAIN rep
    BY <1>1, <2>1
  <2> QED
    BY <1>1, <2>1, <2>2, <2>3, SignatureStays DEF EvidenceInv
<1>7. CASE EditCompanion
  <2>1. PICK e \in {"companion's id", "seat unlisted", "motion uncounted", "sample"} :
          Did(e) /\ \E s \in ESeats :
            com' = CASE e = "companion's id"   -> [com EXCEPT ![1].m.id = "no match"]
                     [] e = "seat unlisted"    -> [com EXCEPT ![1].m.seats[s] = None, ![1].log[s] = None]
                     [] e = "motion uncounted" -> [com EXCEPT ![1].m.seats[s][1].motions = @ + 1]
                     [] e = "sample"           -> [com EXCEPT ![1].log[s][1].samples[1] = "press"]
    BY <1>7 DEF EditCompanion
  <2>2. e \in Deeds /\ of_' = of_ /\ rep' = rep /\ keys' = keys
    BY <1>7 DEF EditCompanion, Deeds
  <2>3. One(com)
    BY <1>1, <1>7 DEF EditCompanion, IsSome
  <2>4. PICK s \in ESeats :
          com' = CASE e = "companion's id"   -> [com EXCEPT ![1].m.id = "no match"]
                   [] e = "seat unlisted"    -> [com EXCEPT ![1].m.seats[s] = None, ![1].log[s] = None]
                   [] e = "motion uncounted" -> [com EXCEPT ![1].m.seats[s][1].motions = @ + 1]
                   [] e = "sample"           -> [com EXCEPT ![1].log[s][1].samples[1] = "press"]
    BY <2>1
  <2>5. One(com)'
    <3>1. CASE e = "companion's id"
      <4>1. com' = [com EXCEPT ![1].m.id = "no match"]
        BY <2>4, <3>1
      <4>2. One([com EXCEPT ![1].m.id = "no match"])
        BY <2>3, StillOne
      <4> QED
        BY <4>1, <4>2, Zenon DEF One
    <3>2. CASE e = "seat unlisted"
      <4>1. com' = [com EXCEPT ![1].m.seats[s] = None, ![1].log[s] = None]
        BY <2>4, <3>2
      <4>2. One([com EXCEPT ![1].m.seats[s] = None, ![1].log[s] = None])
        BY <2>3, OneUnlisted
      <4> QED
        BY <4>1, <4>2, Zenon DEF One
    <3>3. CASE e = "motion uncounted"
      <4>1. com' = [com EXCEPT ![1].m.seats[s][1].motions = @ + 1]
        BY <2>4, <3>3
      <4>2. One([com EXCEPT ![1].m.seats[s][1].motions = @ + 1])
        BY <2>3, OneUncounted
      <4> QED
        BY <4>1, <4>2, Zenon DEF One
    <3>4. CASE e = "sample"
      <4>1. com' = [com EXCEPT ![1].log[s][1].samples[1] = "press"]
        BY <2>4, <3>4
      <4>2. One([com EXCEPT ![1].log[s][1].samples[1] = "press"])
        BY <2>3, OneResampled
      <4> QED
        BY <4>1, <4>2, Zenon DEF One
    <3> QED
      BY <2>1, <3>1, <3>2, <3>3, <3>4
  <2> QED
    BY <1>1, <2>1, <2>2, <2>5, SignatureStays DEF EvidenceInv
<1>8. CASE AdjustCompanion
  <2>1. "companion adjusted" \in Deeds /\ Did("companion adjusted") /\ of_' = of_ /\ rep' = rep /\ keys' = keys
    BY <1>8 DEF AdjustCompanion, Deeds
  <2>2. One(com)
    BY <1>1, <1>8 DEF AdjustCompanion, IsSome
  <2>3. com' = [com EXCEPT ![1].m.digest = Body(The(com).log), ![1].m.seats = TracesOf(The(com).log)]
    BY <1>8 DEF AdjustCompanion
  <2>4. One([com EXCEPT ![1].m.digest = Body(The(com).log), ![1].m.seats = TracesOf(The(com).log)])
    BY <2>2, OneAdjusted
  <2>5. One(com)'
    BY <2>3, <2>4, Zenon DEF One
  <2> QED
    BY <1>1, <2>1, <2>5, SignatureStays DEF EvidenceInv
<1>9. CASE Retire
  <2>1. "retired" \in Deeds /\ Did("retired") /\ of_' = of_ /\ rep' = rep /\ com' = com /\ DOMAIN keys' = DOMAIN keys
    BY <1>9 DEF Retire, Deeds
  <2> QED
    BY <1>1, <2>1, SignatureStays DEF EvidenceInv
<1>10. ASSUME NEW k \in {Server, Another, Foreign}, Reseal(k) PROVE EvidenceInv'
  <2>1. "sealed by " \o k \in Deeds /\ Did("sealed by " \o k) /\ of_' = of_ /\ com' = com /\ keys' = keys
    BY <1>10 DEF Reseal, Deeds
  <2>2. DOMAIN rep' = DOMAIN rep /\ rep'.signature = SignedBy([rep.m EXCEPT !.server = k], k)
    BY <1>1, <1>10 DEF Reseal
  <2>3. /\ trail' \in Seq(Deeds) /\ Len(trail) + 1 \in DOMAIN trail'
        /\ trail'[Len(trail) + 1] = "sealed by " \o k
    BY <1>1, <2>1, DoneStays
  <2>4. SignatureInv'
    <3>1. CASE k = Foreign
      BY <2>2, <3>1 DEF SignatureInv
    <3>2. CASE k \in {Server, Another}
      BY <2>3, <3>2 DEF SignatureInv, SealedAgain
    <3> QED
      BY <3>1, <3>2
  <2> QED
    BY <1>1, <2>1, <2>2, <2>3, <2>4 DEF EvidenceInv
<1>11. ASSUME NEW k \in {Server, Another, Foreign}, ResealCompanion(k) PROVE EvidenceInv'
  <2>1. /\ "companion sealed by " \o k \in Deeds /\ Did("companion sealed by " \o k)
        /\ of_' = of_ /\ rep' = rep /\ keys' = keys
    BY <1>11 DEF ResealCompanion, Deeds
  <2>2. One(com)
    BY <1>1, <1>11 DEF ResealCompanion, IsSome
  <2>3. com' = [com EXCEPT ![1].m.server = k, ![1].signature = SignedBy([The(com).m EXCEPT !.server = k], k)]
    BY <1>11 DEF ResealCompanion
  <2>4. One([com EXCEPT ![1].m.server = k, ![1].signature = SignedBy([The(com).m EXCEPT !.server = k], k)])
    BY <2>2, OneResealed
  <2>5. One(com)'
    BY <2>3, <2>4, Zenon DEF One
  <2> QED
    BY <1>1, <2>1, <2>5, SignatureStays DEF EvidenceInv
<1>12. ASSUME NEW other \in Hosted_, TakeCompanionOf(other) PROVE EvidenceInv'
  <2>1. /\ "another match's companion" \in Deeds /\ Did("another match's companion")
        /\ of_' = of_ /\ rep' = rep /\ keys' = keys /\ com' = Companion_(other)
    BY <1>12 DEF TakeCompanionOf, Deeds
  <2>2. com' = None \/ One(com)'
    BY <2>1 DEF Companion_, One, Some, The
  <2> QED
    BY <1>1, <2>1, <2>2, SignatureStays DEF EvidenceInv
<1>13. ASSUME NEW other \in Hosted_, TakePartsOf(other) PROVE EvidenceInv'
  <2>1. PICK what \in {"another match's parts", "both matches' parts"} : Did(what)
    BY <1>13 DEF TakePartsOf
  <2>2. what \in Deeds /\ of_' = of_ /\ rep' = rep /\ keys' = keys /\ com' = com
    BY <1>13 DEF TakePartsOf, Deeds
  <2> QED
    BY <1>1, <2>1, <2>2, SignatureStays DEF EvidenceInv
<1> QED
  BY <1>3, <1>4, <1>5, <1>6, <1>7, <1>8, <1>9, <1>10, <1>11, <1>12, <1>13 DEF ENext

(* What `verify' answers when no check fails, and only then.               *)
LEMMA FirstOfNone ==
  ASSUME NEW c, DOMAIN c = 1 .. 8, \A i \in 1 .. 8 : c[i][2] # "ok", First(c) = "ok"
  PROVE  \A i \in 1 .. 8 : c[i][1]
<1> SUFFICES ASSUME ~ \A i \in 1 .. 8 : c[i][1] PROVE FALSE
  OBVIOUS
<1> DEFINE P(i) == ~c[i][1] /\ \A j \in 1 .. i - 1 : c[j][1]
<1>1. \E i \in DOMAIN c : P(i)
  <2> DEFINE Until(i) == \A j \in 1 .. i - 1 : c[j][1]
  <2>1. Until(1) /\ ~ Until(9)
    OBVIOUS
  <2>2. ASSUME NEW i \in 1 .. 8, Until(i), c[i][1] PROVE Until(i + 1)
    <3> SUFFICES ASSUME NEW j \in 1 .. i PROVE c[j][1]
      OBVIOUS
    <3>1. j = i \/ j \in 1 .. i - 1
      OBVIOUS
    <3> QED
      BY <2>2, <3>1
  <2> HIDE DEF Until
  <2>3. \E i \in 1 .. 8 : Until(i) /\ ~ c[i][1]
    BY <2>1, <2>2
  <2> QED
    BY <2>3 DEF Until
<1>2. P(CHOOSE i \in DOMAIN c : P(i)) /\ (CHOOSE i \in DOMAIN c : P(i)) \in DOMAIN c
  <2> HIDE DEF P
  <2> QED
    BY <1>1, Zenon
<1>3. First(c) = c[CHOOSE i \in DOMAIN c : P(i)][2]
  BY Zenon DEF First
<1> HIDE DEF P
<1> QED
  BY <1>2, <1>3

LEMMA ReplayAccepted ==
  ASSUME NEW r, VerifyReplay(r) = "ok"
  PROVE  r.m.server \in DOMAIN keys /\ r.signature = SignedBy(r.m, r.m.server) /\ LogIsNamed(r)
<1> DEFINE reached == Resimulate_(r.m.seed, r.m.ticks, r.inputs)
           checks == << <<r.m.server \in DOMAIN keys,            "UnknownKey">>,
                        <<r.signature = SignedBy(r.m, r.m.server), "Signature">>,
                        <<r.m.rules = ThisBuild.rules,           "RulesHash">>,
                        <<r.m.version = ThisBuild.version,       "SimVersion">>,
                        <<Len(r.inputs) = r.m.count,             "Truncated">>,
                        <<LogAgrees(r),                          "InputLog">>,
                        <<reached = r.m.final,                   "FinalDigest">>,
                        <<OutcomeOf(reached) = r.m.outcome,      "Outcome">> >>
<1>1. First(checks) = "ok"
  BY Zenon DEF VerifyReplay
<1>2. DOMAIN checks = 1 .. 8 /\ \A i \in 1 .. 8 : checks[i][2] # "ok"
  OBVIOUS
<1>3. \A i \in 1 .. 8 : checks[i][1]
  <2> HIDE DEF checks
  <2> QED
    BY <1>1, <1>2, FirstOfNone
<1>4. checks[1][1] /\ checks[2][1] /\ checks[6][1]
  <2> HIDE DEF checks
  <2> QED
    BY <1>3
<1> QED
  BY <1>4 DEF LogAgrees

LEMMA CompanionAccepted ==
  ASSUME NEW r, NEW c, NEW accepted, VerifyCompanion(r, c, accepted) = "ok"
  PROVE  IsSome(r.m.companion) /\ The(r.m.companion) = c
<1> DEFINE checks == << <<c.m.server \in accepted,               "UnknownKey">>,
                        <<c.signature = SignedBy(c.m, c.m.server), "Signature">>,
                        <<Body(c.log) = c.m.digest,              "Stream">>,
                        <<CountsAgree(c),                        "Counts">>,
                        <<c.m.server = r.m.server,               "Identity">>,
                        <<c.m.id = r.m.id,                       "Match">>,
                        <<\A s \in ESeats : r.m.names[s] # Nobody <=> IsSome(c.m.seats[s]), "Seats">>,
                        <<CommittedTo(r, c),                     "Substituted">> >>
<1>1. IsSome(r.m.companion)
  BY DEF VerifyCompanion
<1>2. First(checks) = "ok"
  BY <1>1, Zenon DEF VerifyCompanion
<1>3. DOMAIN checks = 1 .. 8 /\ \A i \in 1 .. 8 : checks[i][2] # "ok"
  OBVIOUS
<1>4. checks[8][1]
  <2> HIDE DEF checks
  <2> QED
    BY <1>2, <1>3, FirstOfNone
<1> QED
  BY <1>1, <1>4 DEF CommittedTo

(* The server's manifest names the log and the companion it was sealed     *)
(* with.                                                                   *)
LEMMA SealedNames ==
  ASSUME NEW id
  PROVE  /\ Replay_(id).m.digest = Untimed(Replay_(id).inputs)
         /\ Replay_(id).m.companion = Companion_(id)
  BY DEF Replay_, SealReplay

(* Unless a key of the registry was used again, what `replay verify'       *)
(* accepts is what the server sealed, and the companion it accepts beside  *)
(* it is that match's.  container.rs and telemetry.rs, verify().           *)
THEOREM AcceptedIsAsSealed == ESpec => []VerifiedIsAsSealed
<1>1. EvidenceInv => VerifiedIsAsSealed
  <2> SUFFICES ASSUME EvidenceInv, VerifyCommand(com) = "SUCCESS", ~ SealedAgain
               PROVE  /\ rep.m = Replay_(of_).m
                      /\ Untimed(rep.inputs) = Untimed(Replay_(of_).inputs)
                      /\ com \in {None, Companion_(of_)}
    BY DEF VerifiedIsAsSealed
  <2>1. VerifyReplay(rep) = "ok" /\ TelemetryCommand(com) = "SUCCESS"
    BY DEF VerifyCommand
  <2>2. rep.m.server \in DOMAIN keys /\ rep.signature = SignedBy(rep.m, rep.m.server) /\ LogIsNamed(rep)
    BY <2>1, ReplayAccepted
  <2>3. rep.m = Replay_(of_).m
    <3>1. ASSUME NEW m, rep.signature = SignedBy(m, Foreign) PROVE FALSE
      <4>1. rep.m.server = Foreign
        BY <2>2, <3>1 DEF SignedBy
      <4>2. rep.m.server \in {Server, Another}
        BY <2>2 DEF EvidenceInv
      <4> QED
        BY <4>1, <4>2 DEF Server, Another, Foreign
    <3>2. rep.signature = SignedBy(Replay_(of_).m, Server)
      BY <3>1 DEF EvidenceInv, SignatureInv
    <3> QED
      BY <2>2, <3>2 DEF SignedBy
  <2>4. Untimed(rep.inputs) = Untimed(Replay_(of_).inputs)
    BY <2>2, <2>3, SealedNames DEF LogIsNamed
  <2>5. com \in {None, Companion_(of_)}
    <3>1. CASE com = None
      BY <3>1
    <3>2. CASE com # None
      <4>1. One(com)
        BY <3>2 DEF EvidenceInv
      <4>2. VerifyCompanion(rep, The(com), DOMAIN keys) = "ok"
        BY <2>1, <3>2 DEF TelemetryCommand, IsSome
      <4>3. IsSome(Companion_(of_)) /\ The(Companion_(of_)) = The(com)
        BY <4>2, <2>3, CompanionAccepted, SealedNames
      <4>4. Companion_(of_) = Some(The(Companion_(of_)))
        BY <4>3 DEF Companion_, Some, The, IsSome
      <4> QED
        BY <4>1, <4>3, <4>4 DEF One
    <3> QED
      BY <3>1, <3>2
  <2> QED
    BY <2>3, <2>4, <2>5
<1> QED
  BY EvidenceAtFirst, EvidenceStep, <1>1, PTL DEF ESpec

-----------------------------------------------------------------------------

(* When an intention was composed, and how long it was on its way, are in  *)
(* no log: there are such times that every stamp is the rounding of.       *)
Composed(at, way) ==
  /\ \A i \in 1 .. Len(stamps) :
       /\ at[i] <= sent /\ way[i] \in steady
       /\ stamps[i].claimed = Claims(at[i])
       /\ stamps[i].received = (at[i] + way[i]) \div PARTS
  /\ \A i, j \in 1 .. Len(stamps) : i <= j => at[i] <= at[j]

ClockInv ==
  /\ clock \in [rate : Rates, offset : Offsets]
  /\ sent \in Nat /\ arrived \in Nat /\ steady \subseteq Nat
  /\ stamps \in Seq([claimed : Nat, received : Nat])
  /\ \E at, way \in [1 .. Len(stamps) -> Nat] : Composed(at, way)

(* What a division loses.                                                  *)
LEMMA Divided ==
  ASSUME NEW a \in Int, NEW b \in Nat \ {0}
  PROVE  /\ a \div b \in Int /\ (a \in Nat => a \div b \in Nat)
         /\ (a \div b) * b <= a /\ a < ((a \div b) + 1) * b
  OBVIOUS

LEMMA DivisionKeepsOrder ==
  ASSUME NEW a \in Int, NEW c \in Int, NEW b \in Nat \ {0}, a <= c
  PROVE  a \div b <= c \div b
<1> DEFINE x == a \div b
           y == c \div b
<1>1. x \in Int /\ y \in Int /\ x * b <= a /\ c < (y + 1) * b
  BY Divided
<1> HIDE DEF x, y
<1>2. x * b < (y + 1) * b
  BY <1>1
<1>3. x < y + 1
  BY <1>1, <1>2
<1>4. x <= y
  BY <1>1, <1>3
<1> QED
  BY <1>4 DEF x, y

LEMMA ClockType ==
  ASSUME clock \in [rate : Rates, offset : Offsets]
  PROVE  /\ PARTS \in Nat \ {0} /\ clock.rate[1] \in Nat /\ clock.rate[2] \in Nat \ {0} /\ clock.offset \in Nat
         /\ PARTS * clock.rate[2] \in Nat \ {0}
<1>1. PARTS \in Nat \ {0} /\ clock.rate \in Nat \X (Nat \ {0}) /\ clock.offset \in Nat
  BY ClockConstants
<1>2. clock.rate[1] \in Nat /\ clock.rate[2] \in Nat \ {0}
  BY <1>1
<1>3. PICK p, q \in Nat \ {0} : p = PARTS /\ q = clock.rate[2]
  BY <1>1, <1>2
<1>4. p * q \in Nat \ {0}
  OBVIOUS
<1> QED
  BY <1>1, <1>2, <1>3, <1>4

(* A clock tells a number, and a later one later.                          *)
LEMMA ClaimsInOrder ==
  ASSUME clock \in [rate : Rates, offset : Offsets], NEW a \in Nat, NEW c \in Nat, a <= c
  PROVE  Claims(a) \in Nat /\ Claims(a) <= Claims(c)
<1>1. PICK r \in Nat, u, part \in Nat \ {0}, o \in Nat :
        r = clock.rate[1] /\ u = clock.rate[2] /\ part = PARTS /\ o = clock.offset
  BY ClockType
<1>2. PICK k, l \in Nat : k = a \div part /\ l = c \div part
  BY Divided
<1>3. k <= l
  BY <1>2, DivisionKeepsOrder
<1>4. k * r \in Nat /\ l * r \in Nat /\ k * r <= l * r
  BY <1>3
<1>5. PICK x, y \in Nat : x = (k * r) \div u /\ y = (l * r) \div u
  <2>1. (k * r) \div u \in Nat /\ (l * r) \div u \in Nat
    BY <1>4, Divided
  <2> QED
    BY <2>1
<1>6. x <= y
  BY <1>4, <1>5, DivisionKeepsOrder
<1>7. x + o \in Nat /\ x + o <= y + o
  BY <1>6
<1> QED
  BY <1>1, <1>2, <1>5, <1>7 DEF Claims

LEMMA ClockAtFirst == CInit => ClockInv
<1> SUFFICES ASSUME CInit PROVE ClockInv
  OBVIOUS
<1> DEFINE f == [i \in 1 .. Len(stamps) |-> 0]
<1>1. stamps = <<>> /\ Len(stamps) = 0 /\ \A i : i \notin 1 .. 0
  BY DEF CInit
<1>2. f \in [1 .. Len(stamps) -> Nat]
  OBVIOUS
<1> HIDE DEF f
<1>3. Composed(f, f)
  BY <1>1 DEF Composed
<1>4. \E at, way \in [1 .. Len(stamps) -> Nat] : Composed(at, way)
  BY <1>2, <1>3
<1>5. stamps \in Seq([claimed : Nat, received : Nat])
  BY <1>1
<1> QED
  BY <1>4, <1>5 DEF CInit, ClockInv

LEMMA ClockStep == ClockInv /\ [CNext]_cvars => ClockInv'
<1> SUFFICES ASSUME ClockInv, [CNext]_cvars PROVE ClockInv'
  OBVIOUS
<1>1. CASE UNCHANGED cvars
  <2>1. clock' = clock /\ sent' = sent /\ arrived' = arrived /\ steady' = steady /\ stamps' = stamps
    BY <1>1 DEF cvars
  <2>2. \A t : Claims(t)' = Claims(t)
    BY <2>1 DEF Claims
  <2>3. \A at, way : Composed(at, way)' = Composed(at, way)
    BY <2>1, <2>2 DEF Composed
  <2> QED
    BY <2>1, <2>3 DEF ClockInv
<1>2. CASE CNext
  <2>1. PICK gap \in Gaps, delay \in Delays : Intend(gap, delay) /\ clock' = clock
    BY <1>2 DEF CNext
  <2>2. gap \in Nat /\ delay \in Nat /\ sent \in Nat /\ arrived \in Nat /\ PARTS \in Nat \ {0}
    BY ClockConstants DEF ClockInv
  <2>3. PICK n, now, there \in Nat :
          /\ n = Len(stamps) /\ now = sent + gap
          /\ there = IF now + delay < arrived THEN arrived ELSE now + delay
    <3>1. stamps \in Seq([claimed : Nat, received : Nat])
      BY DEF ClockInv
    <3>2. Len(stamps) \in Nat /\ sent + gap \in Nat
      BY <2>2, <3>1
    <3>3. (IF sent + gap + delay < arrived THEN arrived ELSE sent + gap + delay) \in Nat
      BY <2>2
    <3> QED
      BY <3>2, <3>3
  <2>4. /\ sent' = now /\ arrived' = there
        /\ stamps' = Append(stamps, [claimed |-> Claims(now), received |-> there \div PARTS])
        /\ steady' = steady \cup {there - now}
        /\ there - now \in Nat /\ now + (there - now) = there /\ sent <= now
    <3>1. /\ sent' = now /\ arrived' = there
          /\ stamps' = Append(stamps, [claimed |-> Claims(now), received |-> there \div PARTS])
          /\ steady' = steady \cup {there - now}
      BY <2>1, <2>3 DEF Intend
    <3>2. there - now \in Nat /\ now + (there - now) = there /\ sent <= now
      BY <2>2, <2>3
    <3> QED
      BY <3>1, <3>2
  <2>5. there \div PARTS \in Nat
    BY <2>2, <2>3, Divided
  <2>6. Claims(now) \in Nat
    BY <2>3, ClaimsInOrder DEF ClockInv
  <2> DEFINE mark == [claimed |-> Claims(now), received |-> there \div PARTS]
  <2>7. mark \in [claimed : Nat, received : Nat]
    BY <2>5, <2>6
  <2>8. stamps \in Seq([claimed : Nat, received : Nat]) /\ n \in Nat /\ n = Len(stamps)
    BY <2>3 DEF ClockInv
  <2>9. mark.claimed = Claims(now) /\ mark.received = there \div PARTS
    OBVIOUS
  <2> HIDE DEF mark
  <2>10. /\ stamps' \in Seq([claimed : Nat, received : Nat]) /\ Len(stamps') = n + 1
         /\ stamps'[n + 1] = mark /\ \A i \in 1 .. n : stamps'[i] = stamps[i]
    BY <2>4, <2>7, <2>8, AppendProperties DEF mark
  <2>11. PICK at, way \in [1 .. n -> Nat] : Composed(at, way)
    BY <2>8 DEF ClockInv
  <2> DEFINE at2  == [i \in 1 .. (n + 1) |-> IF i = n + 1 THEN now ELSE at[i]]
             way2 == [i \in 1 .. (n + 1) |-> IF i = n + 1 THEN there - now ELSE way[i]]
  <2>12. \A i \in 1 .. (n + 1) : i = n + 1 \/ i \in 1 .. n
    BY <2>8
  <2>13. at2 \in [1 .. (n + 1) -> Nat] /\ way2 \in [1 .. (n + 1) -> Nat]
    BY <2>4, <2>12
  <2>14. /\ \A i \in 1 .. (n + 1) : i = n + 1 => at2[i] = now /\ way2[i] = there - now
         /\ \A i \in 1 .. n : at2[i] = at[i] /\ way2[i] = way[i] /\ i # n + 1 /\ at[i] \in Nat /\ at[i] <= sent
    <3>1. \A i \in 1 .. n : i \in 1 .. (n + 1) /\ i # n + 1
      BY <2>8
    <3>2. \A i \in 1 .. n : at[i] <= sent
      BY <2>8, <2>11 DEF Composed
    <3> QED
      BY <3>1, <3>2
  <2> HIDE DEF at2, way2
  <2>15. \A t : Claims(t)' = Claims(t)
    BY <2>1 DEF Claims
  <2>16. ASSUME NEW i \in 1 .. (n + 1)
         PROVE  /\ at2[i] <= sent' /\ way2[i] \in steady'
                /\ stamps'[i].claimed = Claims(at2[i])
                /\ stamps'[i].received = (at2[i] + way2[i]) \div PARTS
    <3>1. CASE i = n + 1
      <4>1. stamps'[i] = mark /\ at2[i] = now /\ way2[i] = there - now
        BY <2>10, <2>14, <3>1
      <4>2. now <= now
        BY <2>3
      <4>3. at2[i] + way2[i] = there
        BY <2>4, <4>1
      <4> QED
        BY <2>4, <2>9, <4>1, <4>2, <4>3
    <3>2. CASE i \in 1 .. n
      <4>1. /\ way[i] \in steady /\ stamps[i].claimed = Claims(at[i])
            /\ stamps[i].received = (at[i] + way[i]) \div PARTS
        BY <2>8, <2>11, <3>2 DEF Composed
      <4>2. stamps'[i] = stamps[i] /\ at2[i] = at[i] /\ way2[i] = way[i] /\ at[i] \in Nat /\ at[i] <= sent
        BY <2>10, <2>14, <3>2
      <4>3. at[i] <= sent'
        BY <2>2, <2>4, <4>2
      <4> QED
        BY <2>4, <4>1, <4>2, <4>3
    <3> QED
      BY <2>12, <3>1, <3>2
  <2>17. ASSUME NEW i \in 1 .. (n + 1), NEW j \in 1 .. (n + 1), i <= j
         PROVE  at2[i] <= at2[j]
    <3>1. CASE j = n + 1
      <4>1. at2[j] = now
        BY <2>14, <3>1
      <4>2. CASE i = n + 1
        BY <2>3, <2>14, <4>1, <4>2
      <4>3. CASE i \in 1 .. n
        BY <2>2, <2>4, <2>14, <4>1, <4>3, SMTT(40)
      <4> QED
        BY <2>12, <4>2, <4>3
    <3>2. CASE j \in 1 .. n
      <4>1. i \in 1 .. n
        BY <2>8, <2>17, <3>2
      <4> QED
        BY <2>8, <2>11, <2>14, <2>17, <3>2, <4>1 DEF Composed
    <3> QED
      BY <2>12, <3>1, <3>2
  <2>18. Composed(at2, way2)'
    <3>1. 1 .. Len(stamps') = 1 .. (n + 1)
      BY <2>10
    <3> QED
      BY <2>15, <2>16, <2>17, <3>1 DEF Composed
  <2>19. at2 \in [1 .. Len(stamps') -> Nat] /\ way2 \in [1 .. Len(stamps') -> Nat]
    BY <2>10, <2>13
  <2>20. \E f, g \in [1 .. Len(stamps') -> Nat] : Composed(f, g)'
    BY <2>18, <2>19
  <2>21. steady' \subseteq Nat /\ sent' \in Nat /\ arrived' \in Nat /\ clock' \in [rate : Rates, offset : Offsets]
    BY <2>1, <2>4 DEF ClockInv
  <2> QED
    BY <2>10, <2>20, <2>21 DEF ClockInv
<1> QED
  BY <1>1, <1>2

(* Two numbers whose quotients are no further apart than T + 1, and the    *)
(* quotients rounded toward zero.                                          *)
LEMMA Truncated ==
  ASSUME NEW N \in Int, NEW K \in Int, NEW d \in Nat \ {0}, NEW q \in Nat \ {0}, NEW T \in Nat,
         N * q - K * d < (T + 1) * (q * d), K * d - N * q < (T + 1) * (q * d)
  PROVE  Quotient(N, d) \in Int /\ Quotient(K, q) \in Int
         /\ Absolute(Quotient(N, d) - Quotient(K, q)) <= T + 1
<1>1. ASSUME NEW a \in Int, NEW b \in Nat \ {0}
      PROVE  /\ Quotient(a, b) \in Int
             /\ a >= 0 => Quotient(a, b) >= 0 /\ Quotient(a, b) * b <= a /\ a < (Quotient(a, b) + 1) * b
             /\ a < 0 => Quotient(a, b) <= 0 /\ a <= Quotient(a, b) * b /\ (Quotient(a, b) - 1) * b < a
  <2>1. CASE a >= 0
    <3>1. Quotient(a, b) = 1 * ((1 * a) \div b)
      BY <2>1 DEF Quotient, Sign, Absolute
    <3>2. PICK x \in Nat : x = a \div b /\ x * b <= a /\ a < (x + 1) * b
      BY <2>1, Divided
    <3>3. 1 * a = a /\ 1 * x = x
      OBVIOUS
    <3> QED
      BY <2>1, <3>1, <3>2, <3>3
  <2>2. CASE a < 0
    <3>1. PICK c \in Nat : c = - a
      BY <2>2
    <3>2. PICK x \in Nat : x = c \div b /\ x * b <= c /\ c < (x + 1) * b
      BY Divided
    <3>3. (-1) * a = c /\ (-1) * x = - x
      BY <3>1
    <3>4. Quotient(a, b) = - x
      BY <2>2, <3>2, <3>3 DEF Quotient, Sign, Absolute
    <3>5. a <= (- x) * b /\ (- x - 1) * b < a
      BY <3>1, <3>2
    <3> QED
      BY <2>2, <3>4, <3>5
  <2> QED
    BY <2>1, <2>2
<1>2. PICK x, y \in Int : x = Quotient(N, d) /\ y = Quotient(K, q)
  BY <1>1
<1>3. q * d \in Nat \ {0} /\ q * d = d * q
  OBVIOUS
<1>4. /\ N >= 0 => x >= 0 /\ x * (q * d) <= N * q /\ N * q < (x + 1) * (q * d)
      /\ N < 0 => x <= 0 /\ N * q <= x * (q * d) /\ (x - 1) * (q * d) < N * q
  <2>1. /\ N >= 0 => x >= 0 /\ x * d <= N /\ N < (x + 1) * d
        /\ N < 0 => x <= 0 /\ N <= x * d /\ (x - 1) * d < N
    BY <1>1, <1>2
  <2>2. \A z \in Int : (z * d) * q = z * (q * d)
    OBVIOUS
  <2>3. \A a, b \in Int : (a <= b => a * q <= b * q) /\ (a < b => a * q < b * q)
    OBVIOUS
  <2>4. x * d \in Int /\ (x + 1) * d \in Int /\ (x - 1) * d \in Int
    OBVIOUS
  <2> QED
    BY <2>1, <2>2, <2>3, <2>4
<1>5. /\ K >= 0 => y >= 0 /\ y * (q * d) <= K * d /\ K * d < (y + 1) * (q * d)
      /\ K < 0 => y <= 0 /\ K * d <= y * (q * d) /\ (y - 1) * (q * d) < K * d
  <2>1. /\ K >= 0 => y >= 0 /\ y * q <= K /\ K < (y + 1) * q
        /\ K < 0 => y <= 0 /\ K <= y * q /\ (y - 1) * q < K
    BY <1>1, <1>2
  <2>2. \A z \in Int : (z * q) * d = z * (q * d)
    OBVIOUS
  <2>3. \A a, b \in Int : (a <= b => a * d <= b * d) /\ (a < b => a * d < b * d)
    OBVIOUS
  <2>4. y * q \in Int /\ (y + 1) * q \in Int /\ (y - 1) * q \in Int
    OBVIOUS
  <2> QED
    BY <2>1, <2>2, <2>3, <2>4
<1>6. PICK w \in Nat \ {0}, n, k \in Int : w = q * d /\ n = N * q /\ k = K * d
  BY <1>3
<1>7. n - k < (T + 1) * w /\ k - n < (T + 1) * w
  BY <1>6
<1>8. /\ N >= 0 => x >= 0 /\ x * w <= n /\ n < (x + 1) * w
      /\ N < 0 => x <= 0 /\ n <= x * w /\ (x - 1) * w < n
      /\ K >= 0 => y >= 0 /\ y * w <= k /\ k < (y + 1) * w
      /\ K < 0 => y <= 0 /\ k <= y * w /\ (y - 1) * w < k
  BY <1>4, <1>5, <1>6
<1>9. x - y <= T + 1
  <2> SUFFICES ASSUME x - y >= T + 2 PROVE FALSE
    OBVIOUS
  <2>1. (x - y) * w >= (T + 2) * w /\ (x - y) * w = x * w - y * w /\ (T + 2) * w = (T + 1) * w + w
        /\ (x - 1) * w = x * w - w /\ (y + 1) * w = y * w + w
    OBVIOUS
  <2>2. CASE N >= 0 /\ K >= 0
    BY <1>7, <1>8, <2>1, <2>2
  <2>3. CASE N >= 0 /\ K < 0
    BY <1>7, <1>8, <2>1, <2>3
  <2>4. CASE N < 0 /\ K < 0
    BY <1>7, <1>8, <2>1, <2>4
  <2>5. CASE N < 0 /\ K >= 0
    BY <1>8, <2>5
  <2> QED
    BY <2>2, <2>3, <2>4, <2>5
<1>10. y - x <= T + 1
  <2> SUFFICES ASSUME y - x >= T + 2 PROVE FALSE
    OBVIOUS
  <2>1. (y - x) * w >= (T + 2) * w /\ (y - x) * w = y * w - x * w /\ (T + 2) * w = (T + 1) * w + w
        /\ (y - 1) * w = y * w - w /\ (x + 1) * w = x * w + w
    OBVIOUS
  <2>2. CASE N >= 0 /\ K >= 0
    BY <1>7, <1>8, <2>1, <2>2
  <2>3. CASE N < 0 /\ K >= 0
    BY <1>7, <1>8, <2>1, <2>3
  <2>4. CASE N < 0 /\ K < 0
    BY <1>7, <1>8, <2>1, <2>4
  <2>5. CASE N >= 0 /\ K < 0
    BY <1>8, <2>5
  <2> QED
    BY <2>2, <2>3, <2>4, <2>5
<1>11. Absolute(x - y) <= T + 1
  <2>1. PICK z \in Int : z = x - y
    OBVIOUS
  <2>2. (-1) * z = - z /\ 1 * z = z
    OBVIOUS
  <2>3. z <= T + 1 /\ - z <= T + 1
    BY <1>9, <1>10, <2>1
  <2> QED
    BY <2>1, <2>2, <2>3 DEF Absolute, Sign
<1> QED
  BY <1>2, <1>11

(* The spans two clocks give the time from a to b, the one at a rate of    *)
(* p / q and from an epoch o, the other after a way.                       *)
LittleApart(a, b, way, o, p, q, part) ==
  \E C \in Int, D \in Nat :
    /\ C = (((b \div part) * p) \div q + o) - (((a \div part) * p) \div q + o)
    /\ D = (b + way) \div part - (a + way) \div part
    /\ C * q - D * p < p + q /\ D * p - C * q < p + q

(* Two spans of one stretch of time, each read in whole parts, are no more *)
(* than a part apart.                                                      *)
LEMMA SpansInParts ==
  ASSUME NEW a \in Nat, NEW b \in Nat, NEW way \in Nat, a <= b, NEW part \in Nat \ {0},
         NEW k \in Nat, k = a \div part, NEW l \in Nat, l = b \div part,
         NEW r \in Nat, r = (a + way) \div part, NEW s \in Nat, s = (b + way) \div part
  PROVE  (s - r) - (l - k) \in -1 .. 1
<1>1. k * part <= a /\ a < (k + 1) * part /\ l * part <= b /\ b < (l + 1) * part
  BY Divided
<1>2. a + way \in Nat /\ b + way \in Nat
  OBVIOUS
<1>3. r * part <= a + way /\ a + way < (r + 1) * part /\ s * part <= b + way /\ b + way < (s + 1) * part
  BY <1>2, Divided
<1>4. PICK g \in Int : g = (s - r) - (l - k)
  OBVIOUS
<1>5. /\ g * part = s * part - r * part - l * part + k * part
      /\ (k + 1) * part = k * part + part /\ (l + 1) * part = l * part + part
      /\ (r + 1) * part = r * part + part /\ (s + 1) * part = s * part + part
      /\ 2 * part = part + part /\ (-2) * part = - (part + part)
  BY <1>4
<1>6. g * part < 2 * part /\ (-2) * part < g * part
  BY <1>1, <1>3, <1>5
<1>7. g < 2 /\ -2 < g
  <2>1. \A v, w \in Int : v * part < w * part => v < w
    OBVIOUS
  <2> QED
    BY <1>6, <2>1
<1> QED
  BY <1>4, <1>7

(* Two spans of one stretch of time: what one clock claims of it, scaling  *)
(* the whole parts it observed, against what the other observes.           *)
LEMMA SpansApart ==
  ASSUME NEW a \in Nat, NEW b \in Nat, NEW way \in Nat, NEW o \in Nat, a <= b,
         NEW p \in Nat, NEW q \in Nat \ {0}, NEW part \in Nat \ {0}
  PROVE  LittleApart(a, b, way, o, p, q, part)
<1>1. PICK k, l \in Nat : k = a \div part /\ l = b \div part
  BY Divided
<1>2. a + way \in Nat /\ b + way \in Nat /\ a + way <= b + way /\ k * p \in Nat /\ l * p \in Nat
  OBVIOUS
<1>3. PICK x \in Nat : x = (k * p) \div q /\ x * q <= k * p /\ k * p < (x + 1) * q
  BY <1>2, Divided
<1>4. PICK y \in Nat : y = (l * p) \div q /\ y * q <= l * p /\ l * p < (y + 1) * q
  BY <1>2, Divided
<1>5. PICK r, s \in Nat : r = (a + way) \div part /\ s = (b + way) \div part
  <2>1. (a + way) \div part \in Nat /\ (b + way) \div part \in Nat
    BY <1>2, Divided
  <2> QED
    BY <2>1
<1>6. r <= s
  BY <1>2, <1>5, DivisionKeepsOrder
<1>7. PICK c \in Int, e \in Nat, g \in Int : c = y - x /\ e = s - r /\ g = (s - r) - (l - k)
  BY <1>6
<1>8. ((l * p) \div q + o) - ((k * p) \div q + o) = c
  <2>1. (y + o) - (x + o) = y - x
    OBVIOUS
  <2> QED
    BY <1>3, <1>4, <1>7, <2>1
<1>9. g \in -1 .. 1
  BY <1>1, <1>5, <1>7, SpansInParts
<1>10. c * q - (l - k) * p < q /\ (l - k) * p - c * q < q
  <2>1. c * q = y * q - x * q /\ (l - k) * p = l * p - k * p
        /\ (x + 1) * q = x * q + q /\ (y + 1) * q = y * q + q
    BY <1>7
  <2> QED
    BY <1>3, <1>4, <2>1
<1>11. e * p = (l - k) * p + g * p
  <2>1. e = (l - k) + g
    BY <1>7
  <2> QED
    BY <2>1
<1>12. g * p <= p /\ - (g * p) <= p
  <2>1. g = -1 \/ g = 0 \/ g = 1
    BY <1>9
  <2>2. (-1) * p = - p /\ 0 * p = 0 /\ 1 * p = p
    OBVIOUS
  <2> QED
    BY <2>1, <2>2
<1>13. c * q - e * p < p + q /\ e * p - c * q < p + q
  <2>1. PICK u, v, w \in Int : u = c * q /\ v = (l - k) * p /\ w = g * p
    OBVIOUS
  <2> QED
    BY <1>10, <1>11, <1>12, <2>1
<1> QED
  BY <1>1, <1>5, <1>7, <1>8, <1>13 DEF LittleApart


(* For any clock, any epoch and any gaps between intentions: a clock is    *)
(* read at its own rate to within the rounding of its two spans, if the    *)
(* way took one time, and is never read as gone backwards                  *)
(* (ClockTrace::extract()).                                                *)
THEOREM ClockReadAtItsRate == CSpec => []RateIsRead
<1>1. ClockInv => RateIsRead
  <2> SUFFICES ASSUME ClockInv PROVE RateIsRead
    OBVIOUS
  <2>1. clock \in [rate : Rates, offset : Offsets] /\ stamps \in Seq([claimed : Nat, received : Nat])
    BY DEF ClockInv
  <2>2. PICK n \in Nat : n = Len(stamps)
    BY <2>1
  <2>3. PICK at, way \in [1 .. n -> Nat] : Composed(at, way)
    BY <2>2 DEF ClockInv
  <2>4. /\ \A i \in 1 .. n : stamps[i].claimed = Claims(at[i])
        /\ \A i \in 1 .. n : stamps[i].received = (at[i] + way[i]) \div PARTS /\ way[i] \in steady
        /\ \A i, j \in 1 .. n : i <= j => at[i] <= at[j]
    BY <2>2, <2>3 DEF Composed
  <2>5. Backwards = {}
    <3> SUFFICES ASSUME NEW i \in DOMAIN stamps, i > 1 PROVE ~ (stamps[i].claimed < stamps[i - 1].claimed)
      BY DEF Backwards
    <3>1. i \in 1 .. n /\ i - 1 \in 1 .. n /\ i - 1 <= i
      BY <2>1, <2>2
    <3>2. at[i - 1] <= at[i] /\ at[i - 1] \in Nat /\ at[i] \in Nat
      BY <2>4, <3>1
    <3>3. PICK x, y \in Nat : x = at[i - 1] /\ y = at[i]
      BY <3>2
    <3>4. x <= y /\ y <= y
      BY <3>2, <3>3
    <3>5. Claims(x) \in Nat /\ Claims(y) \in Nat /\ Claims(x) <= Claims(y)
      BY <2>1, <3>4, ClaimsInOrder
    <3>6. ~ (Claims(y) < Claims(x))
      BY <3>5
    <3> QED
      BY <2>4, <3>1, <3>3, <3>6
  <2>6. ASSUME IsScored, \E d \in steady : steady = {d}
        PROVE  /\ Absolute(RateError - TrueError) <= Rounding + 1
               /\ clock.rate[1] <= clock.rate[2] => Rounding <= Resolution
    <3>1. PICK w \in steady : steady = {w}
      BY <2>6
    <3>2. stamps # <<>> /\ n >= 2 /\ ObservedSpan # 0
      BY <2>2, <2>6 DEF IsScored
    <3>3. 1 \in 1 .. n /\ n \in 1 .. n /\ 1 <= n
      BY <3>2
    <3>4. PICK a, b, v \in Nat : a = at[1] /\ b = at[n] /\ v = w
      BY <3>1, <3>3 DEF ClockInv
    <3>5. PICK p \in Nat, q, part \in Nat \ {0}, o \in Nat :
            p = clock.rate[1] /\ q = clock.rate[2] /\ part = PARTS /\ o = clock.offset
      BY <2>1, ClockType
    <3>6. a <= b
      BY <2>4, <3>3, <3>4
    <3>7. PICK C \in Int, D \in Nat :
            /\ C = (((b \div part) * p) \div q + o) - (((a \div part) * p) \div q + o)
            /\ D = (b + v) \div part - (a + v) \div part
            /\ C * q - D * p < p + q /\ D * p - C * q < p + q
      <4>1. LittleApart(a, b, v, o, p, q, part)
        BY <3>6, SpansApart
      <4> QED
        BY <4>1 DEF LittleApart
    <3>8. ClaimedSpan = C
      <4>1. stamps[1].claimed = Claims(a) /\ stamps[n].claimed = Claims(b)
        BY <2>4, <3>3, <3>4
      <4> QED
        BY <2>2, <3>2, <3>5, <3>7, <4>1
        DEF ClaimedSpan, ClaimedSpanOfClock, FirstStamp, LastStamp, Claims
    <3>9. ObservedSpan = D
      <4>1. way[1] = v /\ way[n] = v
        BY <2>4, <3>1, <3>3, <3>4
      <4>2. stamps[1].received = (a + v) \div part /\ stamps[n].received = (b + v) \div part
        BY <2>4, <3>3, <3>4, <3>5, <4>1
      <4> QED
        BY <2>2, <3>2, <3>7, <4>2 DEF ObservedSpan, FirstStamp, LastStamp
    <3>10. D \in Nat \ {0}
      BY <3>2, <3>9
    <3>11. PICK M \in Nat \ {0} : M = PPM
      BY DEF PPM
    <3>12. PICK N, K \in Int : N = (C - D) * M /\ K = (p - q) * M
      OBVIOUS
    <3>13. RateError = Quotient(N, D) /\ TrueError = Quotient(K, q)
      BY <3>2, <3>5, <3>8, <3>9, <3>11, <3>12 DEF RateError, TrueError
    <3>14. PICK W \in Nat, z \in Nat \ {0} : W = (p + q) * M /\ z = q * D
      BY <3>10
    <3>15. PICK T \in Nat : T = W \div z /\ W < (T + 1) * z
      BY Divided
    <3>16. Rounding = T
      BY <3>5, <3>9, <3>11, <3>14, <3>15 DEF Rounding
    <3>17. N * q - K * D = (C * q - D * p) * M /\ K * D - N * q = (D * p - C * q) * M
      <4>1. N * q = (C * q) * M - (D * q) * M
        BY <3>12
      <4>2. K * D = (D * p) * M - (D * q) * M
        BY <3>12
      <4>3. /\ (C * q - D * p) * M = (C * q) * M - (D * p) * M
            /\ (D * p - C * q) * M = (D * p) * M - (C * q) * M
        OBVIOUS
      <4> QED
        BY <4>1, <4>2, <4>3
    <3>18. (C * q - D * p) * M < W /\ (D * p - C * q) * M < W
      <4>1. \A x, y \in Int : x < y => x * M < y * M
        OBVIOUS
      <4>2. C * q - D * p \in Int /\ D * p - C * q \in Int /\ p + q \in Int
        OBVIOUS
      <4> QED
        BY <3>7, <3>14, <4>1, <4>2
    <3>19. N * q - K * D < (T + 1) * (q * D) /\ K * D - N * q < (T + 1) * (q * D)
      <4>1. PICK x, y, e \in Int : x = N * q - K * D /\ y = K * D - N * q /\ e = (T + 1) * z
        OBVIOUS
      <4>2. x < W /\ y < W /\ W < e
        BY <3>15, <3>17, <3>18, <4>1
      <4>3. x < e /\ y < e
        BY <4>2
      <4> QED
        BY <3>14, <4>1, <4>3
    <3>20. Absolute(Quotient(N, D) - Quotient(K, q)) <= T + 1
      BY <3>10, <3>19, Truncated
    <3>21. ASSUME p <= q PROVE T <= Resolution
      <4>1. PICK R \in Nat : R = (2 * M) \div D /\ 2 * M < (R + 1) * D
        BY <3>10, Divided
      <4>2. Resolution = R
        BY <3>2, <3>9, <3>11, <4>1 DEF Resolution
      <4>3. W <= (2 * M) * q /\ T * z <= W
        <5>1. (p + q) * M <= (2 * q) * M
          BY <3>21
        <5>2. T * z <= W
          BY <3>15, Divided
        <5> QED
          BY <3>14, <5>1, <5>2
      <4>4. (2 * M) * q < ((R + 1) * D) * q
        <5>1. \A x, y \in Int : x < y => x * q < y * q
          OBVIOUS
        <5>2. 2 * M \in Int /\ (R + 1) * D \in Int
          OBVIOUS
        <5> QED
          BY <4>1, <5>1, <5>2
      <4>5. T * z < (R + 1) * z
        BY <3>14, <4>3, <4>4
      <4>6. T < R + 1
        BY <4>5
      <4> QED
        BY <4>2, <4>6
    <3> QED
      BY <3>5, <3>13, <3>16, <3>20, <3>21
  <2> QED
    BY <2>5, <2>6 DEF RateIsRead
<1> QED
  BY <1>1, ClockAtFirst, ClockStep, PTL DEF CSpec
=============================================================================
