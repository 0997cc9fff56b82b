---------------------------- MODULE HiddenCasts ----------------------------
(***************************************************************************)
(* Two matches that one recipient cannot tell apart, side by side: the     *)
(* same projectiles are shown to it in both, and what is cast out of its   *)
(* sight differs.  The channel handles.rs closes is the difference it      *)
(* could read off its handles; server/tests/traffic.rs states the property *)
(* over bytes, and samples it.                                             *)
(***************************************************************************)
EXTENDS Integers, Sequences, FiniteSets

CONSTANTS PROJECTILE_ID_BASE, ID_MAX, MAX_PROJECTILES, Lifetime, PerTick, MaxCasts

VARIABLES
  arena1, counter1, named1, next1, view1, told1, omitted1, hidden1,
  arena2, counter2, named2, next2, view2, told2, omitted2, hidden2,
  shared   \* casts the recipient may come to see, the same in both

one  == <<arena1, counter1, named1, next1, view1, told1, omitted1, hidden1>>
two  == <<arena2, counter2, named2, next2, view2, told2, omitted2, hidden2>>
casting == <<one, two, shared>>

One == INSTANCE HandleSpace WITH
  arena <- arena1, next_projectile_id <- counter1, named <- named1, next <- next1,
  view <- view1, told <- told1, omitted <- omitted1, casts <- hidden1

Two == INSTANCE HandleSpace WITH
  arena <- arena2, next_projectile_id <- counter2, named <- named2, next <- next2,
  view <- view2, told <- told2, omitted <- omitted2, casts <- hidden2

CastInit == One!Init /\ Two!Init /\ shared = 0

ASSUME BothHandleConstants == One!HandleConstants

(* A tick of one match: the shared casts, and hidden ones, labelled below  *)
(* zero, before or after them in seat order.                               *)
Orders(open, hidden) == {open \o hidden, hidden \o open}

HiddenFrom(n, k) == [i \in 1..k |-> -(n + i)]

InSight == {p.label : p \in {q \in arena1 : q.label > 0}}

(* The recipient sees the same in both, so whatever it may come to see     *)
(* lives and dies in both; hidden projectiles live as long as they do.     *)
(* The arena is never too narrow for what the cooldowns let through, which *)
(* state.rs asserts (MAX_PROJECTILES_IN_FLIGHT): no cast is dropped.       *)
CastNext ==
  \E n, k1, k2 \in 0..PerTick :
    LET open == [i \in 1..n |-> shared + i]
        all  == InSight \cup {shared + i : i \in 1..n}
    IN  /\ n + k1 <= PerTick /\ n + k2 <= PerTick
        /\ Cardinality(arena1) + n + k1 <= MAX_PROJECTILES
        /\ Cardinality(arena2) + n + k2 <= MAX_PROJECTILES
        /\ shared + n + hidden1 + k1 <= MaxCasts
        /\ shared + n + hidden2 + k2 <= MaxCasts
        /\ shared' = shared + n /\ hidden1' = hidden1 + k1 /\ hidden2' = hidden2 + k2
        /\ \E hit, seen \in SUBSET all :
             /\ \E new \in Orders(open, HiddenFrom(hidden1, k1)) : One!Tick(new, hit, seen)
             /\ \E new \in Orders(open, HiddenFrom(hidden2, k2)) : Two!Tick(new, hit, seen)

CastSpec == CastInit /\ [][CastNext]_casting

(* Neither match has given every handle out: after that they come round,   *)
(* and the order new projectiles are named in depends on where.  The code  *)
(* has 64536 of them and calls the counter monotone.                       *)
NoneCameRound ==
  \A hidden \in {hidden1, hidden2} :
    shared + hidden <= ID_MAX - PROJECTILE_ID_BASE + 1

(* The recipient is told the same names, whatever was cast out of its      *)
(* sight: handles.rs, "The only thing a recipient can read off its own     *)
(* handles is how many distinct projectiles it has been shown".            *)
HiddenCastsAreNotTold ==
  NoneCameRound => view1 = view2 /\ told1 = told2 /\ next1 = next2

(* What HandleSpace.tla says of one recipient, of the first.               *)
HandlesAreNames == One!OneNameEach /\ One!OmittedOnlyWhenSpent
=============================================================================
