---------------------------- MODULE HandleSpace ----------------------------
(***************************************************************************)
(* One recipient's private naming of the projectiles it is shown:          *)
(* HandleSpace of protocol/src/handles.rs, fed once a tick from the arena  *)
(* of sim/src/state.rs by Match::tick (server/src/lib.rs).                 *)
(*                                                                         *)
(* A projectile is its global handle, how long it has left, and a label,   *)
(* which is history: handles can come round again, labels do not.  Which   *)
(* projectiles hit something and which the recipient sees is any choice.   *)
(***************************************************************************)
EXTENDS Integers, Sequences, FiniteSets

CONSTANTS
  PROJECTILE_ID_BASE,  \* 1000 in the code
  ID_MAX,              \* u16::MAX, for global and for local handles
  MAX_PROJECTILES,     \* slots of the arena
  Lifetime,            \* skillshot_lifetime_ticks
  PerTick,             \* bound: casts in one tick
  MaxCasts             \* bound: casts in a match

(* What the constants satisfy, assumed where the module is used.           *)
HandleConstants ==
  /\ PROJECTILE_ID_BASE \in Nat
  /\ ID_MAX \in Nat /\ PROJECTILE_ID_BASE <= ID_MAX
  /\ MAX_PROJECTILES \in Nat \ {0}
  /\ Lifetime \in Nat \ {0}
  /\ PerTick \in Nat /\ MaxCasts \in Nat
  /\ PerTick * Lifetime <= ID_MAX - PROJECTILE_ID_BASE + 1
     \* handles do not come round within a lifetime: 9 * 45 against 64536

VARIABLES
  arena,               \* projectiles in flight
  next_projectile_id,  \* the match's counter
  named, next,         \* HandleSpace
  view,                \* the last view: label -> local handle
  told,                \* history: every <<label, local>> ever shown
  omitted,             \* history: labels seen and left out of that view
  casts                \* history: labels given out

vars == <<arena, next_projectile_id, named, next, view, told, omitted, casts>>

-----------------------------------------------------------------------------

Ids    == PROJECTILE_ID_BASE..ID_MAX
Live   == {p.id : p \in arena}
Labels == {p.label : p \in arena}

Init ==
  /\ arena = {}
  /\ next_projectile_id = PROJECTILE_ID_BASE
  /\ named = [id \in {} |-> 0]
  /\ next = PROJECTILE_ID_BASE
  /\ view = [l \in {} |-> 0]
  /\ told = {}
  /\ omitted = {}
  /\ casts = 0

(* allocate_projectile_id: the handle of the i-th cast from here on.       *)
Allocated(i) ==
  PROJECTILE_ID_BASE
    + ((next_projectile_id - PROJECTILE_ID_BASE + i - 1) % (ID_MAX - PROJECTILE_ID_BASE + 1))

(* cast_skillshot and Projectiles::insert: a cast with no free slot is     *)
(* refused before it is given a handle.                                    *)
Fits(new) ==
  LET free == MAX_PROJECTILES - Cardinality(arena)
  IN  IF Len(new) < free THEN Len(new) ELSE free

Launched(new) ==
  arena \cup {[id |-> Allocated(i), label |-> new[i], left |-> Lifetime] : i \in 1..Fits(new)}

(* advance_projectiles: everything flies one tick, and what hits, leaves   *)
(* the map or runs out is gone.                                            *)
Flown(projectiles, hit) ==
  {p \in {[q EXCEPT !.left = @ - 1] : q \in projectiles} : p.left > 0 /\ p.label \notin hit}

(* forget_departed.  The mutant forgets nothing.                           *)
KeptForever(live) == named
Kept(live) == [id \in DOMAIN named \cap live |-> named[id]]

(* local, over a view ordered by global handle: the new ones get the next  *)
(* local handles in that order, until the space is spent.                  *)
Fresh(seen, live) == seen \ DOMAIN Kept(live)

LocalAsGlobal(id, fresh) == id     \* mutant: the match's own handle

Local(id, fresh) == next + Cardinality({j \in fresh : j < id})

Named(seen, live) ==
  LET fresh   == Fresh(seen, live)
      granted == {id \in fresh : Local(id, fresh) <= ID_MAX}
  IN  [id \in DOMAIN Kept(live) \cup granted |->
         IF id \in DOMAIN Kept(live) THEN named[id] ELSE Local(id, fresh)]

(* The mutant: it stays where it is when the new ones do not all fit.     *)
IssuedIfAllFit(seen, live) ==
  LET n == next + Cardinality(Fresh(seen, live))
  IN  IF n <= ID_MAX + 1 THEN n ELSE next

Issued(seen, live) ==
  LET n == next + Cardinality(Fresh(seen, live))
  IN  IF n <= ID_MAX + 1 THEN n ELSE ID_MAX + 1

(* One tick: the arena moves on, then the view is projected and localized. *)
Tick(new, hit, seenLabels) ==
  LET flying == Flown(Launched(new), hit)
      live   == {p.id : p \in flying}
      seen   == {p \in flying : p.label \in seenLabels}
      names  == Named({p.id : p \in seen}, live)
      shown  == {p \in seen : p.id \in DOMAIN names}
  IN  /\ arena' = flying
      /\ next_projectile_id' = Allocated(Fits(new) + 1)
      /\ named' = names
      /\ next'  = Issued({p.id : p \in seen}, live)
      /\ view'  = [l \in {p.label : p \in shown} |->
                     names[(CHOOSE p \in shown : p.label = l).id]]
      /\ told'  = told \cup {<<l, view'[l]>> : l \in DOMAIN view'}
      /\ omitted' = {p.label : p \in seen \ shown}

Next ==
  \E n \in 0..PerTick :
    LET new == [i \in 1..n |-> casts + i]
        all == Labels \cup {casts + i : i \in 1..n}
    IN  /\ casts + n <= MaxCasts
        /\ casts' = casts + n
        /\ \E hit, seenLabels \in SUBSET all : Tick(new, hit, seenLabels)

Spec == Init /\ [][Next]_vars

-----------------------------------------------------------------------------

TypeOK ==
  /\ \A p \in arena :
       p.id \in Ids /\ p.left \in 1..Lifetime /\ p.label \in Int
  /\ next_projectile_id \in Ids
  /\ DOMAIN named \subseteq Ids /\ \A id \in DOMAIN named : named[id] \in Ids
  /\ next \in PROJECTILE_ID_BASE..ID_MAX + 1
  /\ \A l \in DOMAIN view : view[l] \in Ids

(* A projectile has one name for as long as it flies, in sight or out of   *)
(* it, and no two projectiles of a match ever had the same: also when the  *)
(* match's own handles come round again.  handles.rs: "no local handle is  *)
(* ever issued twice within a session"; forget_departed().                 *)
OneNameEach ==
  \A x, y \in told : (x[1] = y[1]) <=> (x[2] = y[2])

(* The map stays within the arena, however long the match.                 *)
(* handles.rs: "The map is pruned each tick".                              *)
NamesAreOfTheLive ==
  DOMAIN named \subseteq Live /\ Cardinality(DOMAIN named) <= MAX_PROJECTILES

(* Nothing the recipient sees is left out of a view while it has a name to *)
(* give.  handles.rs: local() and "The bound, and what happens at it".     *)
OmittedOnlyWhenSpent == omitted # {} => next > ID_MAX

(* The map's names and the counter, for the proof.                         *)
NamesInv ==
  /\ \A i, j \in DOMAIN named : named[i] = named[j] => i = j
  /\ \A id \in DOMAIN named : named[id] < next
=============================================================================
