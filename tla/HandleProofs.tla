---------------------------- MODULE HandleProofs ----------------------------
(***************************************************************************)
(* Proofs about one recipient's handles (HandleSpace.tla), for an arena, a *)
(* handle space and a lifetime of any size, and a match of any length.     *)
(*                                                                         *)
(* What could go wrong is a name outliving its projectile: the match's own *)
(* handles come round, and a projectile that is given one whose name was   *)
(* kept would be shown under it. That it does not needs how long ago a     *)
(* projectile in flight was given its handle (ArenaInv: no more casts than *)
(* fit in its lifetime), that the map names projectiles in flight only and *)
(* below its counter (NamedInv), and that whatever is in flight and was    *)
(* shown is still in the map, under the name it was shown with (ToldInv).  *)
(*                                                                         *)
(* The second half says what one tick does to the projectiles a recipient  *)
(* may come to see, by label; ClientProofs.tla sets two matches side by    *)
(* side with it.                                                           *)
(***************************************************************************)
EXTENDS HandleSpace, TLAPS, FiniteSetTheorems

(* How many handles there are, and what is in the arena.                   *)
N == ID_MAX - PROJECTILE_ID_BASE + 1

Projectiles == [id : Ids, label : Int, left : 1..Lifetime]

(* What every variable holds; the arena never exceeds its slots.           *)
HandleTypeOK ==
  /\ arena \subseteq Projectiles
  /\ IsFiniteSet(arena) /\ Cardinality(arena) <= MAX_PROJECTILES
  /\ next_projectile_id \in Ids
  /\ named \in [DOMAIN named -> Ids]
  /\ next \in PROJECTILE_ID_BASE..ID_MAX + 1
  /\ \A l \in DOMAIN view : view[l] \in Ids

(* How many handles ago a projectile was given its own.                    *)
Since(p) ==
  IF p.id < next_projectile_id THEN next_projectile_id - p.id
                               ELSE next_projectile_id - p.id + N

(* Nothing in flight has waited longer than its lifetime allows, and what  *)
(* is in flight is told apart by its handle and by its label.              *)
ArenaInv ==
  /\ \A p \in arena : Since(p) <= PerTick * (Lifetime - p.left)
  /\ \A p, q \in arena : p.id = q.id => p = q
  /\ \A p, q \in arena : p.label = q.label => p = q

(* Only projectiles in flight are in the map, with names of their own, all *)
(* below the counter (forget_departed, local).                             *)
NamedInv ==
  /\ DOMAIN named \subseteq Live
  /\ NamesInv

(* What was told is below the counter; whatever is in flight and in the    *)
(* map has been told by the name it has, and by no other.                  *)
ToldInv ==
  /\ \A x \in told : x[2] \in Int /\ x[2] < next
  /\ \A p \in arena : p.id \in DOMAIN named => <<p.label, named[p.id]>> \in told
  /\ \A p \in arena, x \in told :
       x[1] = p.label => p.id \in DOMAIN named /\ named[p.id] = x[2]

(* The inductive invariant.                                                *)
HInv ==
  /\ HandleTypeOK /\ ArenaInv /\ NamedInv /\ ToldInv
  /\ OneNameEach /\ OmittedOnlyWhenSpent

(* What is cast in a tick: under labels nothing in flight has, and nothing *)
(* the recipient was ever told of.                                         *)
New(new) ==
  /\ new \in Seq(Int) /\ Len(new) <= PerTick
  /\ \A i, j \in DOMAIN new : new[i] = new[j] => i = j
  /\ \A i \in DOMAIN new : new[i] \notin Labels
  /\ \A i \in DOMAIN new : \A x \in told : x[1] # new[i]
-----------------------------------------------------------------------------
(* Handles.                                                                *)

LEMMA ModOnce ==
  ASSUME NEW n \in Nat \ {0}, NEW a \in 0..(2*n - 1)
  PROVE  a % n = IF a < n THEN a ELSE a - n
  OBVIOUS

LEMMA ConstantFacts ==
  ASSUME HandleConstants
  PROVE  /\ N \in Nat \ {0} /\ PerTick <= N /\ ID_MAX \in Nat /\ PROJECTILE_ID_BASE \in Nat
         /\ N = ID_MAX - PROJECTILE_ID_BASE + 1
         /\ PerTick \in Nat /\ Lifetime \in Nat \ {0} /\ MAX_PROJECTILES \in Nat \ {0}
         /\ PerTick * Lifetime <= N
<1>1. N \in Nat \ {0} /\ PerTick * Lifetime <= N
  BY DEF HandleConstants, N
<1>2. PerTick <= PerTick * Lifetime
  <2>1. \A a, b \in Nat : b # 0 => a <= a * b
    OBVIOUS
  <2> QED
    BY <2>1 DEF HandleConstants
<1>3. PerTick * Lifetime \in Nat
  BY DEF HandleConstants
<1> QED
  BY <1>1, <1>2, <1>3 DEF HandleConstants, N

LEMMA AllocatedIs ==
  ASSUME HandleConstants, next_projectile_id \in Ids, NEW i \in 1..(N + 1)
  PROVE  /\ Allocated(i) \in Ids
         /\ Allocated(i) = IF next_projectile_id + i - 1 <= ID_MAX
                           THEN next_projectile_id + i - 1
                           ELSE next_projectile_id + i - 1 - N
<1> DEFINE a == next_projectile_id - PROJECTILE_ID_BASE + i - 1
<1>1. a \in 0..(2 * N - 1)
  BY ConstantFacts DEF Ids
<1>2. a % N = IF a < N THEN a ELSE a - N
  BY <1>1, ConstantFacts, ModOnce
<1>3. Allocated(i) = PROJECTILE_ID_BASE + (a % N)
  BY DEF Allocated, N
<1> QED
  BY <1>1, <1>2, <1>3, ConstantFacts DEF Ids

(* Nothing in flight has waited so long that its handle comes round.       *)
LEMMA NotYetRound ==
  ASSUME HandleConstants, HandleTypeOK, ArenaInv, NEW p \in arena
  PROVE  /\ Since(p) \in 1..(N - PerTick)
         /\ Since(p) <= PerTick * (Lifetime - p.left)
         /\ PerTick * (Lifetime - (p.left - 1)) = PerTick * (Lifetime - p.left) + PerTick
<1>1. p.id \in Ids /\ p.left \in 1..Lifetime
  BY DEF HandleTypeOK, Projectiles
<1>2. Since(p) \in Nat \ {0}
  BY <1>1, ConstantFacts DEF Since, Ids, HandleTypeOK
<1>3. PerTick * (Lifetime - p.left) <= N - PerTick
  <2>1. \A t, l, k \in Nat : k >= 1 /\ k <= l => t * (l - k) + t <= t * l
    <3> SUFFICES ASSUME NEW t \in Nat, NEW l \in Nat, NEW k \in Nat, k >= 1, k <= l
                 PROVE  t * (l - k) + t <= t * l
      OBVIOUS
    <3>1. PICK d \in Nat : l - k = d /\ d + 1 <= l
      OBVIOUS
    <3>2. t * d + t = t * (d + 1)
      OBVIOUS
    <3>3. t * (d + 1) <= t * l
      BY <3>1
    <3> QED
      BY <3>1, <3>2, <3>3
  <2> QED
    BY <2>1, <1>1, ConstantFacts
<1>4. Since(p) <= PerTick * (Lifetime - p.left)
  BY DEF ArenaInv
<1>5. PerTick * (Lifetime - (p.left - 1)) = PerTick * (Lifetime - p.left) + PerTick
  <2>1. \A t, d \in Nat : t * (d + 1) = t * d + t
    OBVIOUS
  <2>2. Lifetime - p.left \in Nat /\ Lifetime - (p.left - 1) = (Lifetime - p.left) + 1
    BY <1>1, ConstantFacts
  <2> QED
    BY <2>1, <2>2, ConstantFacts
<1>6. PerTick * (Lifetime - p.left) \in Int
  BY <1>1, ConstantFacts
<1> QED
  BY <1>2, <1>3, <1>4, <1>5, <1>6, ConstantFacts

LEMMA HandlesAreFree ==
  ASSUME HandleConstants, HandleTypeOK, ArenaInv, NEW i \in 1..PerTick
  PROVE  /\ Allocated(i) \in Ids
         /\ \A p \in arena : p.id # Allocated(i)
         /\ \A j \in 1..PerTick : Allocated(i) = Allocated(j) => i = j
<1>1. next_projectile_id \in Ids
  BY DEF HandleTypeOK
<1>2. ASSUME NEW p \in arena PROVE p.id # Allocated(i)
  <2>1. p.id \in Ids
    BY DEF HandleTypeOK, Projectiles
  <2> QED
    BY <1>1, <2>1, AllocatedIs, NotYetRound, ConstantFacts DEF Since, Ids
<1>3. ASSUME NEW j \in 1..PerTick, Allocated(i) = Allocated(j) PROVE i = j
  BY <1>1, <1>3, AllocatedIs, ConstantFacts DEF Ids
<1> QED
  BY <1>1, <1>2, <1>3, AllocatedIs, ConstantFacts
-----------------------------------------------------------------------------
(* The arena.                                                              *)

(* A projectile as it is cast, and one tick later.                         *)
Cast(new, i) == [id |-> Allocated(i), label |-> new[i], left |-> Lifetime]
After(p) == [id |-> p.id, label |-> p.label, left |-> p.left - 1]

LEMMA FitsIs ==
  ASSUME HandleConstants, HandleTypeOK, NEW new \in Seq(Int), Len(new) <= PerTick
  PROVE  /\ Fits(new) \in 0..PerTick /\ Fits(new) \in 0..Len(new)
         /\ Cardinality(arena) + Fits(new) <= MAX_PROJECTILES
         /\ Cardinality(arena) + Len(new) <= MAX_PROJECTILES => Fits(new) = Len(new)
<1>1. Cardinality(arena) \in Nat
  BY FS_CardinalityType DEF HandleTypeOK
<1>2. Cardinality(arena) <= MAX_PROJECTILES /\ MAX_PROJECTILES \in Nat /\ PerTick \in Nat
  BY ConstantFacts DEF HandleTypeOK
<1>3. Len(new) \in Nat
  OBVIOUS
<1>4. Fits(new) = IF Len(new) < MAX_PROJECTILES - Cardinality(arena)
                  THEN Len(new) ELSE MAX_PROJECTILES - Cardinality(arena)
  BY DEF Fits
<1> QED
  BY <1>1, <1>2, <1>3, <1>4

LEMMA LaunchedIs ==
  ASSUME HandleConstants, HandleTypeOK, NEW new \in Seq(Int), Len(new) <= PerTick
  PROVE  /\ Launched(new) = arena \cup {Cast(new, i) : i \in 1..Fits(new)}
         /\ Launched(new) \subseteq Projectiles
         /\ IsFiniteSet(Launched(new)) /\ Cardinality(Launched(new)) <= MAX_PROJECTILES
<1> DEFINE casted == {Cast(new, i) : i \in 1..Fits(new)}
<1>1. Fits(new) \in 0..PerTick /\ Fits(new) \in 0..Len(new)
  BY FitsIs
<1>2. Launched(new) = arena \cup casted
  BY DEF Launched, Cast
<1>3. casted \subseteq Projectiles
  <2> SUFFICES ASSUME NEW i \in 1..Fits(new) PROVE Cast(new, i) \in Projectiles
    OBVIOUS
  <2>1. i \in 1..(N + 1) /\ i \in DOMAIN new
    BY <1>1, ConstantFacts, SMTT(30)
  <2>2. Allocated(i) \in Ids
    BY <2>1, AllocatedIs DEF HandleTypeOK
  <2>3. new[i] \in Int
    BY <2>1
  <2> QED
    BY <2>2, <2>3, ConstantFacts DEF Cast, Projectiles
<1>4. IsFiniteSet(casted) /\ Cardinality(casted) <= Fits(new)
  <2> DEFINE f == [i \in 1..Fits(new) |-> Cast(new, i)]
  <2>1. f \in Surjection(1..Fits(new), casted)
    BY DEF Surjection
  <2>2. IsFiniteSet(1..Fits(new)) /\ Cardinality(1..Fits(new)) = Fits(new)
    BY <1>1, FS_Interval
  <2> QED
    BY <2>1, <2>2, FS_Surjection
<1>5. Cardinality(casted) \in Nat /\ Cardinality(arena) \in Nat /\ Cardinality(arena \cap casted) \in Nat
  BY <1>4, FS_CardinalityType, FS_Intersection DEF HandleTypeOK
<1>6. IsFiniteSet(arena \cup casted)
      /\ Cardinality(arena \cup casted) = Cardinality(arena) + Cardinality(casted) - Cardinality(arena \cap casted)
  BY <1>4, FS_Union DEF HandleTypeOK
<1>7. Cardinality(arena) + Fits(new) <= MAX_PROJECTILES
  BY FitsIs
<1> HIDE DEF casted
<1>8. arena \subseteq Projectiles
  BY DEF HandleTypeOK
<1>9. Cardinality(arena \cup casted) <= MAX_PROJECTILES
  BY <1>1, <1>4, <1>5, <1>6, <1>7, ConstantFacts, SMTT(30)
<1> QED
  BY <1>2, <1>3, <1>6, <1>8, <1>9 DEF casted

LEMMA LaunchedApart ==
  ASSUME HandleConstants, HandleTypeOK, ArenaInv, NEW new, New(new)
  PROVE  /\ \A p, q \in Launched(new) : p.id = q.id => p = q
         /\ \A p, q \in Launched(new) : p.label = q.label => p = q
         /\ \A p \in Launched(new) \ arena : p.id \notin Live /\ p.label \notin Labels
<1>0. new \in Seq(Int) /\ Len(new) <= PerTick
  BY DEF New
<1>1. Fits(new) \in 0..PerTick /\ Fits(new) \in 0..Len(new)
  BY <1>0, FitsIs
<1>2. Launched(new) = arena \cup {Cast(new, i) : i \in 1..Fits(new)}
  BY <1>0, LaunchedIs
<1>3. ASSUME NEW i \in 1..Fits(new)
      PROVE  /\ i \in 1..PerTick /\ i \in DOMAIN new
             /\ Cast(new, i).id = Allocated(i) /\ Cast(new, i).label = new[i]
             /\ \A p \in arena : p.id # Allocated(i) /\ p.label # new[i]
             /\ \A j \in 1..Fits(new) : Allocated(i) = Allocated(j) \/ new[i] = new[j] => i = j
  <2>1. i \in 1..PerTick /\ i \in DOMAIN new
    BY <1>0, <1>1, ConstantFacts
  <2>2. \A p \in arena : p.id # Allocated(i)
    BY <2>1, HandlesAreFree
  <2>3. \A p \in arena : p.label # new[i]
    BY <2>1 DEF New, Labels
  <2>4. ASSUME NEW j \in 1..Fits(new) PROVE Allocated(i) = Allocated(j) \/ new[i] = new[j] => i = j
    <3>1. j \in 1..PerTick /\ j \in DOMAIN new
      BY <1>0, <1>1, ConstantFacts, SMTT(30)
    <3> QED
      BY <2>1, <3>1, HandlesAreFree DEF New
  <2> QED
    BY <2>1, <2>2, <2>3, <2>4 DEF Cast
<1>4. \A p, q \in arena : (p.id = q.id => p = q) /\ (p.label = q.label => p = q)
  BY DEF ArenaInv
<1>5. ASSUME NEW p \in Launched(new), NEW q \in Launched(new), p.id = q.id \/ p.label = q.label
      PROVE  p = q
  BY <1>2, <1>3, <1>4, <1>5
<1>6. ASSUME NEW p \in Launched(new) \ arena PROVE p.id \notin Live /\ p.label \notin Labels
  <2>1. PICK i \in 1..Fits(new) : p = Cast(new, i)
    BY <1>2
  <2> QED
    BY <1>3, <2>1 DEF Live, Labels
<1> QED
  BY <1>5, <1>6

LEMMA FlownIs ==
  ASSUME NEW S, S \subseteq Projectiles, NEW hit
  PROVE  Flown(S, hit) = {After(p) : p \in {q \in S : q.left > 1 /\ q.label \notin hit}}
<1> DEFINE T == {[q EXCEPT !.left = @ - 1] : q \in S}
<1>1. \A q \in S : [q EXCEPT !.left = @ - 1] = After(q)
  BY DEF Projectiles, After
<1>2. T = {After(q) : q \in S}
  BY <1>1
<1>3. \A q \in S : After(q).left = q.left - 1 /\ After(q).label = q.label /\ q.left \in Int
  BY DEF After, Projectiles
<1>4. Flown(S, hit) = {p \in T : p.left > 0 /\ p.label \notin hit}
  BY DEF Flown
<1> HIDE DEF T
<1>5. ASSUME NEW p \in T, p.left > 0 /\ p.label \notin hit
      PROVE  p \in {After(q) : q \in {q \in S : q.left > 1 /\ q.label \notin hit}}
  <2>1. PICK q \in S : p = After(q)
    BY <1>2
  <2>2. q.left > 1 /\ q.label \notin hit
    BY <1>3, <1>5, <2>1
  <2> QED
    BY <2>1, <2>2
<1>6. ASSUME NEW q \in S, q.left > 1 /\ q.label \notin hit
      PROVE  After(q) \in T /\ After(q).left > 0 /\ After(q).label \notin hit
  BY <1>2, <1>3, <1>6
<1> QED
  BY <1>4, <1>5, <1>6

(* What flies after a tick flew before it or was cast in it, is one tick   *)
(* older, and is told apart by its handle and by its label.                *)
LEMMA FlyingIs ==
  ASSUME HandleConstants, HandleTypeOK, ArenaInv, NEW new, New(new), NEW hit,
         NEW flying, flying = Flown(Launched(new), hit)
  PROVE  /\ flying \subseteq [id : Ids, label : Int, left : 1..(Lifetime - 1)]
         /\ IsFiniteSet(flying) /\ Cardinality(flying) <= MAX_PROJECTILES
         /\ \A p \in flying : \E q \in Launched(new) : p = After(q) /\ q.label \notin hit
         /\ \A p, q \in flying : p.id = q.id => p = q
         /\ \A p, q \in flying : p.label = q.label => p = q
<1>0. new \in Seq(Int) /\ Len(new) <= PerTick
  BY DEF New
<1>1. Launched(new) \subseteq Projectiles /\ IsFiniteSet(Launched(new)) /\ Cardinality(Launched(new)) <= MAX_PROJECTILES
  BY <1>0, LaunchedIs
<1> DEFINE on == {q \in Launched(new) : q.left > 1 /\ q.label \notin hit}
<1>2. flying = {After(p) : p \in on}
  BY <1>1, FlownIs
<1>3. IsFiniteSet(on) /\ Cardinality(on) <= MAX_PROJECTILES
  <2>1. Cardinality(Launched(new)) \in Nat
    BY <1>1, FS_CardinalityType
  <2>2. IsFiniteSet(on) /\ Cardinality(on) <= Cardinality(Launched(new))
    BY <1>1, FS_Subset
  <2> QED
    BY <2>1, <2>2, <1>1, FS_CardinalityType, ConstantFacts
<1>4. IsFiniteSet(flying) /\ Cardinality(flying) <= MAX_PROJECTILES
  <2> DEFINE f == [p \in on |-> After(p)]
  <2>1. f \in Surjection(on, flying)
    BY <1>2 DEF Surjection
  <2>2. IsFiniteSet(flying) /\ Cardinality(flying) <= Cardinality(on)
    BY <1>3, <2>1, FS_Surjection
  <2> QED
    BY <1>3, <2>2, FS_CardinalityType, ConstantFacts
<1>5. \A q \in on : /\ q \in Launched(new) /\ q.label \notin hit
                    /\ After(q) \in [id : Ids, label : Int, left : 1..(Lifetime - 1)]
                    /\ After(q).id = q.id /\ After(q).label = q.label
  BY <1>1, ConstantFacts DEF After, Projectiles
<1> HIDE DEF on
<1>6. ASSUME NEW p \in flying, NEW q \in flying, p.id = q.id \/ p.label = q.label PROVE p = q
  <2>1. PICK a \in on, b \in on : p = After(a) /\ q = After(b)
    BY <1>2
  <2>2. a.id = b.id \/ a.label = b.label
    BY <1>5, <1>6, <2>1
  <2>3. a = b
    BY <1>5, <2>2, LaunchedApart
  <2> QED
    BY <2>1, <2>3
<1> QED
  BY <1>2, <1>4, <1>5, <1>6

LEMMA ArenaStep ==
  ASSUME HandleConstants, HandleTypeOK, ArenaInv, NEW new, New(new), NEW hit,
         arena' = Flown(Launched(new), hit), next_projectile_id' = Allocated(Fits(new) + 1)
  PROVE  ArenaInv' /\ next_projectile_id' \in Ids
<1>0. new \in Seq(Int) /\ Len(new) <= PerTick
  BY DEF New
<1>1. Fits(new) \in 0..PerTick
  BY <1>0, FitsIs
<1>2. next_projectile_id \in Ids
  BY DEF HandleTypeOK
<1>3. Launched(new) = arena \cup {Cast(new, i) : i \in 1..Fits(new)}
  BY <1>0, LaunchedIs
<1>4. /\ \A p \in arena' : \E q \in Launched(new) : p = After(q) /\ q.label \notin hit
      /\ \A p, q \in arena' : p.id = q.id => p = q
      /\ \A p, q \in arena' : p.label = q.label => p = q
  BY FlyingIs
<1>5. /\ next_projectile_id' \in Ids
      /\ next_projectile_id' = IF next_projectile_id + Fits(new) <= ID_MAX
                               THEN next_projectile_id + Fits(new)
                               ELSE next_projectile_id + Fits(new) - N
  <2>1. Fits(new) + 1 \in 1..(N + 1)
    BY <1>1, ConstantFacts
  <2> QED
    BY <1>1, <1>2, <2>1, AllocatedIs, ConstantFacts
<1>6. ASSUME NEW p \in arena'
      PROVE  Since(p)' <= PerTick * (Lifetime - p.left)
  <2>1. PICK q \in Launched(new) : p = After(q)
    BY <1>4
  <2>2. p.id = q.id /\ p.left = q.left - 1
    BY <2>1 DEF After
  <2>3. CASE q \in arena
    <3>1. q.id \in Ids
      BY <2>3 DEF HandleTypeOK, Projectiles
    <3>2. Since(q) \in 1..(N - PerTick) /\ Since(q) <= PerTick * (Lifetime - q.left)
      BY <2>3, NotYetRound
    <3>a. /\ N \in Nat /\ PerTick \in Nat /\ PROJECTILE_ID_BASE \in Nat /\ ID_MAX \in Nat
          /\ N = ID_MAX - PROJECTILE_ID_BASE + 1
      BY ConstantFacts
    <3>3. Since(p)' = Since(q) + Fits(new)
      <4>1. Since(p)' = IF q.id < next_projectile_id' THEN next_projectile_id' - q.id
                                                      ELSE next_projectile_id' - q.id + N
        BY <2>2 DEF Since, N
      <4>2. Since(q) = IF q.id < next_projectile_id THEN next_projectile_id - q.id
                                                    ELSE next_projectile_id - q.id + N
        BY DEF Since
      <4> QED
        BY <1>1, <1>2, <1>5, <3>1, <3>2, <3>a, <4>1, <4>2 DEF Ids
    <3>4. PerTick * (Lifetime - (q.left - 1)) = PerTick * (Lifetime - q.left) + PerTick
      BY <2>3, NotYetRound
    <3>5. PerTick * (Lifetime - q.left) \in Int
      BY <2>3, ConstantFacts DEF HandleTypeOK, Projectiles
    <3> QED
      BY <1>1, <2>2, <3>2, <3>3, <3>4, <3>5, ConstantFacts
  <2>4. ASSUME NEW i \in 1..Fits(new), q = Cast(new, i) PROVE Since(p)' <= PerTick * (Lifetime - p.left)
    <3>1. q.id = Allocated(i) /\ q.left = Lifetime /\ p.left = Lifetime - 1
      BY <2>2, <2>4 DEF Cast
    <3>2. i \in 1..(N + 1)
      BY <1>1, ConstantFacts
    <3>3. Since(p)' = Fits(new) - i + 1
      BY <1>1, <1>2, <1>5, <2>2, <3>1, <3>2, AllocatedIs, ConstantFacts DEF Since, Ids
    <3>4. PerTick * (Lifetime - p.left) = PerTick
      <4>1. Lifetime - p.left = 1
        BY <3>1, ConstantFacts
      <4> QED
        BY <4>1, ConstantFacts
    <3> QED
      BY <1>1, <3>3, <3>4, ConstantFacts
  <2> QED
    BY <1>3, <2>1, <2>3, <2>4
<1> QED
  BY <1>4, <1>5, <1>6 DEF ArenaInv
-----------------------------------------------------------------------------
(* Names.                                                                  *)

(* A name is the counter and the number of new ones before it.             *)
Below(i, S) == {j \in S : j < i}

LEMMA Ranks ==
  ASSUME NEW S, S \subseteq Int, IsFiniteSet(S)
  PROVE  /\ Cardinality(S) \in Nat
         /\ \A i : IsFiniteSet(Below(i, S)) /\ Cardinality(Below(i, S)) \in Nat
         /\ \A i \in S : Cardinality(Below(i, S)) \in 0..(Cardinality(S) - 1)
         /\ \A i, k \in S : i < k => Cardinality(Below(i, S)) < Cardinality(Below(k, S))
<1>1. \A i : IsFiniteSet(Below(i, S)) /\ Cardinality(Below(i, S)) \in Nat
  BY FS_Subset, FS_CardinalityType DEF Below
<1>2. Cardinality(S) \in Nat
  BY FS_CardinalityType
<1>3. ASSUME NEW T, IsFiniteSet(T), NEW U \in SUBSET T, NEW i \in T, i \notin U
      PROVE  Cardinality(U) < Cardinality(T)
  <2>1. Cardinality(U) <= Cardinality(T) /\ (Cardinality(T) = Cardinality(U) => T = U)
    BY <1>3, FS_Subset
  <2>2. Cardinality(U) \in Nat /\ Cardinality(T) \in Nat
    BY <1>3, FS_Subset, FS_CardinalityType
  <2> QED
    BY <1>3, <2>1, <2>2
<1>4. ASSUME NEW i \in S PROVE Cardinality(Below(i, S)) < Cardinality(S)
  <2>1. ~ (i < i)
    OBVIOUS
  <2>2. Below(i, S) \in SUBSET S /\ i \notin Below(i, S)
    BY <2>1 DEF Below
  <2> QED
    BY <1>3, <2>2
<1>5. ASSUME NEW i \in S, NEW k \in S, i < k
      PROVE  Cardinality(Below(i, S)) < Cardinality(Below(k, S))
  <2>1. i \in Below(k, S)
    BY <1>5 DEF Below
  <2>2. i \notin Below(i, S)
    BY DEF Below
  <2>3. \A j \in S : j < i => j < k
    BY <1>5
  <2>4. Below(i, S) \in SUBSET Below(k, S)
    BY <2>3 DEF Below
  <2> QED
    BY <1>1, <1>3, <2>1, <2>2, <2>4
<1> QED
  BY <1>1, <1>2, <1>4, <1>5

(* What the map holds after a tick, and where the counter is: names kept   *)
(* while they fly, and new ones from the counter on.                       *)
NamedAs(names, issued, live, fresh) ==
  /\ \A id : id \in DOMAIN names <=>
               \/ id \in DOMAIN named /\ id \in live
               \/ id \in fresh /\ Local(id, fresh) <= ID_MAX
  /\ \A id \in DOMAIN named \cap live : names[id] = named[id]
  /\ \A id \in fresh : Local(id, fresh) <= ID_MAX => names[id] = Local(id, fresh)
  /\ \A id \in fresh : Local(id, fresh) \in Int /\ next <= Local(id, fresh)
  /\ \A i, j \in fresh : Local(i, fresh) = Local(j, fresh) => i = j
  /\ issued \in next..(ID_MAX + 1)
  /\ \A id \in fresh : Local(id, fresh) <= ID_MAX => Local(id, fresh) < issued
  /\ \A id \in fresh : Local(id, fresh) > ID_MAX => issued > ID_MAX

LEMMA NamedIs ==
  ASSUME HandleConstants, HandleTypeOK, NamesInv, NEW seen, NEW live,
         seen \subseteq live, live \subseteq Ids, IsFiniteSet(live),
         NEW fresh, fresh = seen \ DOMAIN named
  PROVE  /\ Fresh(seen, live) = fresh
         /\ NamedAs(Named(seen, live), Issued(seen, live), live, fresh)
<1>1. DOMAIN Kept(live) = DOMAIN named \cap live
  BY DEF Kept
<1>2. Fresh(seen, live) = fresh
  BY <1>1 DEF Fresh
<1>3. fresh \subseteq Int /\ IsFiniteSet(fresh) /\ next \in Int /\ next \in PROJECTILE_ID_BASE..ID_MAX + 1
  BY FS_Subset, ConstantFacts DEF HandleTypeOK, Ids
<1>4. /\ Cardinality(fresh) \in Nat
      /\ \A i \in fresh : Cardinality(Below(i, fresh)) \in 0..(Cardinality(fresh) - 1)
      /\ \A i, k \in fresh : i < k => Cardinality(Below(i, fresh)) < Cardinality(Below(k, fresh))
  BY <1>3, Ranks
<1>a. \A id : Local(id, fresh) = next + Cardinality(Below(id, fresh))
  BY DEF Local, Below
<1>5. ASSUME NEW id \in fresh
      PROVE  Local(id, fresh) \in Int /\ next <= Local(id, fresh) /\ Local(id, fresh) < next + Cardinality(fresh)
  <2>1. Cardinality(Below(id, fresh)) \in 0..(Cardinality(fresh) - 1) /\ Cardinality(fresh) \in Nat
    BY <1>4
  <2>2. next \in Int
    BY <1>3
  <2> QED
    BY <1>a, <2>1, <2>2
<1>6. \A i, j \in fresh : Local(i, fresh) = Local(j, fresh) => i = j
  <2>0. \A i \in fresh : i \in Int /\ Local(i, fresh) \in Int
    BY <1>3, <1>4, <1>5
  <2> SUFFICES ASSUME NEW i \in fresh, NEW j \in fresh, i < j PROVE Local(i, fresh) < Local(j, fresh)
    BY <2>0
  <2>1. /\ Cardinality(Below(i, fresh)) < Cardinality(Below(j, fresh))
        /\ Cardinality(Below(i, fresh)) \in Int /\ Cardinality(Below(j, fresh)) \in Int
    BY <1>4
  <2> QED
    BY <1>3, <1>a, <2>1
<1>7. Issued(seen, live) = IF next + Cardinality(fresh) <= ID_MAX + 1 THEN next + Cardinality(fresh) ELSE ID_MAX + 1
  BY <1>2 DEF Issued
<1>8. /\ DOMAIN Named(seen, live) = (DOMAIN named \cap live) \cup {id \in fresh : Local(id, fresh) <= ID_MAX}
      /\ \A id \in DOMAIN named \cap live : Named(seen, live)[id] = named[id]
      /\ \A id \in fresh : Local(id, fresh) <= ID_MAX => Named(seen, live)[id] = Local(id, fresh)
  BY <1>1, <1>2 DEF Named
<1>9. Issued(seen, live) \in next..(ID_MAX + 1)
  <2>1. next \in Int /\ next <= ID_MAX + 1 /\ ID_MAX \in Nat
    BY <1>3, ConstantFacts
  <2>2. Cardinality(fresh) \in Nat
    BY <1>4
  <2> QED
    BY <1>7, <2>1, <2>2
<1>10. ASSUME NEW id \in fresh
       PROVE  /\ Local(id, fresh) <= ID_MAX => Local(id, fresh) < Issued(seen, live)
              /\ Local(id, fresh) > ID_MAX => Issued(seen, live) > ID_MAX
  <2>1. next \in Int /\ ID_MAX \in Nat /\ Cardinality(fresh) \in Nat
    BY <1>3, <1>4, ConstantFacts
  <2>2. Local(id, fresh) \in Int /\ Local(id, fresh) < next + Cardinality(fresh)
    BY <1>5
  <2> QED
    BY <1>7, <2>1, <2>2
<1> QED
  BY <1>2, <1>5, <1>6, <1>8, <1>9, <1>10 DEF NamedAs
-----------------------------------------------------------------------------
(* One tick.                                                               *)

(* What the recipient sees, and what of it has a name.                     *)
Sight(seenLabels) == {p \in arena : p.label \in seenLabels}
Shown(seenLabels) == {p \in arena : p.label \in seenLabels /\ p.id \in DOMAIN named}

(* A tick, by what is in the arena and in the map when it ends.            *)
LEMMA TickIs ==
  ASSUME HandleConstants, HInv, NEW new, New(new), NEW hit, NEW seenLabels, Tick(new, hit, seenLabels)
  PROVE  /\ arena' = Flown(Launched(new), hit)
         /\ next_projectile_id' = Allocated(Fits(new) + 1)
         /\ named' = Named({p.id : p \in Sight(seenLabels)'}, Live')
         /\ next' = Issued({p.id : p \in Sight(seenLabels)'}, Live')
         /\ DOMAIN view' = {p.label : p \in Shown(seenLabels)'}
         /\ view' = [l \in DOMAIN view' |-> view'[l]]
         /\ \A p \in Shown(seenLabels)' : view'[p.label] = named'[p.id]
         /\ told' = told \cup {<<p.label, named'[p.id]>> : p \in Shown(seenLabels)'}
         /\ omitted' = {p.label : p \in Sight(seenLabels)' \ Shown(seenLabels)'}
<1> DEFINE shown == Shown(seenLabels)'
<1>1. arena' = Flown(Launched(new), hit)
  BY DEF Tick
<1>2. Live' = {p.id : p \in arena'} /\ Sight(seenLabels)' = {p \in arena' : p.label \in seenLabels}
  BY DEF Live, Sight
<1>3. named' = Named({p.id : p \in Sight(seenLabels)'}, Live') /\ next' = Issued({p.id : p \in Sight(seenLabels)'}, Live')
  BY <1>1, <1>2 DEF Tick
<1>4. shown = {p \in Sight(seenLabels)' : p.id \in DOMAIN named'}
  BY DEF Shown, Sight
<1>5. /\ view' = [l \in {p.label : p \in shown} |-> named'[(CHOOSE p \in shown : p.label = l).id]]
      /\ told' = told \cup {<<l, view'[l]>> : l \in DOMAIN view'}
      /\ omitted' = {p.label : p \in Sight(seenLabels)' \ shown}
      /\ next_projectile_id' = Allocated(Fits(new) + 1)
  BY <1>1, <1>2, <1>3, <1>4 DEF Tick
<1>6. \A p, q \in shown : p.label = q.label => p = q
  <2>1. \A p, q \in arena' : p.label = q.label => p = q
    BY <1>1, FlyingIs DEF HInv
  <2> QED
    BY <2>1 DEF Shown
<1> HIDE DEF shown
<1>7. ASSUME NEW p \in shown PROVE view'[p.label] = named'[p.id]
  <2>1. (CHOOSE q \in shown : q.label = p.label) = p
    BY <1>6
  <2> QED
    BY <1>5, <2>1
<1>8. DOMAIN view' = {p.label : p \in shown} /\ view' = [l \in DOMAIN view' |-> view'[l]]
  BY <1>5
<1>9. {<<l, view'[l]>> : l \in DOMAIN view'} = {<<p.label, named'[p.id]>> : p \in shown}
  BY <1>7, <1>8
<1> QED
  BY <1>1, <1>3, <1>5, <1>7, <1>8, <1>9 DEF shown

(* The invariant survives it, and what the recipient is newly told is of   *)
(* what is now in flight.                                                  *)
LEMMA TickHolds ==
  ASSUME HandleConstants, HInv, NEW new, New(new), NEW hit, NEW seenLabels, Tick(new, hit, seenLabels)
  PROVE  /\ HInv'
         /\ \A p \in arena' : \E q \in Launched(new) : p = After(q) /\ q.label \notin hit
         /\ \A x \in told' : x \in told \/ x[1] \in Labels'
<1> DEFINE seen  == Sight(seenLabels)'
           shown == Shown(seenLabels)'
           ids   == {p.id : p \in seen}
           fresh == ids \ DOMAIN named
<1>0. HandleTypeOK /\ ArenaInv /\ NamedInv /\ NamesInv /\ ToldInv /\ OneNameEach
  BY DEF HInv, NamedInv
<1>1. /\ arena' = Flown(Launched(new), hit)
      /\ next_projectile_id' = Allocated(Fits(new) + 1)
      /\ named' = Named(ids, Live')
      /\ next' = Issued(ids, Live')
      /\ told' = told \cup {<<p.label, named'[p.id]>> : p \in shown}
      /\ omitted' = {p.label : p \in seen \ shown}
  BY TickIs
<1>2. /\ arena' \subseteq [id : Ids, label : Int, left : 1..(Lifetime - 1)]
      /\ IsFiniteSet(arena') /\ Cardinality(arena') <= MAX_PROJECTILES
      /\ \A p \in arena' : \E q \in Launched(new) : p = After(q) /\ q.label \notin hit
      /\ \A p, q \in arena' : p.id = q.id => p = q
      /\ \A p, q \in arena' : p.label = q.label => p = q
  BY <1>0, <1>1, FlyingIs
<1>3. Live' \subseteq Ids /\ IsFiniteSet(Live') /\ ids \subseteq Live'
  <2>1. Live' = {p.id : p \in arena'}
    BY DEF Live
  <2>2. IsFiniteSet(Live')
    <3> DEFINE f == [p \in arena' |-> p.id]
    <3>1. f \in Surjection(arena', Live')
      BY <2>1 DEF Surjection
    <3> QED
      BY <1>2, <3>1, FS_Surjection
  <2> QED
    BY <1>2, <2>1, <2>2 DEF Sight
<1>4. /\ \A id : id \in DOMAIN named' <=>
                   \/ id \in DOMAIN named /\ id \in Live'
                   \/ id \in fresh /\ Local(id, fresh) <= ID_MAX
      /\ \A id \in DOMAIN named \cap Live' : named'[id] = named[id]
      /\ \A id \in fresh : Local(id, fresh) <= ID_MAX => named'[id] = Local(id, fresh)
      /\ \A id \in fresh : Local(id, fresh) \in Int /\ next <= Local(id, fresh)
      /\ \A i, j \in fresh : Local(i, fresh) = Local(j, fresh) => i = j
      /\ next' \in next..(ID_MAX + 1)
      /\ \A id \in fresh : Local(id, fresh) <= ID_MAX => Local(id, fresh) < next'
      /\ \A id \in fresh : Local(id, fresh) > ID_MAX => next' > ID_MAX
  <2>1. fresh = ids \ DOMAIN named
    OBVIOUS
  <2> HIDE DEF ids, fresh
  <2>2. NamedAs(Named(ids, Live'), Issued(ids, Live'), Live', fresh)
    BY <1>0, <1>3, <2>1, NamedIs
  <2> QED
    BY <1>1, <2>2 DEF NamedAs
<1>5. /\ \A id \in DOMAIN named : named[id] \in Ids /\ named[id] < next
      /\ next \in Int /\ next >= PROJECTILE_ID_BASE
      /\ \A x \in told : x[2] \in Int /\ x[2] < next
  BY <1>0, ConstantFacts DEF HandleTypeOK, Ids, ToldInv, NamesInv
<1>6. seen \subseteq arena' /\ shown = {p \in seen : p.id \in DOMAIN named'}
  BY DEF Shown, Sight
<1> HIDE DEF seen, shown
<1>7. ASSUME NEW p \in arena', p.id \in DOMAIN named
      PROVE  /\ p.id \in DOMAIN named' /\ named'[p.id] = named[p.id]
             /\ <<p.label, named[p.id]>> \in told
             /\ \A x \in told : x[1] = p.label => x[2] = named[p.id]
  <2>1. PICK q \in Launched(new) : p = After(q)
    BY <1>2
  <2>2. p.id = q.id /\ p.label = q.label
    BY <2>1 DEF After
  <2>3. q.id \in Live
    BY <1>0, <1>7, <2>2 DEF NamedInv
  <2>4. q \in arena
    BY <1>0, <2>1, <2>3, LaunchedApart
  <2>5. p.id \in Live'
    BY DEF Live
  <2>6. p.id \in DOMAIN named' /\ named'[p.id] = named[p.id]
    BY <1>4, <1>7, <2>5
  <2> QED
    BY <1>0, <1>7, <2>2, <2>4, <2>6 DEF ToldInv
<1>8. ASSUME NEW p \in arena', p.id \notin DOMAIN named
      PROVE  \A x \in told : x[1] # p.label
  <2>1. PICK q \in Launched(new) : p = After(q)
    BY <1>2
  <2>2. p.id = q.id /\ p.label = q.label
    BY <2>1 DEF After
  <2>3. CASE q \in arena
    BY <1>0, <1>8, <2>2, <2>3 DEF ToldInv
  <2>4. CASE q \notin arena
    <3>1. new \in Seq(Int) /\ Len(new) <= PerTick
      BY DEF New
    <3>2. PICK i \in 1..Fits(new) : q = Cast(new, i)
      BY <1>0, <2>4, <3>1, LaunchedIs
    <3>3. i \in DOMAIN new /\ q.label = new[i]
      BY <1>0, <3>1, <3>2, FitsIs, ConstantFacts DEF Cast
    <3> QED
      BY <2>2, <3>3 DEF New
  <2> QED
    BY <2>3, <2>4
<1>9. ASSUME NEW p \in shown
      PROVE  /\ p \in arena' /\ p.id \in DOMAIN named'
             /\ \/ p.id \in DOMAIN named /\ <<p.label, named'[p.id]>> \in told
                \/ /\ p.id \in fresh /\ named'[p.id] = Local(p.id, fresh)
                   /\ next <= named'[p.id] /\ named'[p.id] < next'
                   /\ \A x \in told : x[1] # p.label
  <2>1. p \in arena' /\ p \in seen /\ p.id \in DOMAIN named' /\ p.id \in Live'
    BY <1>6 DEF Live
  <2>2. CASE p.id \in DOMAIN named
    BY <1>7, <2>1, <2>2
  <2>3. CASE p.id \notin DOMAIN named
    BY <1>4, <1>8, <2>1, <2>3, SMTT(30)
  <2> QED
    BY <2>1, <2>2, <2>3
<1>10. ASSUME NEW p \in arena', p.id \in DOMAIN named'
       PROVE  /\ p.id \in DOMAIN named \/ p \in shown
              /\ <<p.label, named'[p.id]>> \in told'
  <2>1. CASE p.id \in DOMAIN named
    BY <1>1, <1>7, <2>1
  <2>2. CASE p.id \notin DOMAIN named
    <3>1. p.id \in fresh
      BY <1>4, <1>10, <2>2
    <3>2. PICK q \in seen : q.id = p.id
      BY <3>1
    <3>3. q = p
      BY <1>2, <1>6, <3>2
    <3> QED
      BY <1>1, <1>6, <1>10, <3>2, <3>3
  <2> QED
    BY <2>1, <2>2
<1>11. \A x \in told' : x \in told \/ \E p \in shown : x = <<p.label, named'[p.id]>>
  BY <1>1
<1> HIDE DEF fresh
<1>12. HandleTypeOK'
  <2>1. \A id \in DOMAIN named' : named'[id] \in Ids
    <3> SUFFICES ASSUME NEW id \in DOMAIN named' PROVE named'[id] \in Ids
      OBVIOUS
    <3>1. CASE id \in DOMAIN named \cap Live'
      BY <1>4, <1>5, <3>1
    <3>2. CASE id \in fresh /\ Local(id, fresh) <= ID_MAX
      BY <1>4, <1>5, <3>2, ConstantFacts DEF Ids
    <3> QED
      BY <1>4, <3>1, <3>2
  <2>2. named' \in [DOMAIN named' -> Ids]
    <3>1. named' = [id \in DOMAIN named' |-> named'[id]]
      BY <1>1 DEF Named
    <3> QED
      BY <2>1, <3>1
  <2>3. arena' \subseteq Projectiles
    BY <1>2, ConstantFacts DEF Projectiles
  <2>4. next_projectile_id' \in Ids
    BY <1>0, <1>1, ArenaStep
  <2>5. next' \in PROJECTILE_ID_BASE..(ID_MAX + 1)
    BY <1>4, <1>5, ConstantFacts
  <2>6. \A l \in DOMAIN view' : view'[l] \in Ids
    <3>1. DOMAIN view' = {p.label : p \in shown} /\ \A p \in shown : view'[p.label] = named'[p.id]
      BY TickIs DEF shown
    <3> QED
      BY <1>9, <2>1, <3>1
  <2> QED
    BY <1>2, <2>2, <2>3, <2>4, <2>5, <2>6 DEF HandleTypeOK, Projectiles, Ids
<1>13. ArenaInv'
  BY <1>0, <1>1, ArenaStep
<1>14. NamedInv'
  <2>1. DOMAIN named' \subseteq Live'
    BY <1>3, <1>4 DEF fresh
  <2>2. ASSUME NEW i \in DOMAIN named' PROVE named'[i] < next'
    <3>1. CASE i \in DOMAIN named \cap Live'
      BY <1>4, <1>5, <3>1, ConstantFacts DEF Ids
    <3>2. CASE i \in fresh /\ Local(i, fresh) <= ID_MAX
      BY <1>4, <3>2
    <3> QED
      BY <1>4, <3>1, <3>2
  <2>3. ASSUME NEW i \in DOMAIN named', NEW j \in DOMAIN named', named'[i] = named'[j] PROVE i = j
    <3>1. \A k \in DOMAIN named' : \/ k \in DOMAIN named /\ named'[k] = named[k]
                                   \/ k \in fresh /\ named'[k] = Local(k, fresh)
      BY <1>4
    <3>2. \A k \in DOMAIN named, l \in fresh : named[k] # Local(l, fresh)
      BY <1>4, <1>5, ConstantFacts DEF Ids
    <3>3. \A k, l \in DOMAIN named : named[k] = named[l] => k = l
      BY <1>0 DEF NamesInv
    <3> QED
      BY <1>4, <2>3, <3>1, <3>2, <3>3
  <2> QED
    BY <2>1, <2>2, <2>3 DEF NamedInv, NamesInv
<1>15. ToldInv'
  <2>1. ASSUME NEW x \in told' PROVE x[2] \in Int /\ x[2] < next'
    <3>2. CASE x \in told
      <4>1. x[2] \in Int /\ x[2] < next /\ next \in Int /\ next' \in Int /\ next <= next'
        BY <1>4, <1>5, <3>2
      <4> QED
        BY <4>1
    <3>3. ASSUME NEW p \in shown, x = <<p.label, named'[p.id]>> PROVE x[2] \in Int /\ x[2] < next'
      <4>1. x[2] = named'[p.id] /\ p.id \in DOMAIN named'
        BY <1>9, <3>3
      <4> QED
        BY <1>12, <1>14, <4>1, ConstantFacts DEF HandleTypeOK, NamedInv, NamesInv, Ids
    <3> QED
      BY <1>11, <3>2, <3>3
  <2>2. ASSUME NEW p \in arena', NEW x \in told', x[1] = p.label
        PROVE  p.id \in DOMAIN named' /\ named'[p.id] = x[2]
    <3>1. CASE x \in told
      BY <1>7, <1>8, <2>2, <3>1
    <3>2. ASSUME NEW q \in shown, x = <<q.label, named'[q.id]>>
          PROVE  p.id \in DOMAIN named' /\ named'[p.id] = x[2]
      <4>1. q = p
        BY <1>2, <1>9, <2>2, <3>2
      <4> QED
        BY <1>9, <3>2, <4>1
    <3> QED
      BY <1>11, <3>1, <3>2
  <2> QED
    BY <1>10, <2>1, <2>2 DEF ToldInv
<1>16. OneNameEach'
  <2> DEFINE Fresh_(x) == /\ \A y \in told : y[1] # x[1]
                          /\ next <= x[2]
                          /\ \E p \in shown : p.id \in fresh /\ x = <<p.label, Local(p.id, fresh)>>
  <2>1. \A x \in told' : x \in told \/ Fresh_(x)
    <3> SUFFICES ASSUME NEW x \in told', x \notin told PROVE Fresh_(x)
      OBVIOUS
    <3>1. PICK p \in shown : x = <<p.label, named'[p.id]>>
      BY <1>11
    <3>2. x[1] = p.label /\ x[2] = named'[p.id]
      BY <3>1
    <3> QED
      BY <1>9, <3>1, <3>2
  <2>2. ASSUME NEW x \in told', Fresh_(x), NEW y \in told PROVE x[1] # y[1] /\ x[2] # y[2]
    <3>1. PICK p \in shown : p.id \in fresh /\ x = <<p.label, Local(p.id, fresh)>>
      BY <2>2
    <3>2. x[2] \in Int
      BY <1>4, <3>1
    <3>3. y[2] < next /\ next <= x[2] /\ next \in Int
      BY <1>5, <2>2
    <3> QED
      BY <2>2, <3>2, <3>3
  <2>3. ASSUME NEW x \in told', Fresh_(x), NEW y \in told', Fresh_(y) PROVE (x[1] = y[1]) <=> (x[2] = y[2])
    <3>1. PICK p \in shown : p.id \in fresh /\ x = <<p.label, Local(p.id, fresh)>>
      BY <2>3
    <3>2. PICK q \in shown : q.id \in fresh /\ y = <<q.label, Local(q.id, fresh)>>
      BY <2>3
    <3>3. p.label = q.label => p = q
      BY <1>2, <1>9
    <3>4. ASSUME Local(p.id, fresh) = Local(q.id, fresh) PROVE p = q
      <4>1. \A i, j \in fresh : Local(i, fresh) = Local(j, fresh) => i = j
        BY <1>4
      <4>2. p.id = q.id
        BY <3>1, <3>2, <3>4, <4>1
      <4> QED
        BY <1>2, <1>9, <4>2
    <3> QED
      BY <3>1, <3>2, <3>3, <3>4
  <2>4. \A x, y \in told : (x[1] = y[1]) <=> (x[2] = y[2])
    BY <1>0 DEF OneNameEach
  <2> HIDE DEF Fresh_
  <2> QED
    BY <2>1, <2>2, <2>3, <2>4 DEF OneNameEach
<1>17. OmittedOnlyWhenSpent'
  <2> SUFFICES ASSUME NEW l \in omitted' PROVE next' > ID_MAX
    BY DEF OmittedOnlyWhenSpent
  <2>1. PICK p \in seen \ shown : l = p.label
    BY <1>1
  <2>2. p \in arena' /\ p.id \notin DOMAIN named' /\ p.id \in ids
    BY <1>6, <2>1
  <2>3. p.id \in fresh
    BY <1>7, <2>2 DEF fresh
  <2>4. ~ (Local(p.id, fresh) <= ID_MAX)
    BY <1>4, <2>2, <2>3
  <2> QED
    BY <1>4, <2>3, <2>4, ConstantFacts
<1>18. \A x \in told' : x \in told \/ x[1] \in Labels'
  BY <1>9, <1>11 DEF Labels
<1> QED
  BY <1>2, <1>12, <1>13, <1>14, <1>15, <1>16, <1>17, <1>18 DEF HInv
-----------------------------------------------------------------------------
(* A match on its own.                                                     *)

(* A match whose casts are labelled in order.                              *)
AloneInv ==
  /\ HInv
  /\ casts \in Nat
  /\ Labels \subseteq 1..casts
  /\ \A x \in told : x[1] \in 1..casts

LEMMA HoldsAtFirst ==
  ASSUME HandleConstants, Init
  PROVE  HInv
<1>1. arena = {} /\ told = {} /\ omitted = {} /\ DOMAIN named = {} /\ DOMAIN view = {}
  BY DEF Init
<1>2. HandleTypeOK
  <2>1. named \in [DOMAIN named -> Ids]
    BY DEF Init
  <2>2. IsFiniteSet(arena) /\ Cardinality(arena) = 0
    BY <1>1, FS_EmptySet
  <2> QED
    BY <1>1, <2>1, <2>2, ConstantFacts DEF Init, HandleTypeOK, Ids
<1> QED
  BY <1>1, <1>2 DEF HInv, ArenaInv, NamedInv, NamesInv, ToldInv, OneNameEach, OmittedOnlyWhenSpent

(* For any arena and any space of handles that does not come round within  *)
(* a lifetime: a recipient is told one name for a projectile and one       *)
(* projectile for a name, also after the match's own handles have come     *)
(* round; the map never holds more than the arena; and nothing is left out *)
(* of a view while a name is left (handles.rs, local() and                 *)
(* forget_departed(); allocate_projectile_id).                             *)
THEOREM OneMatch ==
  ASSUME HandleConstants
  PROVE  Spec => [](TypeOK /\ OneNameEach /\ NamesAreOfTheLive /\ OmittedOnlyWhenSpent)
<1>1. Init => AloneInv
  <2> SUFFICES ASSUME Init PROVE AloneInv
    OBVIOUS
  <2>1. HInv
    BY HoldsAtFirst
  <2> QED
    BY <2>1 DEF Init, AloneInv, Labels
<1>2. AloneInv /\ [Next]_vars => AloneInv'
  <2> SUFFICES ASSUME AloneInv, [Next]_vars PROVE AloneInv'
    OBVIOUS
  <2>1. CASE Next
    <3>1. PICK n \in 0..PerTick :
            LET new == [i \in 1..n |-> casts + i]
                all == Labels \cup {casts + i : i \in 1..n}
            IN  /\ casts + n <= MaxCasts
                /\ casts' = casts + n
                /\ \E hit, seenLabels \in SUBSET all : Tick(new, hit, seenLabels)
      BY <2>1 DEF Next
    <3> DEFINE launched == [i \in 1..n |-> casts + i]
    <3>2. PICK hit, seenLabels : Tick(launched, hit, seenLabels)
      BY <3>1
    <3>3. casts \in Nat /\ n \in Nat /\ n <= PerTick /\ casts' = casts + n
      BY <3>1, ConstantFacts DEF AloneInv
    <3>4. launched \in Seq(Int) /\ Len(launched) = n /\ DOMAIN launched = 1..n
      BY <3>3
    <3>5. New(launched)
      <4>1. \A i, j \in 1..n : launched[i] = launched[j] => i = j
        BY <3>3
      <4>2. \A i \in 1..n : launched[i] \notin 1..casts
        BY <3>3
      <4> QED
        BY <3>3, <3>4, <4>1, <4>2 DEF New, AloneInv
    <3>6. PICK new : new = launched
      OBVIOUS
    <3> HIDE DEF launched
    <3>7. /\ HInv'
          /\ \A p \in arena' : \E q \in Launched(new) : p = After(q) /\ q.label \notin hit
          /\ \A x \in told' : x \in told \/ x[1] \in Labels'
      BY <3>2, <3>5, <3>6, TickHolds DEF AloneInv
    <3>8. Labels' \subseteq 1..casts'
      <4> SUFFICES ASSUME NEW p \in arena' PROVE p.label \in 1..casts'
        BY DEF Labels
      <4>1. PICK q \in Launched(new) : p = After(q)
        BY <3>7
      <4>2. p.label = q.label
        BY <4>1 DEF After
      <4>3. HandleTypeOK
        BY DEF AloneInv, HInv
      <4>4. Launched(new) = arena \cup {Cast(new, i) : i \in 1..Fits(new)} /\ Fits(new) \in 0..n
        BY <3>3, <3>4, <3>6, <4>3, LaunchedIs, FitsIs
      <4>5. CASE q \in arena
        BY <3>3, <4>2, <4>5 DEF AloneInv, Labels
      <4>6. ASSUME NEW i \in 1..Fits(new), q = Cast(new, i) PROVE p.label \in 1..casts'
        <5>1. p.label = launched[i] /\ i \in 1..n
          BY <3>3, <3>6, <4>2, <4>4, <4>6 DEF Cast
        <5>2. launched[i] = casts + i
          BY <5>1 DEF launched
        <5> QED
          BY <3>3, <5>1, <5>2
      <4> QED
        BY <4>1, <4>4, <4>5, <4>6
    <3>9. \A x \in told' : x[1] \in 1..casts'
      <4>1. \A x \in told : x[1] \in 1..casts'
        BY <3>3 DEF AloneInv
      <4> QED
        BY <3>7, <3>8, <4>1
    <3> QED
      BY <3>3, <3>7, <3>8, <3>9 DEF AloneInv
  <2>2. CASE UNCHANGED vars
    BY <2>2 DEF vars, AloneInv, HInv, HandleTypeOK, ArenaInv, Since, NamedInv, NamesInv, ToldInv,
                OneNameEach, OmittedOnlyWhenSpent, Live, Labels
  <2> QED
    BY <2>1, <2>2
<1>3. AloneInv => TypeOK /\ OneNameEach /\ NamesAreOfTheLive /\ OmittedOnlyWhenSpent
  <2> SUFFICES ASSUME AloneInv PROVE TypeOK /\ OneNameEach /\ NamesAreOfTheLive /\ OmittedOnlyWhenSpent
    OBVIOUS
  <2>1. HandleTypeOK /\ DOMAIN named \subseteq Live /\ OneNameEach /\ OmittedOnlyWhenSpent
    BY DEF AloneInv, HInv, NamedInv
  <2>2. TypeOK
    BY <2>1 DEF TypeOK, HandleTypeOK, Projectiles, Live
  <2>3. Cardinality(DOMAIN named) <= MAX_PROJECTILES
    <3> DEFINE f == [p \in arena |-> p.id]
    <3>1. f \in Surjection(arena, Live)
      BY DEF Surjection, Live
    <3>2. IsFiniteSet(Live) /\ Cardinality(Live) <= Cardinality(arena)
      BY <2>1, <3>1, FS_Surjection DEF HandleTypeOK
    <3>3. IsFiniteSet(DOMAIN named) /\ Cardinality(DOMAIN named) <= Cardinality(Live)
      BY <2>1, <3>2, FS_Subset
    <3>4. Cardinality(arena) <= MAX_PROJECTILES /\ IsFiniteSet(arena)
      BY <2>1 DEF HandleTypeOK
    <3> QED
      BY <3>2, <3>3, <3>4, FS_CardinalityType, ConstantFacts
  <2> QED
    BY <2>1, <2>2, <2>3 DEF NamesAreOfTheLive
<1> QED
  BY <1>1, <1>2, <1>3, PTL DEF Spec
-----------------------------------------------------------------------------
(* What a recipient may come to see, by label: the projectiles labelled    *)
(* above zero, and the names they have.                                    *)

Open  == {<<p.label, p.left>> : p \in {q \in arena : q.label > 0}}
Calls == {<<p.label, named[p.id]>> : p \in {q \in arena : q.id \in DOMAIN named}}

(* Only what the recipient may come to see has a name.                     *)
OnlyOpen == \A p \in arena : p.id \in DOMAIN named => p.label > 0

(* Labels and handles go up together.                                      *)
InOrder ==
  \A p, q \in arena : p.label > 0 /\ q.label > 0 /\ p.label < q.label => p.id < q.id

(* So many were cast, and none came round.                                 *)
Counted(total) ==
  /\ next_projectile_id = PROJECTILE_ID_BASE + (IF total = N THEN 0 ELSE total)
  /\ \A p \in arena : p.id < PROJECTILE_ID_BASE + total

(* What is cast in a tick is labelled in the order it is cast in.          *)
NewInOrder(new) ==
  /\ \A i, j \in DOMAIN new : i < j /\ new[i] > 0 /\ new[j] > 0 => new[i] < new[j]
  /\ \A p \in arena, i \in DOMAIN new : p.label > 0 /\ new[i] > 0 => p.label < new[i]

LEMMA OrderStep ==
  ASSUME HandleConstants, HInv, NEW new, New(new), NEW hit, NEW seenLabels, Tick(new, hit, seenLabels),
         NEW total \in Nat, Counted(total), total + Len(new) <= N, Fits(new) = Len(new),
         InOrder, NewInOrder(new)
  PROVE  Counted(total + Len(new))' /\ InOrder'
<1>0. new \in Seq(Int) /\ Len(new) \in Nat /\ Len(new) <= PerTick /\ HandleTypeOK /\ ArenaInv /\ DOMAIN new = 1..Len(new)
  BY DEF New, HInv
<1>a. /\ N \in Nat \ {0} /\ PerTick \in Nat /\ PerTick <= N /\ PROJECTILE_ID_BASE \in Nat /\ ID_MAX \in Nat
      /\ N = ID_MAX - PROJECTILE_ID_BASE + 1
  BY ConstantFacts
<1>1. /\ next_projectile_id' = Allocated(Fits(new) + 1)
      /\ \A p \in arena' : \E q \in Launched(new) : p = After(q)
  <2>1. next_projectile_id' = Allocated(Fits(new) + 1)
    BY TickIs
  <2>2. \A p \in arena' : \E q \in Launched(new) : p = After(q) /\ q.label \notin hit
    BY TickHolds
  <2> QED
    BY <2>1, <2>2
<1>2. next_projectile_id \in Ids
  BY <1>0 DEF HandleTypeOK
<1>3. ASSUME NEW i \in 1..Len(new) PROVE Allocated(i) = PROJECTILE_ID_BASE + total + i - 1
  <2>1. i \in 1..(N + 1) /\ total # N
    BY <1>0, <1>a
  <2> QED
    BY <1>0, <1>2, <1>a, <2>1, AllocatedIs DEF Counted
<1>4. Launched(new) = arena \cup {Cast(new, i) : i \in 1..Fits(new)}
  BY <1>0, LaunchedIs
<1>5. \A p \in arena : p.id \in Int /\ p.label \in Int
  BY <1>0 DEF HandleTypeOK, Projectiles, Ids
<1>6. ASSUME NEW q \in Launched(new)
      PROVE  q.id \in Int /\ q.label \in Int /\ q.id < PROJECTILE_ID_BASE + total + Len(new)
  <2>1. CASE q \in arena
    BY <1>0, <1>5, <1>a, <2>1 DEF Counted
  <2>2. ASSUME NEW i \in 1..Len(new), q = Cast(new, i)
        PROVE  q.id \in Int /\ q.label \in Int /\ q.id < PROJECTILE_ID_BASE + total + Len(new)
    BY <1>0, <1>3, <1>a, <2>2 DEF Cast
  <2> QED
    BY <1>4, <2>1, <2>2
<1>7. ASSUME NEW p \in Launched(new), NEW q \in Launched(new), p.label > 0, q.label > 0, p.label < q.label
      PROVE  p.id < q.id
  <2>1. CASE p \in arena /\ q \in arena
    BY <1>7, <2>1 DEF InOrder
  <2>2. ASSUME NEW i \in 1..Len(new), q = Cast(new, i), p \in arena PROVE p.id < q.id
    <3>1. q.id = PROJECTILE_ID_BASE + total + i - 1
      BY <1>3, <2>2 DEF Cast
    <3> QED
      BY <1>0, <1>5, <1>a, <2>2, <3>1 DEF Counted
  <2>3. ASSUME NEW i \in 1..Len(new), p = Cast(new, i), q \in arena PROVE FALSE
    <3>1. p.label = new[i] /\ i \in DOMAIN new
      BY <1>0, <2>3 DEF Cast
    <3>2. q.label < p.label
      BY <1>7, <2>3, <3>1 DEF NewInOrder
    <3> QED
      BY <1>6, <1>7, <3>2
  <2>4. ASSUME NEW i \in 1..Len(new), p = Cast(new, i), NEW j \in 1..Len(new), q = Cast(new, j) PROVE p.id < q.id
    <3>1. /\ p.label = new[i] /\ i \in DOMAIN new /\ q.label = new[j] /\ j \in DOMAIN new
          /\ p.id = PROJECTILE_ID_BASE + total + i - 1
          /\ q.id = PROJECTILE_ID_BASE + total + j - 1
      BY <1>0, <1>3, <2>4 DEF Cast
    <3>2. i # j /\ ~ (j < i)
      BY <1>6, <1>7, <3>1 DEF NewInOrder
    <3> QED
      BY <1>0, <1>a, <3>1, <3>2
  <2> QED
    BY <1>4, <2>1, <2>2, <2>3, <2>4
<1>8. \A p \in arena' : \E q \in Launched(new) : p.id = q.id /\ p.label = q.label
  BY <1>1 DEF After
<1>9. InOrder'
  BY <1>7, <1>8 DEF InOrder
<1>10. next_projectile_id' = PROJECTILE_ID_BASE + (IF total + Len(new) = N THEN 0 ELSE total + Len(new))
  <2>1. Len(new) + 1 \in 1..(N + 1)
    BY <1>0, <1>a
  <2> QED
    BY <1>0, <1>1, <1>2, <1>a, <2>1, AllocatedIs, SMTT(30) DEF Counted, Ids
<1>11. \A p \in arena' : p.id < PROJECTILE_ID_BASE + (total + Len(new))
  BY <1>0, <1>6, <1>8, <1>a
<1>12. Counted(total + Len(new))'
  BY <1>10, <1>11 DEF Counted, N
<1> QED
  BY <1>9, <1>12

(* Handles and labels of the same projectiles count the same.              *)
LEMMA SameCount ==
  ASSUME NEW S, IsFiniteSet(S), \A p, q \in S : p.id = q.id \/ p.label = q.label => p = q
  PROVE  Cardinality({p.id : p \in S}) = Cardinality({p.label : p \in S})
<1> DEFINE f == [p \in S |-> p.id]
           g == [p \in S |-> p.label]
<1>1. f \in Bijection(S, {p.id : p \in S})
  <2>1. f \in Injection(S, {p.id : p \in S})
    <3>1. f \in [S -> {p.id : p \in S}]
      OBVIOUS
    <3>2. \A p, q \in S : f[p] = f[q] => p = q
      OBVIOUS
    <3> HIDE DEF f
    <3> QED
      BY <3>1, <3>2 DEF Injection, IsInjective
  <2>2. f \in Surjection(S, {p.id : p \in S})
    BY DEF Surjection
  <2> QED
    BY <2>1, <2>2 DEF Bijection
<1>3. g \in Bijection(S, {p.label : p \in S})
  <2>1. g \in Injection(S, {p.label : p \in S})
    <3>1. g \in [S -> {p.label : p \in S}]
      OBVIOUS
    <3>2. \A p, q \in S : g[p] = g[q] => p = q
      OBVIOUS
    <3> HIDE DEF g
    <3> QED
      BY <3>1, <3>2 DEF Injection, IsInjective
  <2>2. g \in Surjection(S, {p.label : p \in S})
    BY DEF Surjection
  <2> QED
    BY <2>1, <2>2 DEF Bijection
<1>2. ExistsBijection(S, {p.id : p \in S}) /\ ExistsBijection(S, {p.label : p \in S})
  BY <1>1, <1>3 DEF ExistsBijection
<1> QED
  BY <1>2, FS_Bijection

(* One tick by label, a function of what was open, of the names it had and *)
(* of the casts, hits and sights that concern it: neither the hidden casts *)
(* nor the match's own handles appear in it.                               *)
OpenAfter(open, new, hit) ==
  {x \in Int \X (1..(Lifetime - 1)) :
     x[1] \notin hit /\ (<<x[1], x[2] + 1>> \in open \/ (x[2] + 1 = Lifetime /\ x[1] \in new))}

Unnamed(open, calls, seenLabels) ==
  {l \in seenLabels : (\E k \in Int : <<l, k>> \in open) /\ \A n \in Ids : <<l, n>> \notin calls}

CallsAfter(open, calls, unnamed, counter) ==
  {x \in Int \X Ids :
     /\ \E k \in Int : <<x[1], k>> \in open
     /\ \/ x \in calls
        \/ x[1] \in unnamed /\ x[2] = counter + Cardinality(Below(x[1], unnamed))}

IssuedAfter(unnamed, counter) ==
  LET n == counter + Cardinality(unnamed)
  IN  IF n <= ID_MAX + 1 THEN n ELSE ID_MAX + 1

ViewAfter(calls, seenLabels) ==
  [l \in {k \in seenLabels : \E n \in Ids : <<k, n>> \in calls} |->
     CHOOSE n \in Ids : <<l, n>> \in calls]

(* The casts of a tick that the recipient may come to see.                 *)
Positive(new) == {l \in {new[i] : i \in DOMAIN new} : l > 0}

LEMMA OpenStep ==
  ASSUME HandleConstants, HandleTypeOK, ArenaInv, NEW new, New(new), NEW hit,
         arena' = Flown(Launched(new), hit), Fits(new) = Len(new)
  PROVE  Open' = OpenAfter(Open, Positive(new), hit)
<1>0. new \in Seq(Int) /\ Len(new) \in Nat /\ Len(new) <= PerTick /\ DOMAIN new = 1..Len(new)
  BY DEF New
<1>1. Launched(new) = arena \cup {Cast(new, i) : i \in 1..Len(new)} /\ Launched(new) \subseteq Projectiles
  BY <1>0, LaunchedIs
<1>2. arena' = {After(p) : p \in {q \in Launched(new) : q.left > 1 /\ q.label \notin hit}}
  BY <1>1, FlownIs
<1>3. Open' = {<<p.label, p.left>> : p \in {q \in arena' : q.label > 0}}
  BY DEF Open
<1>4. ASSUME NEW x \in Open' PROVE x \in OpenAfter(Open, Positive(new), hit)
  <2>1. PICK p \in arena' : p.label > 0 /\ x = <<p.label, p.left>>
    BY <1>3
  <2>2. PICK q \in Launched(new) : p = After(q) /\ q.left > 1 /\ q.label \notin hit
    BY <1>2
  <2>3. /\ p.label = q.label /\ p.left = q.left - 1
        /\ q.label \in Int /\ q.left \in 1..Lifetime
    BY <1>1, <2>2 DEF After, Projectiles
  <2>4. x \in Int \X (1..(Lifetime - 1)) /\ x[1] = q.label /\ x[2] = q.left - 1 /\ q.label > 0
    BY <2>1, <2>2, <2>3, ConstantFacts, SMTT(30)
  <2>5. CASE q \in arena
    <3>1. <<q.label, q.left>> \in Open
      BY <2>4, <2>5 DEF Open
    <3>2. x[2] + 1 = q.left
      BY <2>3, <2>4, ConstantFacts, SMTT(30)
    <3>3. <<x[1], x[2] + 1>> \in Open
      BY <2>4, <3>1, <3>2
    <3>4. x[1] \notin hit
      BY <2>2, <2>4
    <3>5. x \in Int \X (1..(Lifetime - 1))
      BY <2>4
    <3>6. x[1] \notin hit /\ (<<x[1], x[2] + 1>> \in Open \/ (x[2] + 1 = Lifetime /\ x[1] \in Positive(new)))
      BY <3>3, <3>4
    <3> QED
      BY <3>5, <3>6 DEF OpenAfter
  <2>6. ASSUME NEW i \in 1..Len(new), q = Cast(new, i) PROVE x \in OpenAfter(Open, Positive(new), hit)
    <3>1. q.label = new[i] /\ q.left = Lifetime /\ i \in DOMAIN new
      BY <1>0, <2>6 DEF Cast
    <3>2. x[1] \in Positive(new)
      BY <2>4, <3>1 DEF Positive
    <3>3. x[2] + 1 = Lifetime
      BY <2>4, <3>1, ConstantFacts
    <3> QED
      BY <2>2, <2>4, <3>2, <3>3 DEF OpenAfter
  <2> QED
    BY <1>1, <2>5, <2>6
<1>5. ASSUME NEW x \in OpenAfter(Open, Positive(new), hit) PROVE x \in Open'
  <2>1. /\ x \in Int \X (1..(Lifetime - 1)) /\ x[1] \notin hit
        /\ <<x[1], x[2] + 1>> \in Open \/ (x[2] + 1 = Lifetime /\ x[1] \in Positive(new))
    BY DEF OpenAfter
  <2>2. x = <<x[1], x[2]>> /\ x[2] \in 1..(Lifetime - 1)
    BY <2>1
  <2>3. \E q \in Launched(new) : q.label = x[1] /\ q.left = x[2] + 1 /\ q.label > 0
    <3>1. CASE <<x[1], x[2] + 1>> \in Open
      <4>1. PICK q \in arena : q.label > 0 /\ <<x[1], x[2] + 1>> = <<q.label, q.left>>
        BY <3>1 DEF Open
      <4> QED
        BY <1>1, <4>1
    <3>2. CASE x[2] + 1 = Lifetime /\ x[1] \in Positive(new)
      <4>1. PICK i \in DOMAIN new : x[1] = new[i] /\ new[i] > 0
        BY <3>2 DEF Positive
      <4>2. Cast(new, i) \in Launched(new) /\ Cast(new, i).label = new[i] /\ Cast(new, i).left = Lifetime
        BY <1>0, <1>1, <4>1 DEF Cast
      <4> QED
        BY <3>2, <4>1, <4>2
    <3> QED
      BY <2>1, <3>1, <3>2
  <2>4. PICK q \in Launched(new) : q.label = x[1] /\ q.left = x[2] + 1 /\ q.label > 0
    BY <2>3
  <2>5. After(q) \in arena'
    BY <1>2, <2>1, <2>2, <2>4
  <2>6. After(q).label = x[1] /\ After(q).left = x[2] /\ After(q).label > 0
    BY <2>2, <2>4 DEF After
  <2> QED
    BY <1>3, <2>2, <2>5, <2>6
<1> QED
  BY <1>4, <1>5

LEMMA CallsStep ==
  ASSUME HandleConstants, HInv, NEW new, New(new), NEW hit, NEW seenLabels, Tick(new, hit, seenLabels),
         OnlyOpen, InOrder', \A l \in seenLabels : l \in Int /\ l > 0,
         NEW unnamed, unnamed = Unnamed(Open', Calls, seenLabels)
  PROVE  /\ OnlyOpen'
         /\ Calls' = CallsAfter(Open', Calls, unnamed, next)
         /\ next' = IssuedAfter(unnamed, next)
         /\ view' = ViewAfter(Calls', seenLabels)
         /\ told' = told \cup {<<l, view'[l]>> : l \in DOMAIN view'}
<1> DEFINE group == {p \in arena' : p.label \in seenLabels /\ p.id \notin DOMAIN named}
           ids   == {p.id : p \in Sight(seenLabels)'}
           fresh == {p.id : p \in group}
<1>0. /\ HandleTypeOK /\ ArenaInv /\ NamedInv /\ NamesInv /\ ToldInv
      /\ HandleTypeOK' /\ ArenaInv' /\ NamedInv'
  BY TickHolds DEF HInv, NamedInv
<1>1. /\ named' = Named(ids, Live') /\ next' = Issued(ids, Live')
      /\ DOMAIN view' = {p.label : p \in Shown(seenLabels)'}
      /\ view' = [l \in DOMAIN view' |-> view'[l]]
      /\ \A p \in Shown(seenLabels)' : view'[p.label] = named'[p.id]
      /\ told' = told \cup {<<p.label, named'[p.id]>> : p \in Shown(seenLabels)'}
      /\ \A p \in arena' : \E q \in Launched(new) : p = After(q) /\ q.label \notin hit
  BY TickIs, TickHolds
<1>2. /\ \A p, q \in arena' : p.id = q.id => p = q
      /\ \A p, q \in arena' : p.label = q.label => p = q
      /\ \A p \in arena' : p.id \in Ids /\ p.label \in Int /\ p.left \in Int /\ p.id \in Int
      /\ IsFiniteSet(arena')
  BY <1>0, ConstantFacts DEF ArenaInv, HandleTypeOK, Projectiles, Ids
<1>3. /\ Sight(seenLabels)' = {p \in arena' : p.label \in seenLabels}
      /\ Shown(seenLabels)' = {p \in arena' : p.label \in seenLabels /\ p.id \in DOMAIN named'}
      /\ Live' = {p.id : p \in arena'}
  BY DEF Sight, Shown, Live
<1>4. fresh = ids \ DOMAIN named
  BY <1>3
<1>5. group \subseteq arena' /\ \A p \in arena' : p \in group <=> p.label \in seenLabels /\ p.id \notin DOMAIN named
  OBVIOUS
<1>6. IsFiniteSet(Live') /\ Live' \subseteq Ids /\ ids \subseteq Live'
  <2> DEFINE f == [p \in arena' |-> p.id]
  <2>1. f \in Surjection(arena', Live')
    BY <1>3 DEF Surjection
  <2> QED
    BY <1>2, <1>3, <2>1, FS_Surjection
<1> HIDE DEF ids
<1>7. NamedAs(named', next', Live', fresh) /\ Fresh(ids, Live') = fresh
  <2> HIDE DEF fresh
  <2> QED
    BY <1>0, <1>1, <1>4, <1>6, NamedIs
<1>8. ASSUME NEW p \in arena', p.id \in DOMAIN named
      PROVE  \E q \in arena : q.id = p.id /\ q.label = p.label
  <2>1. PICK q \in Launched(new) : p = After(q)
    BY <1>1
  <2>2. p.id = q.id /\ p.label = q.label
    BY <2>1 DEF After
  <2>3. q.id \in Live
    BY <1>0, <1>8, <2>2 DEF NamedInv
  <2> QED
    BY <1>0, <2>1, <2>2, <2>3, LaunchedApart
<1>9. ASSUME NEW p \in arena', NEW q \in arena, q.label = p.label PROVE q.id = p.id
  <2>1. PICK r \in Launched(new) : p = After(r)
    BY <1>1
  <2>2. p.id = r.id /\ p.label = r.label
    BY <2>1 DEF After
  <2>3. q \in Launched(new)
    BY DEF Launched
  <2> QED
    BY <1>0, <1>9, <2>1, <2>2, <2>3, LaunchedApart
<1>10. Open' = {<<p.label, p.left>> : p \in {q \in arena' : q.label > 0}}
  BY DEF Open
<1>11. \A id \in DOMAIN named : named[id] \in Ids
  BY <1>0 DEF HandleTypeOK
<1>12. unnamed = {p.label : p \in group}
  <2>1. ASSUME NEW l \in unnamed PROVE \E p \in group : p.label = l
    <3>1. l \in seenLabels /\ (\E k \in Int : <<l, k>> \in Open') /\ \A n \in Ids : <<l, n>> \notin Calls
      BY DEF Unnamed
    <3>2. PICK p \in arena' : p.label = l
      BY <1>10, <3>1
    <3>3. ASSUME p.id \in DOMAIN named PROVE FALSE
      <4>1. PICK q \in arena : q.id = p.id /\ q.label = p.label
        BY <1>8, <3>3
      <4>2. <<l, named[q.id]>> \in Calls
        BY <3>2, <3>3, <4>1 DEF Calls
      <4> QED
        BY <1>11, <3>1, <3>3, <4>1, <4>2
    <3> QED
      BY <1>5, <3>1, <3>2, <3>3
  <2>2. ASSUME NEW p \in group PROVE p.label \in unnamed
    <3>1. p \in arena' /\ p.label \in seenLabels /\ p.label > 0 /\ p.left \in Int /\ p.id \notin DOMAIN named
      BY <1>2, <1>5
    <3>2. <<p.label, p.left>> \in Open'
      BY <1>10, <3>1
    <3>3. ASSUME NEW n \in Ids, <<p.label, n>> \in Calls PROVE FALSE
      <4>1. PICK q \in arena : q.id \in DOMAIN named /\ <<p.label, n>> = <<q.label, named[q.id]>>
        BY <3>3 DEF Calls
      <4> QED
        BY <1>9, <3>1, <4>1
    <3> QED
      BY <3>1, <3>2, <3>3 DEF Unnamed
  <2> HIDE DEF group
  <2> QED
    BY <2>1, <2>2
<1>13. \A p, q \in group : q.id < p.id <=> q.label < p.label
  <2> SUFFICES ASSUME NEW p \in group, NEW q \in group PROVE q.id < p.id <=> q.label < p.label
    OBVIOUS
  <2>1. /\ p \in arena' /\ q \in arena' /\ p.label > 0 /\ q.label > 0
        /\ p.id \in Int /\ q.id \in Int /\ p.label \in Int /\ q.label \in Int
    BY <1>2, <1>5
  <2>2. p.label < q.label => p.id < q.id
    BY <2>1 DEF InOrder
  <2>3. q.label < p.label => q.id < p.id
    BY <2>1 DEF InOrder
  <2>4. p.label = q.label => p = q
    BY <1>2, <2>1
  <2> QED
    BY <2>1, <2>2, <2>3, <2>4
<1>14. \A p, q \in group : p.id = q.id \/ p.label = q.label => p = q
  BY <1>2, <1>5
<1>15. IsFiniteSet(group)
  BY <1>2, <1>5, FS_Subset
<1> HIDE DEF group
<1>16. Cardinality(fresh) = Cardinality(unnamed)
  BY <1>12, <1>14, <1>15, SameCount
<1>17. ASSUME NEW p \in group PROVE Cardinality(Below(p.id, fresh)) = Cardinality(Below(p.label, unnamed))
  <2> DEFINE before == {q \in group : q.id < p.id}
  <2>1. IsFiniteSet(before) /\ \A r, q \in before : r.id = q.id \/ r.label = q.label => r = q
    BY <1>14, <1>15, FS_Subset
  <2>2. Below(p.id, fresh) = {q.id : q \in before}
    BY DEF Below
  <2>3. Below(p.label, unnamed) = {q.label : q \in before}
    BY <1>12, <1>13 DEF Below
  <2> HIDE DEF before
  <2> QED
    BY <2>1, <2>2, <2>3, SameCount
<1>18. \A p \in group : Local(p.id, fresh) = next + Cardinality(Below(p.label, unnamed))
  BY <1>17 DEF Local, Below
<1>19. next' = IssuedAfter(unnamed, next)
  BY <1>1, <1>7, <1>16 DEF Issued, IssuedAfter
<1>20. \A p \in arena' : p.id \in fresh <=> p \in group
  BY <1>2, <1>5
<1>21. ASSUME NEW p \in arena', p.id \in DOMAIN named'
       PROVE  /\ p.label > 0
              /\ <<p.label, named'[p.id]>> \in CallsAfter(Open', Calls, unnamed, next)
  <2>0. p.label \in Int /\ p.left \in Int /\ named'[p.id] \in Ids /\ p.id \in Live'
    BY <1>0, <1>2, <1>3, <1>21 DEF HandleTypeOK
  <2>1. CASE p.id \in DOMAIN named
    <3>1. PICK q \in arena : q.id = p.id /\ q.label = p.label
      BY <1>8, <2>1
    <3>2. p.label > 0
      BY <2>1, <3>1 DEF OnlyOpen
    <3>3. named'[p.id] = named[p.id]
      BY <1>7, <2>0, <2>1 DEF NamedAs
    <3>4. <<p.label, named'[p.id]>> \in Calls
      BY <2>1, <3>1, <3>3 DEF Calls
    <3>5. <<p.label, p.left>> \in Open'
      BY <1>10, <3>2
    <3> QED
      BY <2>0, <3>2, <3>4, <3>5 DEF CallsAfter
  <2>2. CASE p.id \notin DOMAIN named
    <3>1. p.id \in fresh /\ Local(p.id, fresh) <= ID_MAX
      BY <1>7, <1>21, <2>2 DEF NamedAs
    <3>2. p \in group
      BY <1>20, <3>1
    <3>3. named'[p.id] = next + Cardinality(Below(p.label, unnamed))
      BY <1>7, <1>18, <3>1, <3>2 DEF NamedAs
    <3>4. p.label \in unnamed
      BY <1>12, <3>2
    <3>5. p.label > 0
      BY <1>5, <3>2
    <3>6. <<p.label, p.left>> \in Open'
      BY <1>10, <3>5
    <3> QED
      BY <2>0, <3>3, <3>4, <3>5, <3>6 DEF CallsAfter
  <2> QED
    BY <2>1, <2>2
<1>22. ASSUME NEW x \in CallsAfter(Open', Calls, unnamed, next)
       PROVE  \E p \in arena' : p.id \in DOMAIN named' /\ x = <<p.label, named'[p.id]>>
  <2>1. /\ x \in Int \X Ids /\ \E k \in Int : <<x[1], k>> \in Open'
        /\ \/ x \in Calls
           \/ x[1] \in unnamed /\ x[2] = next + Cardinality(Below(x[1], unnamed))
    BY DEF CallsAfter
  <2>2. x = <<x[1], x[2]>> /\ x[2] \in Ids
    BY <2>1
  <2>3. PICK p \in arena' : p.label = x[1]
    BY <1>10, <2>1
  <2>4. p.id \in Live'
    BY <1>3
  <2>5. CASE x \in Calls
    <3>1. PICK q \in arena : q.id \in DOMAIN named /\ x = <<q.label, named[q.id]>>
      BY <2>5 DEF Calls
    <3>2. q.label = p.label /\ x[2] = named[q.id]
      BY <2>3, <3>1
    <3>3. q.id = p.id
      BY <1>9, <3>2
    <3>4. p.id \in DOMAIN named' /\ named'[p.id] = named[p.id]
      BY <1>7, <2>4, <3>1, <3>3 DEF NamedAs
    <3> QED
      BY <2>2, <2>3, <3>2, <3>3, <3>4
  <2>6. CASE x[1] \in unnamed /\ x[2] = next + Cardinality(Below(x[1], unnamed))
    <3>1. PICK r \in group : r.label = x[1]
      BY <1>12, <2>6
    <3>2. r = p
      BY <1>2, <1>5, <2>3, <3>1
    <3>3. x[2] = Local(p.id, fresh) /\ p.id \in fresh
      BY <1>18, <1>20, <2>6, <3>1, <3>2
    <3>4. Local(p.id, fresh) <= ID_MAX
      BY <2>2, <3>3, ConstantFacts DEF Ids
    <3>5. p.id \in DOMAIN named' /\ named'[p.id] = x[2]
      BY <1>7, <3>3, <3>4 DEF NamedAs
    <3> QED
      BY <2>2, <2>3, <3>5
  <2> QED
    BY <2>1, <2>5, <2>6
<1>23. Calls' = {<<p.label, named'[p.id]>> : p \in {q \in arena' : q.id \in DOMAIN named'}}
  BY DEF Calls
<1>24. OnlyOpen'
  BY <1>21 DEF OnlyOpen
<1>25. Calls' = CallsAfter(Open', Calls, unnamed, next)
  BY <1>21, <1>22, <1>23
<1>26. view' = ViewAfter(Calls', seenLabels)
  <2>1. ASSUME NEW p \in Shown(seenLabels)'
        PROVE  /\ p.label \in seenLabels /\ named'[p.id] \in Ids
               /\ \A n \in Ids : <<p.label, n>> \in Calls' <=> n = named'[p.id]
    <3>1. p \in arena' /\ p.label \in seenLabels /\ p.id \in DOMAIN named'
      BY <1>3
    <3>2. named'[p.id] \in Ids /\ <<p.label, named'[p.id]>> \in Calls'
      BY <1>0, <1>23, <3>1 DEF HandleTypeOK
    <3>3. ASSUME NEW n \in Ids, <<p.label, n>> \in Calls' PROVE n = named'[p.id]
      <4>1. PICK q \in arena' : q.id \in DOMAIN named' /\ <<p.label, n>> = <<q.label, named'[q.id]>>
        BY <1>23, <3>3
      <4> QED
        BY <1>2, <3>1, <4>1
    <3> QED
      BY <3>1, <3>2, <3>3
  <2>2. ASSUME NEW l \in seenLabels, NEW n \in Ids, <<l, n>> \in Calls'
        PROVE  \E p \in Shown(seenLabels)' : p.label = l
    BY <1>3, <1>23, <2>2
  <2>3. DOMAIN view' = {k \in seenLabels : \E n \in Ids : <<k, n>> \in Calls'}
    <3>1. \A l \in DOMAIN view' : l \in seenLabels /\ \E n \in Ids : <<l, n>> \in Calls'
      <4> SUFFICES ASSUME NEW l \in DOMAIN view'
                   PROVE  l \in seenLabels /\ \E n \in Ids : <<l, n>> \in Calls'
        OBVIOUS
      <4>1. PICK p \in Shown(seenLabels)' : p.label = l
        BY <1>1
      <4> QED
        BY <2>1, <4>1
    <3>2. \A l \in seenLabels : (\E n \in Ids : <<l, n>> \in Calls') => l \in DOMAIN view'
      <4> SUFFICES ASSUME NEW l \in seenLabels, NEW n \in Ids, <<l, n>> \in Calls'
                   PROVE  l \in DOMAIN view'
        OBVIOUS
      <4>1. PICK p \in Shown(seenLabels)' : p.label = l
        BY <2>2
      <4> QED
        BY <1>1, <4>1
    <3> QED
      BY <3>1, <3>2
  <2>4. ASSUME NEW l \in DOMAIN view' PROVE view'[l] = CHOOSE n \in Ids : <<l, n>> \in Calls'
    <3>1. PICK p \in Shown(seenLabels)' : p.label = l
      BY <1>1
    <3>2. view'[l] = named'[p.id]
      BY <1>1, <3>1
    <3>3. named'[p.id] \in Ids /\ \A n \in Ids : <<l, n>> \in Calls' <=> n = named'[p.id]
      BY <2>1, <3>1
    <3> QED
      BY <3>2, <3>3
  <2> QED
    BY <1>1, <2>3, <2>4 DEF ViewAfter
<1>27. told' = told \cup {<<l, view'[l]>> : l \in DOMAIN view'}
  BY <1>1
<1> QED
  BY <1>19, <1>24, <1>25, <1>26, <1>27
-----------------------------------------------------------------------------
(* A match whose open casts are labelled 1..s and whose hidden ones -h..-1, *)
(* in a tick that casts n of the first and k of the second.                *)

Casting(new, s, n, h, k) ==
  /\ new \in Seq(Int) /\ Len(new) = n + k /\ n + k <= PerTick
  /\ \A i \in DOMAIN new : new[i] \in (s + 1)..(s + n) \/ new[i] \in (-(h + k))..(-(h + 1))
  /\ \A i, j \in DOMAIN new : new[i] = new[j] => i = j
  /\ \A i, j \in DOMAIN new : i < j /\ new[i] > 0 /\ new[j] > 0 => new[i] < new[j]
  /\ {l \in {new[i] : i \in DOMAIN new} : l > 0} = (s + 1)..(s + n)

Labelled(s, h) ==
  /\ Labels \subseteq (-h)..s
  /\ \A x \in told : x[1] \in (-h)..s

LEMMA CastingIsNew ==
  ASSUME NEW s \in Nat, NEW h \in Nat, NEW n \in Nat, NEW k \in Nat,
         NEW new, Casting(new, s, n, h, k), Labelled(s, h)
  PROVE  New(new)
<1>1. \A i \in DOMAIN new : new[i] \notin (-h)..s
  BY DEF Casting
<1> QED
  BY <1>1 DEF New, Casting, Labelled

LEMMA MatchStep ==
  ASSUME HandleConstants, HInv,
         NEW s \in Nat, NEW h \in Nat, NEW n \in Nat, NEW k \in Nat,
         NEW new, Casting(new, s, n, h, k), Labelled(s, h),
         NEW hit, NEW seenLabels, Tick(new, hit, seenLabels)
  PROVE  HInv' /\ Labelled(s + n, h + k)'
<1>0. New(new) /\ HandleTypeOK
  BY CastingIsNew DEF HInv
<1>1. HInv' /\ (\A x \in told' : x \in told \/ x[1] \in Labels')
  BY <1>0, TickHolds
<1>2. \A p \in arena' : \E q \in Launched(new) : p = After(q) /\ q.label \notin hit
  BY <1>0, TickHolds
<1>3. new \in Seq(Int) /\ Len(new) <= PerTick /\ Len(new) = n + k /\ DOMAIN new = 1..(n + k)
  BY DEF Casting
<1>4. Launched(new) = arena \cup {Cast(new, i) : i \in 1..Fits(new)} /\ Fits(new) \in 0..(n + k)
  BY <1>0, <1>3, LaunchedIs, FitsIs
<1>5. \A l \in (-h)..s : l \in (-(h + k))..(s + n)
  OBVIOUS
<1>6. ASSUME NEW q \in Launched(new) PROVE q.label \in (-(h + k))..(s + n)
  <2>1. CASE q \in arena
    BY <1>5, <2>1 DEF Labelled, Labels
  <2>2. ASSUME NEW i \in 1..Fits(new), q = Cast(new, i) PROVE q.label \in (-(h + k))..(s + n)
    <3>1. q.label = new[i] /\ i \in DOMAIN new
      BY <1>3, <1>4, <2>2 DEF Cast
    <3>2. new[i] \in (s + 1)..(s + n) \/ new[i] \in (-(h + k))..(-(h + 1))
      BY <3>1 DEF Casting
    <3> QED
      BY <3>1, <3>2
  <2> QED
    BY <1>4, <2>1, <2>2
<1>7. Labels' \subseteq (-(h + k))..(s + n)
  <2> SUFFICES ASSUME NEW p \in arena' PROVE p.label \in (-(h + k))..(s + n)
    BY DEF Labels
  <2>1. PICK q \in Launched(new) : p = After(q)
    BY <1>2
  <2> QED
    BY <1>6, <2>1 DEF After
<1>8. \A x \in told' : x[1] \in (-(h + k))..(s + n)
  <2>1. \A x \in told : x[1] \in (-(h + k))..(s + n)
    BY <1>5 DEF Labelled
  <2> QED
    BY <1>1, <1>7, <2>1
<1> QED
  BY <1>1, <1>7, <1>8 DEF Labelled

(* None came round yet: the tick, by label.                                *)
LEMMA QuietStep ==
  ASSUME HandleConstants, HInv,
         NEW s \in Nat, NEW h \in Nat, NEW n \in Nat, NEW k \in Nat,
         NEW new, Casting(new, s, n, h, k), Labelled(s, h),
         NEW hit, NEW seenLabels, Tick(new, hit, seenLabels),
         \A l \in seenLabels : l \in Int /\ l > 0,
         Cardinality(arena) + n + k <= MAX_PROJECTILES,
         s + n + h + k <= N, Counted(s + h), InOrder, OnlyOpen,
         NEW unnamed, unnamed = Unnamed(Open', Calls, seenLabels)
  PROVE  /\ Counted(s + n + h + k)' /\ InOrder' /\ OnlyOpen'
         /\ Open' = OpenAfter(Open, (s + 1)..(s + n), hit)
         /\ Calls' = CallsAfter(Open', Calls, unnamed, next)
         /\ next' = IssuedAfter(unnamed, next)
         /\ view' = ViewAfter(Calls', seenLabels)
         /\ told' = told \cup {<<l, view'[l]>> : l \in DOMAIN view'}
<1>0. New(new) /\ HandleTypeOK /\ ArenaInv
  BY CastingIsNew DEF HInv
<1>1. new \in Seq(Int) /\ Len(new) <= PerTick /\ Len(new) = n + k /\ DOMAIN new = 1..(n + k)
  BY DEF Casting
<1>2. Fits(new) = Len(new)
  <2>1. Cardinality(arena) \in Nat
    BY <1>0, FS_CardinalityType DEF HandleTypeOK
  <2>2. Cardinality(arena) + Len(new) <= MAX_PROJECTILES
    BY <1>1, <2>1, ConstantFacts
  <2> QED
    BY <1>0, <1>1, <2>2, FitsIs
<1>3. NewInOrder(new)
  <2>1. \A p \in arena : p.label \in (-h)..s
    BY DEF Labelled, Labels
  <2>2. \A i \in DOMAIN new : new[i] > 0 => new[i] \in (s + 1)..(s + n)
    BY DEF Casting
  <2>3. \A p \in arena, i \in DOMAIN new : p.label > 0 /\ new[i] > 0 => p.label < new[i]
    BY <2>1, <2>2
  <2> QED
    BY <2>3 DEF NewInOrder, Casting
<1>4. Counted(s + n + h + k)' /\ InOrder'
  <2>1. PICK total \in Nat : total = s + h
    OBVIOUS
  <2>2. total + Len(new) = s + n + h + k
    BY <1>1, <2>1
  <2>3. Counted(total) /\ total + Len(new) <= N
    BY <2>1, <2>2
  <2>4. Counted(total + Len(new))' /\ InOrder'
    BY <1>0, <1>2, <1>3, <2>3, OrderStep
  <2> QED
    BY <2>2, <2>4
<1>5. Open' = OpenAfter(Open, (s + 1)..(s + n), hit)
  <2>1. Positive(new) = (s + 1)..(s + n)
    BY DEF Positive, Casting
  <2>2. arena' = Flown(Launched(new), hit)
    BY <1>0, TickIs
  <2> QED
    BY <1>0, <1>2, <2>1, <2>2, OpenStep
<1> QED
  BY <1>0, <1>4, <1>5, CallsStep
=============================================================================
