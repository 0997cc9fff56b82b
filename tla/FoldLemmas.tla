----------------------------- MODULE FoldLemmas -----------------------------
(***************************************************************************)
(* What a fold along a sequence is, for any operator: a run of values that *)
(* begins with the base and takes each element in turn; and what a fold    *)
(* over a finite set is: a value for each of its subsets, one element on   *)
(* top of another.  A module that proves about a fold instantiates this    *)
(* one with the operator folded.                                           *)
(***************************************************************************)
EXTENDS Integers, Sequences, SequenceTheorems, FiniteSetTheorems, WellFoundedInduction, TLAPS

CONSTANTS
  Op(_, _),   \* what is folded: the value so far, and an element
  V,          \* where its values are
  E           \* where the elements are

(* FoldLeft of SequencesExt, which takes the last element on top of what   *)
(* the others give, with its operator fixed.                               *)
Greatest(t) == CHOOSE i \in t : \A j \in t : i >= j

Folded(b, s) ==
  LET iter[t \in SUBSET (DOMAIN s)] ==
        IF t = {} THEN b ELSE Op(iter[t \ {Greatest(t)}], s[Greatest(t)])
  IN  iter[DOMAIN s]

(* Every set of numbers has a least one.                                   *)
LEMMA LeastNumber ==
  ASSUME NEW S \in SUBSET Nat, S # {}
  PROVE  \E s \in S : \A r \in S : s <= r
<1> DEFINE R == {ss \in Nat \X Nat : ss[1] < ss[2]}
<1>1. IsWellFoundedOn(R, Nat)
  BY NatLessThanWellFounded DEF OpToRel
<1>2. \A a, b \in Nat : a < b => <<a, b>> \in R
  OBVIOUS
<1>3. PICK s \in S : \A r \in S : ~(<<r, s>> \in R)
  <2> HIDE DEF R
  <2> QED
    BY <1>1, WFMin
<1> HIDE DEF R
<1>4. \A r \in S : ~(r < s)
  BY <1>2, <1>3
<1>5. \A r \in S : s <= r
  BY <1>4
<1> QED
  BY <1>5

(* Counting up: a set that holds 0, and with each number below n the next, *)
(* holds them all.                                                         *)
LEMMA CountingUp ==
  ASSUME NEW n \in Nat, NEW S, 0 \in S, \A i \in 0..(n - 1) : i \in S => i + 1 \in S
  PROVE  \A i \in 0..n : i \in S
<1> DEFINE Left == {i \in 0..n : i \notin S}
<1> SUFFICES ASSUME Left # {} PROVE FALSE
  OBVIOUS
<1>1. Left \in SUBSET Nat
  OBVIOUS
<1>2. PICK m \in Left : \A r \in Left : m <= r
  BY <1>1, LeastNumber
<1>3. m # 0 /\ m \in 0..n /\ m - 1 \in 0..(n - 1) /\ m - 1 \notin Left
  BY <1>2
<1>4. m - 1 \in S /\ (m - 1) + 1 = m
  BY <1>3
<1> QED
  BY <1>2, <1>3, <1>4

(* The greatest of a few places.                                           *)
LEMMA GreatestOf ==
  ASSUME NEW n \in Nat, NEW t \in SUBSET (1..n), t # {}
  PROVE  Greatest(t) \in t /\ \A i \in t : i <= Greatest(t)
<1> DEFINE Above == {m \in Nat : \A i \in t : i <= m}
<1>1. n \in Above /\ Above \in SUBSET Nat
  OBVIOUS
<1>2. PICK m \in Above : \A r \in Above : m <= r
  BY <1>1, LeastNumber
<1>3. m \in t
  <2> SUFFICES ASSUME m \notin t PROVE FALSE
    OBVIOUS
  <2>1. PICK i \in t : i \in 1..n
    OBVIOUS
  <2>2. m \in Nat /\ m - 1 \in Nat /\ \A j \in t : j \in Nat /\ j <= m /\ j # m
    BY <1>2, <2>1
  <2>3. \A j \in t : j <= m - 1
    BY <2>2
  <2>4. m - 1 \in Above
    BY <2>2, <2>3
  <2> QED
    BY <1>2, <2>2, <2>4
<1>4. \A i \in t : m >= i
  BY <1>2
<1> QED
  BY <1>3, <1>4 DEF Greatest

LEMMA LastIsGreatest ==
  ASSUME NEW m \in Nat, NEW t \in SUBSET (1..(m + 1)), m + 1 \in t
  PROVE  Greatest(t) = m + 1
<1>1. m + 1 \in Nat /\ t # {}
  OBVIOUS
<1>2. Greatest(t) \in t /\ \A i \in t : i <= Greatest(t)
  BY <1>1, GreatestOf
<1>3. Greatest(t) \in 1..(m + 1) /\ m + 1 <= Greatest(t)
  BY <1>2
<1> QED
  BY <1>3

(* The value so far after each of the sets a fold is defined by.           *)
LEMMA FoldExists ==
  ASSUME NEW b \in V, NEW s \in Seq(E), \A v \in V, e \in E : Op(v, e) \in V
  PROVE  \E g \in [SUBSET (DOMAIN s) -> V] :
           \A t \in SUBSET (DOMAIN s) :
             g[t] = IF t = {} THEN b ELSE Op(g[t \ {Greatest(t)}], s[Greatest(t)])
<1> DEFINE n == Len(s)
<1>1. n \in Nat /\ DOMAIN s = 1..n /\ \A i \in 1..n : s[i] \in E
  OBVIOUS
<1> DEFINE Good(g, m) ==
      /\ g \in [SUBSET (1..m) -> V]
      /\ \A t \in SUBSET (1..m) :
           g[t] = IF t = {} THEN b ELSE Op(g[t \ {Greatest(t)}], s[Greatest(t)])
           S == {m \in 0..n : \E g : Good(g, m)}
<1> HIDE DEF n
<1>2. 0 \in S
  <2>1. SUBSET (1..0) = {{}}
    OBVIOUS
  <2>2. Good([t \in SUBSET (1..0) |-> b], 0)
    BY <2>1
  <2> HIDE DEF Good
  <2> QED
    BY <1>1, <2>2
<1>3. ASSUME NEW m \in 0..(n - 1), m \in S PROVE m + 1 \in S
  <2>1. PICK g : Good(g, m)
    BY <1>3
  <2>2. /\ m \in Nat /\ m + 1 \in 1..n /\ m + 1 \in 0..n
        /\ 1..m \subseteq 1..(m + 1) /\ m + 1 \in 1..(m + 1) /\ m + 1 \notin 1..m
        /\ 1..(m + 1) = (1..m) \cup {m + 1}
    BY <1>1
  <2> DEFINE k == m + 1
             T == SUBSET (1..k)
             h == [t \in T |-> IF k \in t THEN Op(g[t \ {k}], s[k]) ELSE g[t]]
  <2>3. ASSUME NEW t \in T, k \in t
        PROVE  /\ t \ {k} \in SUBSET (1..m) /\ t # {} /\ k \notin t \ {k} /\ t \ {k} \in T
               /\ Greatest(t) = k
    <3>1. Greatest(t) = k
      BY <2>2, <2>3, LastIsGreatest
    <3> QED
      BY <2>2, <2>3, <3>1
  <2>4. ASSUME NEW t \in T, k \notin t
        PROVE  /\ t \in SUBSET (1..m)
               /\ t # {} => t \ {Greatest(t)} \in SUBSET (1..m) /\ k \notin t \ {Greatest(t)} /\ t \ {Greatest(t)} \in T
    BY <2>2, <2>4
  <2> HIDE DEF k, T
  <2>5. h \in [T -> V]
    <3> SUFFICES ASSUME NEW t \in T
                 PROVE (IF k \in t THEN Op(g[t \ {k}], s[k]) ELSE g[t]) \in V
      OBVIOUS
    <3>1. CASE k \in t
      <4>1. g[t \ {k}] \in V /\ s[k] \in E
        BY <1>1, <2>1, <2>2, <2>3, <3>1 DEF k
      <4> QED
        BY <3>1, <4>1
    <3>2. CASE k \notin t
      BY <2>1, <2>4, <3>2
    <3> QED
      BY <3>1, <3>2
  <2>6. ASSUME NEW t \in T
        PROVE  h[t] = IF t = {} THEN b ELSE Op(h[t \ {Greatest(t)}], s[Greatest(t)])
    <3>1. CASE k \in t
      <4>1. h[t] = Op(g[t \ {k}], s[k]) /\ h[t \ {k}] = g[t \ {k}]
        BY <2>3, <3>1
      <4> QED
        BY <2>3, <3>1, <4>1
    <3>2. CASE k \notin t
      <4>1. h[t] = g[t] /\ (t # {} => h[t \ {Greatest(t)}] = g[t \ {Greatest(t)}])
        BY <2>4, <3>2
      <4>2. g[t] = IF t = {} THEN b ELSE Op(g[t \ {Greatest(t)}], s[Greatest(t)])
        BY <2>1, <2>4, <3>2
      <4> QED
        BY <4>1, <4>2
    <3> QED
      BY <3>1, <3>2
  <2> HIDE DEF h
  <2>7. Good(h, m + 1)
    BY <2>5, <2>6 DEF T, k
  <2> HIDE DEF Good
  <2> QED
    BY <2>2, <2>7
<1> HIDE DEF S
<1>4. n \in S
  <2>1. \A i \in 0..n : i \in S
    BY <1>1, <1>2, <1>3, CountingUp
  <2> QED
    BY <1>1, <2>1
<1> QED
  BY <1>1, <1>4 DEF S

(* A fold is where a run ends that starts at the base and takes the        *)
(* elements one by one.                                                    *)
THEOREM FoldRuns ==
  ASSUME NEW b \in V, NEW s \in Seq(E), \A v \in V, e \in E : Op(v, e) \in V
  PROVE  \E run \in [0..Len(s) -> V] :
           /\ run[0] = b
           /\ \A i \in 1..Len(s) : run[i] = Op(run[i - 1], s[i])
           /\ Folded(b, s) = run[Len(s)]
<1> DEFINE D == DOMAIN s
           Is(g) == g = [t \in SUBSET D |->
                           IF t = {} THEN b ELSE Op(g[t \ {Greatest(t)}], s[Greatest(t)])]
           g == CHOOSE g : Is(g)
           n == Len(s)
           run == [i \in 0..n |-> g[1..i]]
<1>1. n \in Nat /\ D = 1..n
  OBVIOUS
<1>2. PICK f \in [SUBSET D -> V] :
        \A t \in SUBSET D : f[t] = IF t = {} THEN b ELSE Op(f[t \ {Greatest(t)}], s[Greatest(t)])
  BY FoldExists
<1>3. Is(f)
  <2> HIDE DEF D
  <2> QED
    BY <1>2
<1>4. Is(g)
  <2> HIDE DEF Is
  <2> QED
    BY <1>3
<1>5. Folded(b, s) = g[D]
  BY DEF Folded
<1>6. \A t \in SUBSET D : g[t] = IF t = {} THEN b ELSE Op(g[t \ {Greatest(t)}], s[Greatest(t)])
  <2> HIDE DEF D, g
  <2> QED
    BY <1>4
<1> HIDE DEF g
<1>7. \A i \in 0..n : 1..i \in SUBSET D
  BY <1>1
<1>8. 1..0 = {}
  OBVIOUS
<1> HIDE DEF n, D
<1>9. run[0] = b
  <2>1. 0 \in 0..n /\ {} \in SUBSET D
    BY <1>1
  <2> QED
    BY <1>6, <1>8, <2>1
<1>10. ASSUME NEW i \in 1..n PROVE run[i] = Op(run[i - 1], s[i])
  <2>1. /\ i \in 0..n /\ i - 1 \in 0..n /\ i - 1 \in Nat
        /\ i \in 1..i /\ (1..i) \ {i} = 1..(i - 1) /\ (i - 1) + 1 = i
    BY <1>1
  <2>2. Greatest(1..i) = i
    <3>1. 1..i \in SUBSET (1..((i - 1) + 1)) /\ (i - 1) + 1 \in 1..i
      BY <2>1
    <3> QED
      BY <2>1, <3>1, LastIsGreatest
  <2>3. g[1..i] = Op(g[1..(i - 1)], s[i])
    BY <1>6, <1>7, <2>1, <2>2
  <2> QED
    BY <2>1, <2>3
<1>11. run \in [0..n -> V]
  <2> DEFINE S == {i \in 0..n : run[i] \in V}
  <2>1. 0 \in S
    BY <1>1, <1>9
  <2>2. ASSUME NEW i \in 0..(n - 1), i \in S PROVE i + 1 \in S
    <3>1. i + 1 \in 1..n /\ i + 1 \in 0..n /\ (i + 1) - 1 = i
      BY <1>1
    <3>2. s[i + 1] \in E
      BY <1>1, <3>1 DEF D
    <3>3. run[i + 1] = Op(run[i], s[i + 1])
      BY <1>10, <3>1
    <3> HIDE DEF run
    <3> QED
      BY <2>2, <3>1, <3>2, <3>3
  <2> HIDE DEF S
  <2>3. \A i \in 0..n : i \in S
    BY <1>1, <2>1, <2>2, CountingUp
  <2> QED
    BY <2>3 DEF S
<1>12. run[n] = g[D]
  BY <1>1
<1> HIDE DEF run
<1>13. /\ run \in [0..n -> V] /\ run[0] = b
       /\ \A i \in 1..n : run[i] = Op(run[i - 1], s[i])
       /\ Folded(b, s) = run[n]
  BY <1>5, <1>9, <1>10, <1>11, <1>12
<1> QED
  BY <1>13 DEF n

(* What holds of the base and is kept by every step holds of the fold.     *)
THEOREM FoldKeeps ==
  ASSUME NEW P \in SUBSET V, NEW b \in P, NEW s \in Seq(E),
         \A v \in V, e \in E : Op(v, e) \in V,
         \A v \in P, e \in E : Op(v, e) \in P
  PROVE  Folded(b, s) \in P
<1>1. PICK run \in [0..Len(s) -> V] :
        /\ run[0] = b
        /\ \A i \in 1..Len(s) : run[i] = Op(run[i - 1], s[i])
        /\ Folded(b, s) = run[Len(s)]
  BY FoldRuns
<1> DEFINE n == Len(s)
           S == {i \in 0..n : run[i] \in P}
<1>2. n \in Nat /\ \A i \in 1..n : s[i] \in E
  OBVIOUS
<1>3. 0 \in S
  BY <1>1, <1>2
<1>4. ASSUME NEW i \in 0..(n - 1), i \in S PROVE i + 1 \in S
  <2>1. i + 1 \in 1..n /\ i + 1 \in 0..n /\ (i + 1) - 1 = i
    BY <1>2
  <2>2. run[i + 1] = Op(run[i], s[i + 1])
    BY <1>1, <2>1
  <2> QED
    BY <1>2, <1>4, <2>1, <2>2
<1> HIDE DEF n, S
<1>5. \A i \in 0..n : i \in S
  BY <1>2, <1>3, <1>4, CountingUp
<1>6. n \in S
  BY <1>2, <1>5
<1> QED
  BY <1>1, <1>6 DEF n, S

(* A fold of nothing is the base, and a fold of one element more is one    *)
(* step more.                                                              *)
THEOREM FoldAppends ==
  ASSUME NEW b \in V, NEW s \in Seq(E), NEW e \in E, \A v \in V, f \in E : Op(v, f) \in V
  PROVE  /\ Folded(b, s) \in V
         /\ Folded(b, Append(s, e)) = Op(Folded(b, s), e)
<1> DEFINE n == Len(s)
           t == Append(s, e)
<1>1. /\ n \in Nat /\ t \in Seq(E) /\ Len(t) = n + 1
      /\ t[n + 1] = e /\ \A i \in 1..n : t[i] = s[i]
  BY AppendProperties
<1>2. PICK p \in [0..Len(s) -> V] :
        /\ p[0] = b
        /\ \A i \in 1..Len(s) : p[i] = Op(p[i - 1], s[i])
        /\ Folded(b, s) = p[Len(s)]
  BY FoldRuns
<1>3. PICK q \in [0..Len(t) -> V] :
        /\ q[0] = b
        /\ \A i \in 1..Len(t) : q[i] = Op(q[i - 1], t[i])
        /\ Folded(b, t) = q[Len(t)]
  BY <1>1, FoldRuns
<1> HIDE DEF n, t
<1>4. \A i \in 1..n : i \in 1..(n + 1) /\ p[i] = Op(p[i - 1], s[i]) /\ q[i] = Op(q[i - 1], s[i])
  BY <1>1, <1>2, <1>3 DEF n
<1>5. p[n] = q[n]
  <2> DEFINE S == {i \in 0..n : p[i] = q[i]}
  <2>1. 0 \in S
    BY <1>1, <1>2, <1>3
  <2>2. ASSUME NEW i \in 0..(n - 1), i \in S PROVE i + 1 \in S
    <3>1. i + 1 \in 1..n /\ i + 1 \in 0..n /\ (i + 1) - 1 = i
      BY <1>1
    <3> QED
      BY <1>4, <2>2, <3>1
  <2> HIDE DEF S
  <2>3. \A i \in 0..n : i \in S
    BY <1>1, <2>1, <2>2, CountingUp
  <2> QED
    BY <1>1, <2>3, SMTT(40) DEF S
<1>6. q[n + 1] = Op(q[n], e)
  <2>1. n + 1 \in 1..(n + 1) /\ (n + 1) - 1 = n
    BY <1>1
  <2>2. q[n + 1] = Op(q[(n + 1) - 1], t[n + 1])
    BY <1>1, <1>3, <2>1
  <2> QED
    BY <1>1, <2>1, <2>2
<1>7. p[n] \in V
  BY <1>1, <1>2 DEF n
<1> QED
  BY <1>1, <1>2, <1>3, <1>5, <1>6, <1>7 DEF n, t

THEOREM FoldOfNothing ==
  ASSUME NEW b \in V, \A v \in V, f \in E : Op(v, f) \in V
  PROVE  Folded(b, <<>>) = b
<1>1. <<>> \in Seq(E) /\ Len(<<>>) = 0
  OBVIOUS
<1>2. PICK p \in [0..Len(<<>>) -> V] : p[0] = b /\ Folded(b, <<>>) = p[Len(<<>>)]
  BY <1>1, FoldRuns, ZenonT(60)
<1> QED
  BY <1>1, <1>2

-----------------------------------------------------------------------------
(* FoldSet of FiniteSetsExt, which takes the elements in the order CHOOSE  *)
(* gives them, with its operator fixed (and its arguments exchanged).      *)
Picked(t) == CHOOSE x \in t : TRUE

Gathered(b, S) ==
  LET iter[t \in SUBSET S] ==
        IF t = {} THEN b ELSE Op(iter[t \ {Picked(t)}], Picked(t))
  IN  iter[S]

LEMMA PickedOf ==
  ASSUME NEW S, NEW t \in SUBSET S, t # {}, IsFiniteSet(S)
  PROVE  /\ Picked(t) \in t /\ t \ {Picked(t)} \in SUBSET S
         /\ IsFiniteSet(t) /\ Cardinality(t) \in Nat /\ Cardinality(t) <= Cardinality(S)
         /\ Cardinality(t) # 0 /\ Cardinality(t \ {Picked(t)}) = Cardinality(t) - 1
<1>1. Picked(t) \in t
  BY DEF Picked
<1>2. IsFiniteSet(t) /\ Cardinality(t) <= Cardinality(S)
  BY FS_Subset
<1>3. Cardinality(t) \in Nat /\ Cardinality(t) # 0
  BY <1>2, FS_CardinalityType, FS_EmptySet
<1>4. Cardinality(t \ {Picked(t)}) = Cardinality(t) - 1
  BY <1>1, <1>2, FS_RemoveElement
<1> QED
  BY <1>1, <1>2, <1>3, <1>4

(* A set of subsets that holds the empty one, and each that the fold       *)
(* reaches from one it holds, holds them all.                              *)
LEMMA SubsetsUp ==
  ASSUME NEW S, IsFiniteSet(S), NEW P, {} \in P,
         \A t \in SUBSET S : t # {} /\ t \ {Picked(t)} \in P => t \in P
  PROVE  \A t \in SUBSET S : t \in P
<1> DEFINE n == Cardinality(S)
           R == {i \in 0..n : \A t \in SUBSET S : Cardinality(t) = i => t \in P}
<1>1. n \in Nat
  BY FS_CardinalityType
<1>2. \A t \in SUBSET S : IsFiniteSet(t) /\ Cardinality(t) \in 0..n
  <2> TAKE t \in SUBSET S
  <2>1. IsFiniteSet(t) /\ Cardinality(t) <= n
    BY FS_Subset
  <2>2. Cardinality(t) \in Nat
    BY <2>1, FS_CardinalityType
  <2> QED
    BY <1>1, <2>1, <2>2
<1>3. 0 \in R
  <2>1. \A t \in SUBSET S : Cardinality(t) = 0 => t = {}
    BY <1>2, FS_EmptySet
  <2> QED
    BY <1>1, <2>1
<1>4. ASSUME NEW i \in 0..(n - 1), i \in R PROVE i + 1 \in R
  <2>1. i \in Nat /\ i + 1 \in 0..n
    BY <1>1
  <2>2. ASSUME NEW t \in SUBSET S, Cardinality(t) = i + 1 PROVE t \in P
    <3>1. t # {}
      <4>1. Cardinality(t) # 0
        BY <2>1, <2>2
      <4> QED
        BY <4>1, FS_EmptySet
    <3>2. t \ {Picked(t)} \in SUBSET S /\ Cardinality(t \ {Picked(t)}) = i
      BY <2>1, <2>2, <3>1, PickedOf
    <3>3. t \ {Picked(t)} \in P
      BY <1>4, <3>2
    <3> QED
      BY <3>1, <3>3
  <2> QED
    BY <2>1, <2>2
<1> HIDE DEF n, R
<1>5. \A i \in 0..n : i \in R
  BY <1>1, <1>3, <1>4, CountingUp
<1> QED
  BY <1>2, <1>5 DEF R

LEMMA GatherExists ==
  ASSUME NEW b \in V, NEW S \in SUBSET E, IsFiniteSet(S), \A v \in V, e \in E : Op(v, e) \in V
  PROVE  \E g \in [SUBSET S -> V] :
           \A t \in SUBSET S : g[t] = IF t = {} THEN b ELSE Op(g[t \ {Picked(t)}], Picked(t))
<1> DEFINE n == Cardinality(S)
           Small(m) == {t \in SUBSET S : Cardinality(t) <= m}
           Good(g, m) ==
             /\ g \in [Small(m) -> V]
             /\ \A t \in Small(m) : g[t] = IF t = {} THEN b ELSE Op(g[t \ {Picked(t)}], Picked(t))
           R == {m \in 0..n : \E g : Good(g, m)}
<1>1. n \in Nat
  BY FS_CardinalityType
<1>2. \A t \in SUBSET S : IsFiniteSet(t) /\ Cardinality(t) \in Nat /\ Cardinality(t) <= n
  <2> TAKE t \in SUBSET S
  <2>1. IsFiniteSet(t) /\ Cardinality(t) <= n
    BY FS_Subset
  <2>2. Cardinality(t) \in Nat
    BY <2>1, FS_CardinalityType
  <2> QED
    BY <2>1, <2>2
<1>3. \A t \in SUBSET S : t # {} =>
         /\ Picked(t) \in E /\ t \ {Picked(t)} \in SUBSET S
         /\ Cardinality(t) # 0 /\ Cardinality(t \ {Picked(t)}) = Cardinality(t) - 1
  <2> SUFFICES ASSUME NEW t \in SUBSET S, t # {}
               PROVE  /\ Picked(t) \in E /\ t \ {Picked(t)} \in SUBSET S
                      /\ Cardinality(t) # 0 /\ Cardinality(t \ {Picked(t)}) = Cardinality(t) - 1
    OBVIOUS
  <2>1. Picked(t) \in t /\ t \ {Picked(t)} \in SUBSET S
        /\ Cardinality(t) # 0 /\ Cardinality(t \ {Picked(t)}) = Cardinality(t) - 1
    BY PickedOf
  <2> QED
    BY <2>1
<1>4. 0 \in R
  <2>1. \A t \in Small(0) : t = {}
    BY <1>2, FS_EmptySet
  <2>2. Good([t \in Small(0) |-> b], 0)
    BY <2>1
  <2> HIDE DEF Good
  <2> QED
    BY <1>1, <2>2
<1>5. ASSUME NEW m \in 0..(n - 1), m \in R PROVE m + 1 \in R
  <2>1. PICK g : Good(g, m)
    BY <1>5
  <2>2. m \in Nat /\ m + 1 \in 0..n
    BY <1>1
  <2> DEFINE T == Small(m + 1)
             U == Small(m)
             h == [t \in T |-> IF t = {} THEN b ELSE Op(g[t \ {Picked(t)}], Picked(t))]
  <2>3. ASSUME NEW t \in T, t # {}
        PROVE  t \ {Picked(t)} \in U /\ t \ {Picked(t)} \in T /\ Picked(t) \in E
    <3>1. t \in SUBSET S /\ Cardinality(t) \in Nat /\ Cardinality(t) <= m + 1
      BY <1>2
    <3>2. /\ t \ {Picked(t)} \in SUBSET S /\ Picked(t) \in E
          /\ Cardinality(t \ {Picked(t)}) = Cardinality(t) - 1
      BY <1>3, <2>3, <3>1
    <3>3. Cardinality(t) - 1 <= m /\ Cardinality(t) - 1 <= m + 1
      BY <2>2, <3>1
    <3> QED
      BY <3>2, <3>3
  <2>4. \A t \in U : t \in T
    <3> SUFFICES ASSUME NEW t \in U PROVE t \in T
      OBVIOUS
    <3>1. Cardinality(t) \in Nat /\ Cardinality(t) <= m
      BY <1>2
    <3> QED
      BY <2>2, <3>1
  <2>5. g \in [U -> V] /\ \A t \in U : g[t] = IF t = {} THEN b ELSE Op(g[t \ {Picked(t)}], Picked(t))
    BY <2>1
  <2> HIDE DEF T, U
  <2>6. h \in [T -> V]
    <3> SUFFICES ASSUME NEW t \in T, t # {} PROVE Op(g[t \ {Picked(t)}], Picked(t)) \in V
      OBVIOUS
    <3> QED
      BY <2>3, <2>5
  <2>7. ASSUME NEW t \in T, t # {} PROVE h[t] = Op(h[t \ {Picked(t)}], Picked(t))
    <3> DEFINE u == t \ {Picked(t)}
    <3>1. u \in U /\ u \in T
      BY <2>3, <2>7
    <3>2. g[u] = IF u = {} THEN b ELSE Op(g[u \ {Picked(u)}], Picked(u))
      <4> HIDE DEF u
      <4> QED
        BY <2>5, <3>1
    <3>3. h[u] = IF u = {} THEN b ELSE Op(g[u \ {Picked(u)}], Picked(u))
      <4> HIDE DEF u
      <4> QED
        BY <3>1
    <3>4. h[t] = Op(g[u], Picked(t))
      BY <2>7
    <3> HIDE DEF h
    <3>5. h[u] = g[u]
      BY <3>2, <3>3
    <3> QED
      BY <3>4, <3>5
  <2>8. \A t \in T : t = {} => h[t] = b
    OBVIOUS
  <2> HIDE DEF h
  <2>9. Good(h, m + 1)
    BY <2>6, <2>7, <2>8 DEF T
  <2> HIDE DEF Good
  <2> QED
    BY <2>2, <2>9
<1>6. Small(n) = SUBSET S
  BY <1>2
<1> HIDE DEF n, R
<1>7. \A i \in 0..n : i \in R
  BY <1>1, <1>4, <1>5, CountingUp
<1>8. n \in 0..n
  BY <1>1
<1>9. PICK g : Good(g, n)
  BY <1>7, <1>8 DEF R
<1> QED
  BY <1>6, <1>9

(* A fold over a finite set is the value of the whole set under a function *)
(* that gives the empty subset the base and puts one element on top.       *)
THEOREM GatherRuns ==
  ASSUME NEW b \in V, NEW S \in SUBSET E, IsFiniteSet(S), \A v \in V, e \in E : Op(v, e) \in V
  PROVE  \E g \in [SUBSET S -> V] :
           /\ g[{}] = b
           /\ \A t \in SUBSET S : t # {} => g[t] = Op(g[t \ {Picked(t)}], Picked(t))
           /\ Gathered(b, S) = g[S]
<1> DEFINE Is(g) == g = [t \in SUBSET S |-> IF t = {} THEN b ELSE Op(g[t \ {Picked(t)}], Picked(t))]
           c == CHOOSE g : Is(g)
           Runs(g) == \A t \in SUBSET S : g[t] = IF t = {} THEN b ELSE Op(g[t \ {Picked(t)}], Picked(t))
<1>1. PICK f \in [SUBSET S -> V] : Runs(f)
  BY GatherExists
<1>2. Is(f)
  BY <1>1
<1>3. Is(c)
  <2> HIDE DEF Is
  <2> QED
    BY <1>2
<1>4. Gathered(b, S) = c[S]
  BY DEF Gathered
<1>5. Runs(c) /\ c = [t \in SUBSET S |-> c[t]]
  <2> HIDE DEF c
  <2> QED
    BY <1>3
<1> HIDE DEF c
<1>6. \A t \in SUBSET S : c[t] = f[t]
  <2> DEFINE P == {t \in SUBSET S : c[t] = f[t]}
  <2>1. {} \in P
    BY <1>1, <1>5
  <2>2. ASSUME NEW t \in SUBSET S, t # {}, t \ {Picked(t)} \in P PROVE t \in P
    BY <1>1, <1>5, <2>2
  <2> HIDE DEF P
  <2>3. \A t \in SUBSET S : t \in P
    BY <2>1, <2>2, SubsetsUp
  <2> QED
    BY <2>3 DEF P
<1>7. f[{}] = b /\ \A t \in SUBSET S : t # {} => f[t] = Op(f[t \ {Picked(t)}], Picked(t))
  BY <1>1
<1>8. Gathered(b, S) = f[S]
  BY <1>4, <1>6
<1> QED
  BY <1>7, <1>8
=============================================================================
