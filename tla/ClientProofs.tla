---------------------------- MODULE ClientProofs ----------------------------
(***************************************************************************)
(* Proofs about what one seat is told and what its client makes of it: the *)
(* queue of visible events (EventBacklog.tla), for any capacities, any     *)
(* number of events in a tick and any match; the client's prediction       *)
(* (Prediction.tla), for any rate limit, map and intentions; what it       *)
(* measures of its mouse in the lobby (Lobby.tla), for any table of        *)
(* targets apart from each other and any hand; and the names it is given   *)
(* for shots (HiddenCasts.tla), for any two matches that differ only where *)
(* it cannot see.                                                          *)
(*                                                                         *)
(* The queue is sorted because it is fed at one end, from ticks that come  *)
(* later, and drained at the other; that nothing waits long is a matter of *)
(* where in the queue an event of a given age may still stand.             *)
(*                                                                         *)
(* The prediction forgets nothing because both sides count alike: the      *)
(* stream up has no gap, so whatever is at or below an acknowledgement has *)
(* been decided, and acknowledgements reach the client in the order they   *)
(* were made, however many it misses. What the server has decided is the   *)
(* invariant of MatchProofs.tla.                                           *)
(*                                                                         *)
(* What it believes and draws is right because both sides fold the same    *)
(* intentions: element by element the beliefs agree but for an order that  *)
(* has arrived (FoldLemmas.tla), and a tick of movement makes them agree   *)
(* again. Every view still on its way carries that agreement with it.      *)
(*                                                                         *)
(* A crossing is counted right because a leg begins with the hand somewhere*)
(* on a target and, until it meets a wall, the counts are its way from     *)
(* there. And the names tell nothing of a shot fired out of sight because  *)
(* in both matches the shots it may see are named in the order of their    *)
(* labels.                                                                 *)
(***************************************************************************)
EXTENDS EventBacklog, Prediction, Lobby, HiddenCasts, MatchProofs, FiniteSetTheorems,
        SequenceTheorems, WellFoundedInduction, TLAPS

-----------------------------------------------------------------------------
(* The event backlog.                                                      *)

BacklogTypeOK ==
  /\ pending \in Seq(Event) /\ telling \in Seq(Nat)
  /\ dropped \in Nat /\ tick \in Nat /\ emitted \in Nat
  /\ entitled \in SUBSET Nat /\ IsFiniteSet(entitled)

(* What was told is sorted, what waits is sorted and newer, and whatever   *)
(* happens next is newer than both.                                        *)
OrderInv ==
  /\ \A n \in entitled : n <= emitted
  /\ \A i \in DOMAIN telling : telling[i] \in entitled
  /\ \A i \in DOMAIN pending : pending[i].number \in entitled
  /\ \A i, j \in DOMAIN telling : i < j => telling[i] < telling[j]
  /\ \A i, j \in DOMAIN pending : i < j => pending[i].number < pending[j].number
  /\ \A i \in DOMAIN telling : \A j \in DOMAIN pending : telling[i] < pending[j].number

CountInv ==
  /\ dropped <= DROPPED_MAX
  /\ dropped < DROPPED_MAX =>
       dropped + Len(telling) + Len(pending) = Cardinality(entitled)

(* For each tick it has waited, an event has come a frame nearer the head. *)
AgeInv ==
  \A i \in DOMAIN pending :
    /\ pending[i].at < tick
    /\ i + MAX_EVENTS_PER_VIEW * (tick - pending[i].at) <= MAX_EVENTS

BInv == BacklogTypeOK /\ OrderInv /\ CountInv /\ AgeInv

-----------------------------------------------------------------------------
LEMMA LeastOf ==
  ASSUME NEW S \in SUBSET Nat, S # {}
  PROVE  \E s \in S : \A r \in S : s <= r
<1> DEFINE R == {ss \in Nat \X Nat : ss[1] < ss[2]}
<1>1. IsWellFoundedOn(R, Nat)
  BY NatLessThanWellFounded DEF OpToRel
<1>2. \A a, b \in Nat : a < b => <<a, b>> \in R
  OBVIOUS
<1>3. PICK s \in S : \A r \in S : ~(<<r, s>> \in R)
  <2> HIDE DEF R
  <2> QED
    BY <1>1, WFMin
<1> HIDE DEF R
<1>4. \A r \in S : ~(r < s)
  BY <1>2, <1>3
<1>5. \A r \in S : s <= r
  BY <1>4
<1> QED
  BY <1>5

(* How many of the places lie in the first i: one more at each of them.    *)
LEMMA Counting ==
  ASSUME NEW L \in Nat, NEW places \in SUBSET (1..L), NEW i \in 0..L
  PROVE  /\ Cardinality(places \cap (1..i)) \in Nat
         /\ i = 0 => Cardinality(places \cap (1..i)) = 0
         /\ i = L => Cardinality(places \cap (1..i)) = Cardinality(places)
         /\ i > 0 => Cardinality(places \cap (1..i)) =
              Cardinality(places \cap (1..(i - 1))) + (IF i \in places THEN 1 ELSE 0)
<1>1. \A j \in 0..L : IsFiniteSet(places \cap (1..j))
  <2> SUFFICES ASSUME NEW j \in 0..L PROVE IsFiniteSet(places \cap (1..j))
    OBVIOUS
  <2>1. IsFiniteSet(1..j)
    BY FS_Interval
  <2> QED
    BY <2>1, FS_Subset
<1>2. Cardinality(places \cap (1..i)) \in Nat
  BY <1>1, FS_CardinalityType
<1>3. ASSUME i = 0 PROVE Cardinality(places \cap (1..i)) = 0
  <2>1. places \cap (1..i) = {}
    BY <1>3
  <2> QED
    BY <2>1, FS_EmptySet
<1>4. ASSUME i = L PROVE places \cap (1..i) = places
  BY <1>4
<1>5. ASSUME i > 0
      PROVE  Cardinality(places \cap (1..i)) =
               Cardinality(places \cap (1..(i - 1))) + (IF i \in places THEN 1 ELSE 0)
  <2>1. i - 1 \in 0..L /\ IsFiniteSet(places \cap (1..(i - 1)))
    BY <1>1, <1>5
  <2>2. Cardinality(places \cap (1..(i - 1))) \in Nat
    BY <2>1, FS_CardinalityType
  <2>3. CASE i \in places
    <3>1. places \cap (1..i) = (places \cap (1..(i - 1))) \cup {i}
      BY <1>5, <2>3
    <3>2. i \notin places \cap (1..(i - 1))
      OBVIOUS
    <3>3. Cardinality((places \cap (1..(i - 1))) \cup {i}) = Cardinality(places \cap (1..(i - 1))) + 1
      BY <2>1, <3>2, FS_AddElement
    <3> QED
      BY <2>3, <3>1, <3>3
  <2>4. CASE i \notin places
    <3>1. places \cap (1..i) = places \cap (1..(i - 1))
      BY <1>5, <2>4
    <3>2. Cardinality(places \cap (1..i)) = Cardinality(places \cap (1..(i - 1)))
      BY <3>1, Zenon
    <3>3. (IF i \in places THEN 1 ELSE 0) = 0
      BY <2>4
    <3> QED
      BY <2>2, <3>2, <3>3
  <2> QED
    BY <2>3, <2>4
<1> QED
  BY <1>2, <1>3, <1>4, <1>5

(* So the k-th of them is where k is reached.                              *)
LEMMA KthPlace ==
  ASSUME NEW L \in Nat, NEW places \in SUBSET (1..L), NEW k \in 1..Cardinality(places)
  PROVE  \E i \in places : Cardinality(places \cap (1..i)) = k
<1> DEFINE c(i) == Cardinality(places \cap (1..i))
<1>1. /\ \A i \in 0..L : c(i) \in Nat
      /\ c(0) = 0 /\ c(L) = Cardinality(places)
      /\ \A i \in 1..L : c(i) = c(i - 1) + (IF i \in places THEN 1 ELSE 0)
  <2>1. \A i \in 0..L :
          /\ c(i) \in Nat
          /\ i = 0 => c(i) = 0
          /\ i = L => c(i) = Cardinality(places)
          /\ i > 0 => c(i) = c(i - 1) + (IF i \in places THEN 1 ELSE 0)
    BY Counting
  <2> HIDE DEF c
  <2> QED
    BY <2>1
<1> HIDE DEF c
<1> DEFINE S == {i \in 0..L : c(i) >= k}
<1>2. L \in S /\ S \in SUBSET Nat
  BY <1>1
<1>3. PICK i \in S : \A j \in S : i <= j
  <2> HIDE DEF S
  <2> QED
    BY <1>2, LeastOf
<1>4. i \in 0..L /\ c(i) >= k /\ i # 0
  BY <1>1, <1>3
<1>5. i - 1 \in 0..L /\ c(i - 1) < k /\ c(i - 1) \in Nat
  <2>1. i - 1 \in 0..L /\ ~(i <= i - 1)
    BY <1>4
  <2>2. i - 1 \notin S
    BY <1>3, <2>1
  <2> QED
    BY <1>1, <2>1, <2>2
<1>6. i \in places /\ c(i) = k
  BY <1>1, <1>4, <1>5
<1> QED
  BY <1>6 DEF c

LEMMA CountingGrows ==
  ASSUME NEW L \in Nat, NEW places \in SUBSET (1..L), NEW i \in places, NEW j \in places, i <= j
  PROVE  Cardinality(places \cap (1..i)) <= Cardinality(places \cap (1..j))
<1>1. IsFiniteSet(1..j)
  BY FS_Interval
<1>2. IsFiniteSet(places \cap (1..j))
  BY <1>1, FS_Subset
<1>3. places \cap (1..i) \in SUBSET (places \cap (1..j))
  OBVIOUS
<1> QED
  BY <1>2, <1>3, FS_Subset

(* What a recipient sees of a tick: some of it, in its order.              *)
LEMMA SeenInOrder ==
  ASSUME NEW q \in Seq(Event), NEW places \in SUBSET (1..Len(q))
  PROVE  /\ Seen(q, places) \in Seq(Event)
         /\ Len(Seen(q, places)) = Cardinality(places)
         /\ \E at \in [1..Cardinality(places) -> places] :
              /\ \A k \in 1..Cardinality(places) : Seen(q, places)[k] = q[at[k]]
              /\ \A k, l \in 1..Cardinality(places) : k < l => at[k] < at[l]
<1> DEFINE c == Cardinality(places)
           kept == [i \in 1..Len(q) |-> Cardinality(places \cap (1..i))]
           kth(k) == CHOOSE i \in places : kept[i] = k
           at == [k \in 1..c |-> kth(k)]
<1>1. Len(q) \in Nat /\ DOMAIN q = 1..Len(q) /\ \A i \in 1..Len(q) : q[i] \in Event
  OBVIOUS
<1>2. c \in Nat
  <2>1. IsFiniteSet(1..Len(q))
    BY <1>1, FS_Interval
  <2> QED
    BY <2>1, FS_Subset, FS_CardinalityType
<1>3. Seen(q, places) = [k \in 1..c |-> q[kth(k)]]
  BY DEF Seen
<1>4. \A i \in places : i \in 1..Len(q) /\ kept[i] = Cardinality(places \cap (1..i))
  OBVIOUS
<1>5. \A k \in 1..c : \E i \in places : kept[i] = k
  <2> SUFFICES ASSUME NEW k \in 1..c PROVE \E i \in places : kept[i] = k
    OBVIOUS
  <2>1. PICK i \in places : Cardinality(places \cap (1..i)) = k
    BY <1>1, KthPlace
  <2> QED
    BY <1>4, <2>1
<1>6. ASSUME NEW k \in 1..c
      PROVE  at[k] = kth(k) /\ at[k] \in places /\ kept[at[k]] = k
  <2> HIDE DEF kept
  <2>1. kth(k) \in places /\ kept[kth(k)] = k
    BY <1>5
  <2> QED
    BY <2>1
<1>7. Seen(q, places) = [k \in 1..c |-> q[at[k]]] /\ at \in [1..c -> places]
  <2> HIDE DEF kth
  <2>1. at \in [1..c -> places]
    BY <1>6
  <2> QED
    BY <1>3, <1>6, <2>1
<1> HIDE DEF at, kth, kept
<1>8. ASSUME NEW k \in 1..c, NEW l \in 1..c, k < l
      PROVE  at[k] < at[l]
  <2> HIDE DEF c
  <2>a. at[k] \in places /\ kept[at[k]] = k
    BY <1>6
  <2>b. at[l] \in places /\ kept[at[l]] = l
    BY <1>6
  <2>c. \A i \in places : i \in Nat
    <3>1. \A i \in 1..Len(q) : i \in Nat
      OBVIOUS
    <3> QED
      BY <1>4, <3>1
  <2>1. /\ at[k] \in places /\ kept[at[k]] = k /\ at[k] \in Nat
        /\ at[l] \in places /\ kept[at[l]] = l /\ at[l] \in Nat
    BY <2>a, <2>b, <2>c
  <2>2. CASE at[l] <= at[k]
    <3>1. Cardinality(places \cap (1..at[l])) <= Cardinality(places \cap (1..at[k]))
      BY <1>1, <2>1, <2>2, CountingGrows
    <3>2. l <= k
      BY <1>4, <2>1, <3>1
    <3> QED
      BY <1>2, <1>8, <3>2
  <2> QED
    BY <2>1, <2>2
<1>9. Seen(q, places) \in [1..c -> Event]
  BY <1>1, <1>4, <1>7
<1>10. Seen(q, places) \in Seq(Event) /\ Len(Seen(q, places)) = c
  <2> HIDE DEF c
  <2> QED
    BY <1>2, <1>9, SeqDef
<1>11. \A k \in 1..c : Seen(q, places)[k] = q[at[k]]
  BY <1>7
<1> QED
  BY <1>7, <1>8, <1>10, <1>11

-----------------------------------------------------------------------------
(* The two ends of a sequence.                                             *)
LEMMA FirstOf ==
  ASSUME NEW S, NEW q \in Seq(S), NEW m \in Nat, m <= Len(q)
  PROVE  /\ SubSeq(q, 1, m) \in Seq(S) /\ Len(SubSeq(q, 1, m)) = m
         /\ \A i \in 1..m : SubSeq(q, 1, m)[i] = q[i]
<1> DEFINE r == SubSeq(q, 1, m)
<1>1. \A i \in 1..m : q[i] \in S /\ i \in Nat
  OBVIOUS
<1>2. /\ r \in Seq(S)
      /\ Len(r) = IF 1 <= m THEN m - 1 + 1 ELSE 0
      /\ \A i \in 1..(m - 1 + 1) : r[i] = q[1 + i - 1]
  BY <1>1, SubSeqProperties
<1> HIDE DEF r
<1>3. Len(r) = m /\ m - 1 + 1 = m /\ \A i \in 1..m : 1 + i - 1 = i
  BY <1>2
<1> QED
  BY <1>2, <1>3 DEF r

LEMMA RestOf ==
  ASSUME NEW S, NEW q \in Seq(S), NEW m \in Nat, m <= Len(q)
  PROVE  /\ SubSeq(q, m + 1, Len(q)) \in Seq(S)
         /\ Len(SubSeq(q, m + 1, Len(q))) = Len(q) - m
         /\ \A i \in 1..(Len(q) - m) : SubSeq(q, m + 1, Len(q))[i] = q[m + i]
<1> DEFINE l == Len(q)
           from == m + 1
           r == SubSeq(q, from, l)
<1>1. l \in Nat /\ from \in Int /\ from = m + 1 /\ m <= l
  OBVIOUS
<1>2. \A i \in from..l : q[i] \in S
  BY <1>1
<1> HIDE DEF l, from
<1>3. /\ r \in Seq(S)
      /\ Len(r) = IF from <= l THEN l - from + 1 ELSE 0
      /\ \A i \in 1..(l - from + 1) : r[i] = q[from + i - 1]
  BY <1>1, <1>2, SubSeqProperties
<1> HIDE DEF r
<1>4. Len(r) = l - m /\ l - from + 1 = l - m
  BY <1>1, <1>3
<1>5. ASSUME NEW i \in 1..(l - m) PROVE r[i] = q[m + i]
  <2>1. from + i - 1 = m + i
    BY <1>1
  <2> QED
    BY <1>3, <1>4, <2>1
<1> QED
  BY <1>3, <1>4, <1>5 DEF r, l, from

(* A tick numbers its events on from the last one's.                       *)
LEMMA RecordedInOrder ==
  ASSUME tick \in Nat, emitted \in Nat, NEW n \in Nat
  PROVE  /\ Recorded(n) \in Seq(Event) /\ Len(Recorded(n)) <= n
         /\ \A i \in 1..Len(Recorded(n)) :
              Recorded(n)[i].number = emitted + i /\ Recorded(n)[i].at = tick
<1> DEFINE m == Least(n, MAX_EVENTS)
<1>1. m \in Nat /\ m <= n
  BY BacklogConstants DEF Least
<1> HIDE DEF m
<1>2. /\ Emitted(n) = [i \in 1..n |-> [number |-> emitted + i, at |-> tick]]
      /\ Emitted(n) \in Seq(Event) /\ Len(Emitted(n)) = n
  <2>1. Emitted(n) \in [1..n -> Event]
    BY DEF Emitted, Event
  <2>2. Emitted(n) \in Seq(Event)
    BY <2>1, SeqDef
  <2>3. DOMAIN Emitted(n) = 1..n
    BY DEF Emitted
  <2>4. Len(Emitted(n)) = n
    BY <2>2, <2>3, LenProperties
  <2> QED
    BY <2>2, <2>4 DEF Emitted
<1>3. Recorded(n) = SubSeq(Emitted(n), 1, m)
  BY DEF Recorded, First, m
<1>4. /\ Recorded(n) \in Seq(Event) /\ Len(Recorded(n)) = m
      /\ \A i \in 1..m : Recorded(n)[i] = Emitted(n)[i]
  <2>1. m <= Len(Emitted(n))
    BY <1>1, <1>2
  <2>2. /\ SubSeq(Emitted(n), 1, m) \in Seq(Event) /\ Len(SubSeq(Emitted(n), 1, m)) = m
        /\ \A i \in 1..m : SubSeq(Emitted(n), 1, m)[i] = Emitted(n)[i]
    BY <1>1, <1>2, <2>1, FirstOf
  <2> QED
    BY <1>3, <2>2, Zenon
<1>5. \A i \in 1..m : i \in 1..n
  BY <1>1
<1>6. ASSUME NEW i \in 1..m
      PROVE  Recorded(n)[i].number = emitted + i /\ Recorded(n)[i].at = tick
  <2>1. i \in 1..n /\ Recorded(n)[i] = Emitted(n)[i]
    BY <1>4, <1>5
  <2>2. Emitted(n)[i] = [number |-> emitted + i, at |-> tick]
    BY <1>2, <2>1
  <2> QED
    BY <2>1, <2>2
<1> QED
  BY <1>1, <1>4, <1>6

(* What the recipient sees of a tick is numbered past all it saw before.   *)
LEMMA SeenOfTick ==
  ASSUME tick \in Nat, emitted \in Nat, NEW n \in Nat,
         NEW places \in SUBSET (1..Len(Recorded(n)))
  PROVE  LET s == Seen(Recorded(n), places) IN
         /\ s \in Seq(Event) /\ Len(s) = Cardinality(places)
         /\ \A k \in 1..Len(s) :
              /\ s[k].at = tick
              /\ emitted < s[k].number /\ s[k].number <= emitted + n
              /\ s[k].number \in {Recorded(n)[i].number : i \in places}
         /\ \A k, l \in 1..Len(s) : k < l => s[k].number < s[l].number
<1>1. /\ Recorded(n) \in Seq(Event) /\ Len(Recorded(n)) <= n
      /\ \A i \in 1..Len(Recorded(n)) :
           Recorded(n)[i].number = emitted + i /\ Recorded(n)[i].at = tick
  BY RecordedInOrder
<1> DEFINE r == Recorded(n)
           c == Cardinality(places)
           s == Seen(r, places)
<1>2. /\ s \in Seq(Event) /\ Len(s) = c
      /\ \E at \in [1..c -> places] :
           /\ \A k \in 1..c : s[k] = r[at[k]]
           /\ \A k, l \in 1..c : k < l => at[k] < at[l]
  BY <1>1, SeenInOrder
<1>3. PICK at \in [1..c -> places] :
        /\ \A k \in 1..c : s[k] = r[at[k]]
        /\ \A k, l \in 1..c : k < l => at[k] < at[l]
  BY <1>2
<1> HIDE DEF c, s
<1>4. ASSUME NEW k \in 1..c
      PROVE  /\ s[k] = r[at[k]] /\ at[k] \in places
             /\ at[k] \in Nat /\ 1 <= at[k] /\ at[k] <= n
             /\ s[k].number = emitted + at[k] /\ s[k].at = tick
  <2>1. at[k] \in places /\ at[k] \in 1..Len(r) /\ s[k] = r[at[k]]
    BY <1>3
  <2>2. Len(r) \in Nat
    BY <1>1
  <2> QED
    BY <1>1, <2>1, <2>2
<1>5. ASSUME NEW k \in 1..c
      PROVE  /\ s[k].at = tick
             /\ emitted < s[k].number /\ s[k].number <= emitted + n
             /\ s[k].number \in {r[i].number : i \in places}
  <2>1. s[k].number \in {r[i].number : i \in places}
    BY <1>4
  <2> QED
    BY <1>4, <2>1
<1>6. ASSUME NEW k \in 1..c, NEW l \in 1..c, k < l
      PROVE  s[k].number < s[l].number
  <2>1. at[k] < at[l]
    BY <1>3, <1>6
  <2> QED
    BY <1>4, <2>1
<1> QED
  BY <1>2, <1>5, <1>6 DEF c, s

(* As many numbers as places, none of them seen before.                    *)
LEMMA EntitledGrows ==
  ASSUME tick \in Nat, emitted \in Nat, entitled \in SUBSET Nat, IsFiniteSet(entitled),
         \A e \in entitled : e <= emitted, NEW n \in Nat,
         NEW places \in SUBSET (1..Len(Recorded(n)))
  PROVE  LET new == {Recorded(n)[i].number : i \in places} IN
         /\ new \in SUBSET Nat /\ IsFiniteSet(entitled \cup new)
         /\ \A e \in new : e <= emitted + n
         /\ Cardinality(entitled \cup new) = Cardinality(entitled) + Cardinality(places)
<1>1. /\ Len(Recorded(n)) \in Nat /\ Len(Recorded(n)) <= n
      /\ \A i \in 1..Len(Recorded(n)) : Recorded(n)[i].number = emitted + i
  <2>1. /\ Recorded(n) \in Seq(Event) /\ Len(Recorded(n)) <= n
        /\ \A i \in 1..Len(Recorded(n)) :
             Recorded(n)[i].number = emitted + i /\ Recorded(n)[i].at = tick
    BY RecordedInOrder
  <2>2. Len(Recorded(n)) \in Nat
    BY <2>1, LenProperties
  <2> QED
    BY <2>1, <2>2
<1>2. \A i \in places : i \in Nat /\ 1 <= i /\ i <= n /\ Recorded(n)[i].number = emitted + i
  BY <1>1
<1>3. IsFiniteSet(places)
  <2>1. IsFiniteSet(1..Len(Recorded(n)))
    BY <1>1, FS_Interval
  <2> QED
    BY <2>1, FS_Subset
<1> DEFINE f == [i \in places |-> emitted + i]
           new == {Recorded(n)[i].number : i \in places}
<1>4. new = {emitted + i : i \in places}
  BY <1>2
<1> HIDE DEF new
<1>5. f \in Bijection(places, new)
  <2>1. f \in [places -> new] /\ \A e \in new : \E i \in places : f[i] = e
    BY <1>4
  <2>2. \A i, j \in places : f[i] = f[j] => i = j
    BY <1>2
  <2> QED
    BY <2>1, <2>2, Zenon DEF Bijection, Injection, Surjection, IsInjective
<1>6. IsFiniteSet(new) /\ Cardinality(new) = Cardinality(places)
  <2>1. ExistsBijection(places, new)
    BY <1>5, Zenon DEF ExistsBijection
  <2> QED
    BY <1>3, <2>1, FS_Bijection
<1>7. \A e \in new : e \in Nat /\ emitted < e /\ e <= emitted + n
  BY <1>2, <1>4
<1>8. entitled \cap new = {}
  BY <1>7
<1>9. /\ IsFiniteSet(entitled \cup new)
      /\ Cardinality(entitled \cup new) =
           Cardinality(entitled) + Cardinality(new) - Cardinality(entitled \cap new)
  BY <1>6, FS_Union
<1>10. Cardinality(entitled \cap new) = 0
  BY <1>8, FS_EmptySet
<1>11. Cardinality(entitled) \in Nat /\ Cardinality(places) \in Nat
  BY <1>3, FS_CardinalityType
<1> QED
  BY <1>6, <1>7, <1>9, <1>10, <1>11 DEF new

(* What is in place i behind a frame of `room` events is in place room + i *)
(* of what was left.                                                       *)
LEMMA BehindTheFrame ==
  ASSUME NEW room \in Nat, NEW o \in Nat, NEW h \in Nat, NEW p \in Nat,
         p = h - room, NEW i \in 1..p
  PROVE  room + i \in 1..h /\ o + (room + i) = o + room + i
OBVIOUS

-----------------------------------------------------------------------------
(* Shape in terms of places in the queue: what is dropped stood first, the *)
(* frame's next, and the rest moves up by both.                            *)
LEMMA ShapeMoves ==
  ASSUME pending \in Seq(Event), NEW s \in Seq(Event), Shape(s),
         NEW Q, Q = pending \o s, NEW o, o = Overflow(s)
  PROVE  \E room \in Nat :
           /\ Q \in Seq(Event) /\ Len(Q) = Len(pending) + Len(s)
           /\ o \in Nat /\ o + room <= Len(Q) /\ Len(Q) - o <= MAX_EVENTS
           /\ room < Len(Q) - o => room = MAX_EVENTS_PER_VIEW
           /\ frame' \in Seq(Event) /\ Len(frame') = room
           /\ \A i \in 1..room : frame'[i] = Q[o + i]
           /\ pending' \in Seq(Event) /\ Len(pending') = Len(Q) - o - room
           /\ \A i \in 1..Len(pending') : pending'[i] = Q[o + room + i]
           /\ dropped' = Least(dropped + o, DROPPED_MAX)
<1> DEFINE H == Held(s)
           room == Least(MAX_EVENTS_PER_VIEW, Len(H))
<1>1. Q \in Seq(Event) /\ Len(Q) = Len(pending) + Len(s) /\ Len(Q) \in Nat
  OBVIOUS
<1>2. o \in Nat /\ o <= Len(Q) /\ Len(Q) - o <= MAX_EVENTS
  BY <1>1, BacklogConstants DEF Overflow, Queued
<1>3. H = SubSeq(Q, o + 1, Len(Q))
  BY DEF Held, Rest, Queued
<1>4. /\ H \in Seq(Event) /\ Len(H) = Len(Q) - o
      /\ \A i \in 1..Len(H) : H[i] = Q[o + i]
  <2>1. /\ SubSeq(Q, o + 1, Len(Q)) \in Seq(Event)
        /\ Len(SubSeq(Q, o + 1, Len(Q))) = Len(Q) - o
        /\ \A i \in 1..(Len(Q) - o) : SubSeq(Q, o + 1, Len(Q))[i] = Q[o + i]
    BY <1>1, <1>2, RestOf
  <2> HIDE DEF H
  <2> QED
    BY <1>3, <2>1, Zenon
<1>5. /\ frame' = SubSeq(H, 1, room) /\ pending' = SubSeq(H, room + 1, Len(H))
      /\ dropped' = Least(dropped + o, DROPPED_MAX)
  BY DEF Shape, First, Rest
<1> HIDE DEF H
<1>6. /\ room \in Nat /\ room <= Len(H)
      /\ room < Len(H) => room = MAX_EVENTS_PER_VIEW
  BY <1>4, BacklogConstants DEF Least
<1> HIDE DEF room
<1>7. /\ frame' \in Seq(Event) /\ Len(frame') = room
      /\ \A i \in 1..room : frame'[i] = H[i]
  BY <1>4, <1>5, <1>6
<1>8. /\ pending' \in Seq(Event) /\ Len(pending') = Len(H) - room
      /\ \A i \in 1..Len(pending') : pending'[i] = H[room + i]
  BY <1>4, <1>5, <1>6
<1>9. \A i \in 1..room : frame'[i] = Q[o + i]
  <2> SUFFICES ASSUME NEW i \in 1..room PROVE frame'[i] = Q[o + i]
    OBVIOUS
  <2>1. i \in 1..Len(H)
    BY <1>4, <1>6
  <2> QED
    BY <1>4, <1>7, <2>1
<1>10. \A i \in 1..Len(pending') : pending'[i] = Q[o + room + i]
  <2> SUFFICES ASSUME NEW i \in 1..Len(pending') PROVE pending'[i] = Q[o + room + i]
    OBVIOUS
  <2>1. room + i \in 1..Len(H) /\ o + (room + i) = o + room + i
    <3>1. /\ Len(H) = Len(Q) - o /\ Len(pending') = Len(H) - room
          /\ o \in Nat /\ room \in Nat
      BY <1>2, <1>4, <1>6, <1>8
    <3>2. Len(H) \in Nat
      BY <1>4, LenProperties
    <3>3. Len(pending') \in Nat
      BY <1>8, LenProperties
    <3> QED
      BY <3>1, <3>2, <3>3, BehindTheFrame
  <2> QED
    BY <1>4, <1>8, <2>1
<1>11. /\ o + room <= Len(Q) /\ Len(pending') = Len(Q) - o - room
       /\ room < Len(Q) - o => room = MAX_EVENTS_PER_VIEW
  BY <1>1, <1>2, <1>4, <1>6, <1>8
<1> WITNESS room \in Nat
<1> QED
  BY <1>1, <1>2, <1>5, <1>7, <1>8, <1>9, <1>10, <1>11

-----------------------------------------------------------------------------
(* The whole queue of a tick, before anything leaves it: sorted, newer     *)
(* than all that was told, and no event in it further from the head than   *)
(* its age allows.                                                         *)
LEMMA QueueOfTick ==
  ASSUME BInv, NEW n \in Nat, NEW places \in SUBSET (1..Len(Recorded(n))),
         NEW s, s = Seen(Recorded(n), places), NEW Q, Q = pending \o s,
         NEW new, new = {Recorded(n)[i].number : i \in places}
  PROVE  /\ Q \in Seq(Event) /\ Len(Q) = Len(pending) + Len(s)
         /\ \A i \in 1..Len(Q) : Q[i].number \in entitled \cup new
         /\ \A i, j \in 1..Len(Q) : i < j => Q[i].number < Q[j].number
         /\ \A i \in DOMAIN telling : \A j \in 1..Len(Q) : telling[i] < Q[j].number
         /\ \A i \in 1..Len(Q) :
              \/ Q[i].at = tick
              \/ Q[i].at < tick /\ i + MAX_EVENTS_PER_VIEW * (tick - Q[i].at) <= MAX_EVENTS
<1> DEFINE p == Len(pending)
<1>0. tick \in Nat /\ emitted \in Nat /\ entitled \in SUBSET Nat
  BY DEF BInv, BacklogTypeOK
<1>1. /\ s \in Seq(Event)
      /\ \A k \in 1..Len(s) :
           s[k].at = tick /\ emitted < s[k].number /\ s[k].number \in new
      /\ \A k, l \in 1..Len(s) : k < l => s[k].number < s[l].number
  <2>1. /\ s \in Seq(Event)
        /\ \A k \in 1..Len(s) :
             /\ s[k].at = tick
             /\ emitted < s[k].number /\ s[k].number <= emitted + n
             /\ s[k].number \in {Recorded(n)[i].number : i \in places}
        /\ \A k, l \in 1..Len(s) : k < l => s[k].number < s[l].number
    BY <1>0, SeenOfTick
  <2> QED
    BY <2>1
<1>2. /\ Q \in Seq(Event) /\ Len(Q) = p + Len(s) /\ p \in Nat /\ Len(s) \in Nat
      /\ \A i \in 1..(p + Len(s)) : Q[i] = IF i <= p THEN pending[i] ELSE s[i - p]
  BY <1>1, ConcatProperties DEF BInv, BacklogTypeOK
<1>3. DOMAIN pending = 1..p
  BY DEF BInv, BacklogTypeOK
<1>4. ASSUME NEW i \in 1..Len(Q), i <= p
      PROVE  Q[i] = pending[i] /\ i \in DOMAIN pending /\ i \in Nat
  BY <1>2, <1>3, <1>4
<1>5. ASSUME NEW i \in 1..Len(Q), ~(i <= p)
      PROVE  Q[i] = s[i - p] /\ i - p \in 1..Len(s) /\ i \in Nat
  BY <1>2, <1>5
<1>6. \A i \in 1..Len(Q) : Q[i].number \in Nat /\ Q[i].at \in Nat /\ i \in Nat
  <2> SUFFICES ASSUME NEW i \in 1..Len(Q)
               PROVE  Q[i].number \in Nat /\ Q[i].at \in Nat /\ i \in Nat
    OBVIOUS
  <2>1. Q[i] \in Event /\ i \in Nat
    BY <1>2, ElementOfSeq
  <2> QED
    BY <2>1 DEF Event
<1> HIDE DEF p
<1>7. ASSUME NEW i \in 1..Len(Q)
      PROVE  /\ i <= p => Q[i].number \in entitled /\ Q[i].number <= emitted
             /\ ~(i <= p) => Q[i].number \in new /\ emitted < Q[i].number
  BY <1>1, <1>4, <1>5 DEF BInv, OrderInv
<1>8. ASSUME NEW i \in 1..Len(Q), NEW j \in 1..Len(Q), i < j
      PROVE  Q[i].number < Q[j].number
  <2>1. CASE j <= p
    <3>1. i <= p
      BY <1>2, <1>6, <1>8, <2>1
    <3> QED
      BY <1>4, <1>8, <2>1, <3>1 DEF BInv, OrderInv
  <2>2. CASE i <= p /\ ~(j <= p)
    <3>1. Q[i].number <= emitted /\ emitted < Q[j].number
      BY <1>7, <2>2
    <3> QED
      BY <1>0, <1>6, <3>1
  <2>3. CASE ~(i <= p)
    <3>1. ~(j <= p) /\ i - p < j - p
      BY <1>2, <1>6, <1>8, <2>3
    <3> QED
      BY <1>1, <1>5, <2>3, <3>1
  <2> QED
    BY <2>1, <2>2, <2>3
<1>9. ASSUME NEW i \in DOMAIN telling, NEW j \in 1..Len(Q)
      PROVE  telling[i] < Q[j].number
  <2>1. CASE j <= p
    BY <1>4, <2>1 DEF BInv, OrderInv
  <2>2. CASE ~(j <= p)
    <3>1. telling[i] \in entitled /\ telling[i] <= emitted /\ telling[i] \in Nat
      BY DEF BInv, OrderInv, BacklogTypeOK
    <3>2. emitted < Q[j].number
      BY <1>7, <2>2
    <3> QED
      BY <1>0, <1>6, <3>1, <3>2
  <2> QED
    BY <2>1, <2>2
<1>10. ASSUME NEW i \in 1..Len(Q)
       PROVE  \/ Q[i].at = tick
              \/ Q[i].at < tick /\ i + MAX_EVENTS_PER_VIEW * (tick - Q[i].at) <= MAX_EVENTS
  <2>1. CASE i <= p
    BY <1>4, <2>1 DEF BInv, AgeInv
  <2>2. CASE ~(i <= p)
    BY <1>1, <1>5, <2>2
  <2> QED
    BY <2>1, <2>2
<1> QED
  BY <1>2, <1>7, <1>8, <1>9, <1>10 DEF p

-----------------------------------------------------------------------------
(* A tick in one place: its facts, from which each part follows.           *)
LEMMA QueueTick ==
  ASSUME BInv, TellTick
  PROVE  \E n \in Nat, Q \in Seq(Event), o \in Nat, room \in Nat, new \in SUBSET Nat :
           /\ tick' = tick + 1 /\ emitted' = emitted + n /\ entitled' = entitled \cup new
           /\ \A e \in new : e <= emitted + n
           /\ IsFiniteSet(entitled')
           /\ Len(Q) >= Len(pending)
           /\ Cardinality(entitled') = Cardinality(entitled) + (Len(Q) - Len(pending))
           /\ \A i \in 1..Len(Q) : Q[i].number \in entitled'
           /\ \A i, j \in 1..Len(Q) : i < j => Q[i].number < Q[j].number
           /\ \A i \in DOMAIN telling : \A j \in 1..Len(Q) : telling[i] < Q[j].number
           /\ \A i \in 1..Len(Q) :
                \/ Q[i].at = tick
                \/ Q[i].at < tick /\ i + MAX_EVENTS_PER_VIEW * (tick - Q[i].at) <= MAX_EVENTS
           /\ o + room <= Len(Q) /\ Len(Q) - o <= MAX_EVENTS
           /\ room < Len(Q) - o => room = MAX_EVENTS_PER_VIEW
           /\ pending' \in Seq(Event) /\ Len(pending') = Len(Q) - o - room
           /\ \A i \in 1..Len(pending') : pending'[i] = Q[o + room + i]
           /\ dropped' = Least(dropped + o, DROPPED_MAX)
           /\ telling' \in Seq(Nat) /\ Len(telling') = Len(telling) + room
           /\ \A i \in 1..Len(telling') :
                telling'[i] = IF i <= Len(telling) THEN telling[i]
                                                   ELSE Q[o + (i - Len(telling))].number
<1>0. /\ tick \in Nat /\ emitted \in Nat /\ entitled \in SUBSET Nat /\ IsFiniteSet(entitled)
      /\ pending \in Seq(Event) /\ telling \in Seq(Nat) /\ \A e \in entitled : e <= emitted
  BY DEF BInv, BacklogTypeOK, OrderInv
<1>1. PICK n \in Nat :
        /\ emitted' = emitted + n
        /\ \E places \in SUBSET (1..Len(Recorded(n))) :
             /\ Shape(Seen(Recorded(n), places))
             /\ entitled' = entitled \cup {Recorded(n)[i].number : i \in places}
  <2>1. PICK n \in 0..MaxEmitted :
          /\ emitted' = emitted + n
          /\ \E places \in SUBSET (1..Len(Recorded(n))) :
               /\ Shape(Seen(Recorded(n), places))
               /\ entitled' = entitled \cup {Recorded(n)[i].number : i \in places}
    BY Zenon DEF TellTick
  <2>2. n \in Nat
    BY BacklogConstants
  <2> QED
    BY <2>1, <2>2
<1>2. PICK places \in SUBSET (1..Len(Recorded(n))) :
        /\ Shape(Seen(Recorded(n), places))
        /\ entitled' = entitled \cup {Recorded(n)[i].number : i \in places}
  BY <1>1
<1>3. tick' = tick + 1 /\ telling' = telling \o [i \in DOMAIN frame' |-> frame'[i].number]
  BY DEF TellTick
<1> DEFINE s == Seen(Recorded(n), places)
           Q == pending \o s
           new == {Recorded(n)[i].number : i \in places}
           o == Overflow(s)
<1>4. s \in Seq(Event) /\ Len(s) = Cardinality(places)
  BY <1>0, SeenOfTick
<1>5. /\ new \in SUBSET Nat /\ IsFiniteSet(entitled \cup new)
      /\ \A e \in new : e <= emitted + n
      /\ Cardinality(entitled \cup new) = Cardinality(entitled) + Cardinality(places)
  BY <1>0, EntitledGrows
<1>6. /\ Q \in Seq(Event) /\ Len(Q) = Len(pending) + Len(s)
      /\ \A i \in 1..Len(Q) : Q[i].number \in entitled \cup new
      /\ \A i, j \in 1..Len(Q) : i < j => Q[i].number < Q[j].number
      /\ \A i \in DOMAIN telling : \A j \in 1..Len(Q) : telling[i] < Q[j].number
      /\ \A i \in 1..Len(Q) :
           \/ Q[i].at = tick
           \/ Q[i].at < tick /\ i + MAX_EVENTS_PER_VIEW * (tick - Q[i].at) <= MAX_EVENTS
  BY QueueOfTick
<1>7. \E room \in Nat :
        /\ Q \in Seq(Event) /\ Len(Q) = Len(pending) + Len(s)
        /\ o \in Nat /\ o + room <= Len(Q) /\ Len(Q) - o <= MAX_EVENTS
        /\ room < Len(Q) - o => room = MAX_EVENTS_PER_VIEW
        /\ frame' \in Seq(Event) /\ Len(frame') = room
        /\ \A i \in 1..room : frame'[i] = Q[o + i]
        /\ pending' \in Seq(Event) /\ Len(pending') = Len(Q) - o - room
        /\ \A i \in 1..Len(pending') : pending'[i] = Q[o + room + i]
        /\ dropped' = Least(dropped + o, DROPPED_MAX)
  BY <1>0, <1>2, <1>4, ShapeMoves
<1>8. PICK room \in Nat :
        /\ Q \in Seq(Event) /\ Len(Q) = Len(pending) + Len(s)
        /\ o \in Nat /\ o + room <= Len(Q) /\ Len(Q) - o <= MAX_EVENTS
        /\ room < Len(Q) - o => room = MAX_EVENTS_PER_VIEW
        /\ frame' \in Seq(Event) /\ Len(frame') = room
        /\ \A i \in 1..room : frame'[i] = Q[o + i]
        /\ pending' \in Seq(Event) /\ Len(pending') = Len(Q) - o - room
        /\ \A i \in 1..Len(pending') : pending'[i] = Q[o + room + i]
        /\ dropped' = Least(dropped + o, DROPPED_MAX)
  BY <1>7
<1>9. entitled' = entitled \cup new
  BY <1>2
<1> DEFINE told == [i \in DOMAIN frame' |-> frame'[i].number]
<1> HIDE DEF s, Q, new, o
<1>10. told \in Seq(Nat) /\ Len(told) = room /\ \A i \in 1..room : told[i] = Q[o + i].number
  <2>0. DOMAIN frame' = 1..room /\ \A i \in 1..room : frame'[i] \in Event
    BY <1>8, LenProperties, ElementOfSeq
  <2>1. DOMAIN frame' = 1..room /\ \A i \in 1..room : frame'[i].number \in Nat
    BY <2>0 DEF Event
  <2>2. told \in [1..room -> Nat]
    BY <2>1
  <2>3. told \in Seq(Nat)
    BY <2>2, SeqDef
  <2>4. Len(told) = room
    BY <2>2, <2>3, LenProperties
  <2> QED
    BY <1>8, <2>1, <2>3, <2>4
<1> HIDE DEF told
<1>11. /\ telling' \in Seq(Nat) /\ Len(telling') = Len(telling) + room
       /\ \A i \in 1..Len(telling') :
            telling'[i] = IF i <= Len(telling) THEN telling[i]
                                               ELSE Q[o + (i - Len(telling))].number
  <2>1. telling' = telling \o told
    BY <1>3 DEF told
  <2>2. /\ telling' \in Seq(Nat) /\ Len(telling') = Len(telling) + room
        /\ \A i \in 1..(Len(telling) + room) :
             telling'[i] = IF i <= Len(telling) THEN telling[i] ELSE told[i - Len(telling)]
    BY <1>0, <1>10, <2>1, ConcatProperties
  <2>3. ASSUME NEW i \in 1..Len(telling'), ~(i <= Len(telling))
        PROVE  i - Len(telling) \in 1..room
    <3>1. Len(telling) \in Nat
      BY <1>0
    <3> QED
      BY <2>2, <2>3, <3>1
  <2>4. ASSUME NEW i \in 1..Len(telling')
        PROVE  telling'[i] = IF i <= Len(telling) THEN telling[i]
                                                  ELSE Q[o + (i - Len(telling))].number
    BY <1>10, <2>2, <2>3
  <2> QED
    BY <2>2, <2>4
<1>12. /\ Len(Q) >= Len(pending)
       /\ Cardinality(entitled') = Cardinality(entitled) + (Len(Q) - Len(pending))
  <2>1. Len(pending) \in Nat /\ Len(s) \in Nat
    BY <1>0, <1>4
  <2> QED
    BY <1>4, <1>5, <1>8, <1>9, <2>1
<1>13. /\ Q \in Seq(Event) /\ o \in Nat /\ new \in SUBSET Nat
       /\ IsFiniteSet(entitled') /\ \A e \in new : e <= emitted + n
       /\ \A i \in 1..Len(Q) : Q[i].number \in entitled'
  BY <1>5, <1>6, <1>8, <1>9
<1> USE <1>13
<1> WITNESS n \in Nat, Q \in Seq(Event), o \in Nat, room \in Nat, new \in SUBSET Nat
<1> QED
  BY <1>1, <1>3, <1>6, <1>8, <1>9, <1>11, <1>12, <1>13

(* BInv holds after each tick.                                             *)
LEMMA TickKeepsBInv ==
  ASSUME BInv, TellTick
  PROVE  BInv'
<1>0. /\ tick \in Nat /\ emitted \in Nat /\ entitled \in SUBSET Nat /\ IsFiniteSet(entitled)
      /\ dropped \in Nat /\ pending \in Seq(Event) /\ telling \in Seq(Nat)
  BY DEF BInv, BacklogTypeOK
<1>1. PICK n \in Nat, Q \in Seq(Event), o \in Nat, room \in Nat, new \in SUBSET Nat :
        /\ tick' = tick + 1 /\ emitted' = emitted + n /\ entitled' = entitled \cup new
        /\ \A e \in new : e <= emitted + n
        /\ IsFiniteSet(entitled')
        /\ Len(Q) >= Len(pending)
        /\ Cardinality(entitled') = Cardinality(entitled) + (Len(Q) - Len(pending))
        /\ \A i \in 1..Len(Q) : Q[i].number \in entitled'
        /\ \A i, j \in 1..Len(Q) : i < j => Q[i].number < Q[j].number
        /\ \A i \in DOMAIN telling : \A j \in 1..Len(Q) : telling[i] < Q[j].number
        /\ \A i \in 1..Len(Q) :
             \/ Q[i].at = tick
             \/ Q[i].at < tick /\ i + MAX_EVENTS_PER_VIEW * (tick - Q[i].at) <= MAX_EVENTS
        /\ o + room <= Len(Q) /\ Len(Q) - o <= MAX_EVENTS
        /\ room < Len(Q) - o => room = MAX_EVENTS_PER_VIEW
        /\ pending' \in Seq(Event) /\ Len(pending') = Len(Q) - o - room
        /\ \A i \in 1..Len(pending') : pending'[i] = Q[o + room + i]
        /\ dropped' = Least(dropped + o, DROPPED_MAX)
        /\ telling' \in Seq(Nat) /\ Len(telling') = Len(telling) + room
        /\ \A i \in 1..Len(telling') :
             telling'[i] = IF i <= Len(telling) THEN telling[i]
                                                ELSE Q[o + (i - Len(telling))].number
  BY QueueTick
<1>2. /\ Len(Q) \in Nat /\ Len(pending) \in Nat /\ Len(telling) \in Nat
      /\ Len(pending') \in Nat /\ Len(telling') \in Nat
      /\ DOMAIN telling = 1..Len(telling)
      /\ DOMAIN pending' = 1..Len(pending') /\ DOMAIN telling' = 1..Len(telling')
  BY <1>0, <1>1, LenProperties
(* Where an event stood when the tick's queue was whole.                   *)
<1>3. ASSUME NEW i \in 1..Len(pending')
      PROVE  pending'[i] = Q[o + room + i] /\ o + room + i \in 1..Len(Q)
  <2>1. /\ pending'[i] = Q[o + room + i] /\ Len(pending') = Len(Q) - o - room
        /\ o \in Nat /\ room \in Nat
    BY <1>1
  <2>2. o + room + i \in 1..Len(Q)
    <3>1. PICK l \in Nat, p \in Nat : l = Len(Q) /\ p = Len(pending')
      BY <1>2
    <3>2. p = l - o - room /\ i \in 1..p
      BY <2>1, <3>1
    <3> QED
      BY <2>1, <3>1, <3>2
  <2> QED
    BY <2>1, <2>2
<1>4. ASSUME NEW i \in 1..Len(telling'), ~(i <= Len(telling))
      PROVE  /\ telling'[i] = Q[o + (i - Len(telling))].number
             /\ o + (i - Len(telling)) \in 1..Len(Q) /\ i - Len(telling) <= room
  <2>1. /\ Len(telling') = Len(telling) + room /\ o + room <= Len(Q)
        /\ telling'[i] = Q[o + (i - Len(telling))].number
    BY <1>1, <1>4
  <2>2. o + (i - Len(telling)) \in 1..Len(Q) /\ i - Len(telling) <= room
    <3>1. PICK l \in Nat, t \in Nat : l = Len(Q) /\ t = Len(telling) /\ o \in Nat /\ room \in Nat
      BY <1>1, <1>2
    <3>2. i \in 1..(t + room) /\ ~ (i <= t) /\ o + room <= l
      BY <1>4, <2>1, <3>1
    <3> QED
      BY <3>1, <3>2
  <2> QED
    BY <2>1, <2>2
<1>5. ASSUME NEW i \in 1..Len(telling'), i <= Len(telling)
      PROVE  telling'[i] = telling[i] /\ i \in DOMAIN telling
  BY <1>1, <1>2, <1>5
<1>6. \A i \in 1..Len(Q) : Q[i].number \in Nat /\ Q[i].at \in Nat
  <2>1. \A i \in 1..Len(Q) : Q[i] \in Event
    BY <1>1, ElementOfSeq
  <2> QED
    BY <2>1 DEF Event
<1>7. BacklogTypeOK'
  <2>1. dropped' \in Nat
    BY <1>0, <1>1, BacklogConstants DEF Least
  <2> QED
    BY <1>0, <1>1, <2>1 DEF BacklogTypeOK
<1>8. OrderInv'
  <2>1. \A e \in entitled' : e <= emitted'
    BY <1>0, <1>1 DEF BInv, OrderInv
  <2>2. \A i \in DOMAIN telling' : telling'[i] \in entitled'
    <3> SUFFICES ASSUME NEW i \in 1..Len(telling') PROVE telling'[i] \in entitled'
      BY <1>2
    <3>1. CASE i <= Len(telling)
      BY <1>1, <1>5, <3>1 DEF BInv, OrderInv
    <3>2. CASE ~(i <= Len(telling))
      BY <1>1, <1>4, <3>2
    <3> QED
      BY <3>1, <3>2
  <2>3. \A i \in DOMAIN pending' : pending'[i].number \in entitled'
    BY <1>1, <1>2, <1>3
  <2>4. ASSUME NEW i \in DOMAIN telling', NEW j \in DOMAIN telling', i < j
        PROVE  telling'[i] < telling'[j]
    <3>0. i \in 1..Len(telling') /\ j \in 1..Len(telling') /\ i \in Nat /\ j \in Nat
      BY <1>2
    <3>1. CASE j <= Len(telling)
      <4>1. i <= Len(telling)
        BY <1>2, <2>4, <3>0, <3>1
      <4> QED
        BY <1>5, <2>4, <3>0, <3>1, <4>1 DEF BInv, OrderInv
    <3>2. CASE i <= Len(telling) /\ ~(j <= Len(telling))
      BY <1>1, <1>4, <1>5, <3>0, <3>2
    <3>3. CASE ~(i <= Len(telling))
      <4>1. ~(j <= Len(telling)) /\ o + (i - Len(telling)) < o + (j - Len(telling))
        BY <1>2, <2>4, <3>0, <3>3
      <4> QED
        BY <1>1, <1>4, <3>0, <3>3, <4>1
    <3> QED
      BY <3>1, <3>2, <3>3
  <2>5. ASSUME NEW i \in DOMAIN pending', NEW j \in DOMAIN pending', i < j
        PROVE  pending'[i].number < pending'[j].number
    <3>1. i \in 1..Len(pending') /\ j \in 1..Len(pending') /\ o + room + i < o + room + j
      BY <1>2, <2>5
    <3> QED
      BY <1>1, <1>3, <3>1
  <2>6. ASSUME NEW i \in DOMAIN telling', NEW j \in DOMAIN pending'
        PROVE  telling'[i] < pending'[j].number
    <3>0. i \in 1..Len(telling') /\ j \in 1..Len(pending') /\ i \in Nat /\ j \in Nat
      BY <1>2
    <3>1. CASE i <= Len(telling)
      BY <1>1, <1>3, <1>5, <3>0, <3>1
    <3>2. CASE ~(i <= Len(telling))
      <4>1. o + (i - Len(telling)) < o + room + j
        BY <1>2, <1>4, <3>0, <3>2
      <4> QED
        BY <1>1, <1>3, <1>4, <3>0, <3>2, <4>1
    <3> QED
      BY <3>1, <3>2
  <2> QED
    BY <2>1, <2>2, <2>3, <2>4, <2>5, <2>6 DEF OrderInv
<1>9. CountInv'
  <2>0. Cardinality(entitled) \in Nat
    BY <1>0, FS_CardinalityType
  <2>1. dropped' <= DROPPED_MAX
    BY <1>0, <1>1, BacklogConstants DEF Least
  <2>2. ASSUME dropped' < DROPPED_MAX
        PROVE  dropped' + Len(telling') + Len(pending') = Cardinality(entitled')
    <3>1. dropped' = dropped + o /\ dropped < DROPPED_MAX
      BY <1>0, <1>1, <2>2, BacklogConstants DEF Least
    <3>2. dropped + Len(telling) + Len(pending) = Cardinality(entitled)
      BY <3>1 DEF BInv, CountInv
    <3>3. /\ Len(telling') = Len(telling) + room /\ Len(pending') = Len(Q) - o - room
          /\ Cardinality(entitled') = Cardinality(entitled) + (Len(Q) - Len(pending))
      BY <1>1
    <3> QED
      BY <1>0, <1>2, <2>0, <3>1, <3>2, <3>3
  <2> QED
    BY <2>1, <2>2 DEF CountInv
<1>10. AgeInv'
  <2> SUFFICES ASSUME NEW i \in 1..Len(pending')
               PROVE  /\ pending'[i].at < tick'
                      /\ i + MAX_EVENTS_PER_VIEW * (tick' - pending'[i].at) <= MAX_EVENTS
    BY <1>2 DEF AgeInv
  <2> DEFINE k == o + room + i
             x == tick - Q[k].at
             R == MAX_EVENTS_PER_VIEW
  (* Something is left: the frame was full.                                *)
  <2>1. room = R /\ k = o + R + i
    <3>1. room < Len(Q) - o
      BY <1>1, <1>2
    <3> QED
      BY <1>1, <3>1
  <2>2. pending'[i] = Q[k] /\ k \in 1..Len(Q)
    BY <1>3
  <2> HIDE DEF k
  <2>3. /\ Q[k].at \in Nat /\ R \in Nat /\ MAX_EVENTS \in Nat
        /\ k \in Nat /\ i \in Nat /\ o \in Nat
    <3>1. Q[k].at \in Nat
      BY <1>6, <2>2
    <3>2. k \in Nat /\ i \in Nat
      BY <1>2, <2>2
    <3>3. o \in Nat
      BY <1>1
    <3> QED
      BY <3>1, <3>2, <3>3, BacklogConstants
  <2>4. k - o <= MAX_EVENTS
    <3>1. Len(Q) - o <= MAX_EVENTS
      BY <1>1
    <3> QED
      BY <1>2, <2>2, <2>3, <3>1
  <2>5. /\ x \in Int /\ tick' = tick + 1 /\ tick' - pending'[i].at = x + 1
        /\ pending'[i].at = Q[k].at
    <3>1. tick' = tick + 1 /\ pending'[i].at = Q[k].at
      BY <1>1, <2>2
    <3>2. PICK t \in Nat, a \in Nat : t = tick /\ a = Q[k].at
      BY <1>0, <2>3
    <3>3. x = t - a /\ tick' = t + 1 /\ pending'[i].at = a
      BY <3>1, <3>2
    <3> HIDE DEF x
    <3>4. PICK y \in Int : y = x /\ y = t - a
      BY <3>3
    <3>5. (t + 1) - a = y + 1
      BY <3>4
    <3>6. tick' - pending'[i].at = (t + 1) - a
      BY <3>3, Zenon
    <3> QED
      BY <3>1, <3>4, <3>5, <3>6, Zenon
  <2>6. Q[k].at = tick \/ (Q[k].at < tick /\ k + R * x <= MAX_EVENTS)
    BY <1>1, <2>2
  <2>7. Q[k].at = tick => x = 0
    BY <1>0
  <2>8. pending'[i].at < tick'
    <3>1. PICK t \in Nat, a \in Nat : t = tick /\ a = Q[k].at
      BY <1>0, <2>3
    <3>2. a <= t
      BY <2>6, <3>1
    <3> QED
      BY <2>5, <3>1, <3>2
  <2> HIDE DEF x, R
  <2>9. R * (x + 1) = R * x + R /\ R * x \in Int /\ (x = 0 => R * x = 0)
    BY <2>3, <2>5
  <2>10. i + (R * x + R) <= MAX_EVENTS
    <3> DEFINE y == R * x
    <3>1. y \in Int /\ (x = 0 => y = 0)
      BY <2>9
    <3>2. x = 0 \/ k + y <= MAX_EVENTS
      BY <2>6, <2>7
    <3> HIDE DEF y
    <3>3. i + (y + R) <= MAX_EVENTS
      BY <2>1, <2>3, <2>4, <3>1, <3>2
    <3> QED
      BY <3>3 DEF y
  <2>11. i + R * (tick' - pending'[i].at) <= MAX_EVENTS
    BY <2>5, <2>9, <2>10
  <2> QED
    BY <2>8, <2>11 DEF R
<1> QED
  BY <1>7, <1>8, <1>9, <1>10 DEF BInv

-----------------------------------------------------------------------------
LEMMA BInvAccounts ==
  ASSUME BInv
  PROVE  EveryEventIsAccountedFor
<1>0. /\ tick \in Nat /\ entitled \in SUBSET Nat /\ IsFiniteSet(entitled)
      /\ dropped \in Nat /\ pending \in Seq(Event) /\ telling \in Seq(Nat)
      /\ Len(pending) \in Nat /\ Len(telling) \in Nat
      /\ DOMAIN pending = 1..Len(pending) /\ DOMAIN telling = 1..Len(telling)
  BY LenProperties DEF BInv, BacklogTypeOK
<1>1. Accounted
  <2>1. Told \cup Numbers(pending) \subseteq entitled
    BY DEF BInv, OrderInv, Told, Numbers
  <2>2. Cardinality(entitled) \in Nat
    BY <1>0, FS_CardinalityType
  <2>3. dropped < DROPPED_MAX => dropped + Len(telling) + Len(pending) = Cardinality(entitled)
    BY DEF BInv, CountInv
  <2> QED
    BY <1>0, <2>1, <2>2, <2>3 DEF Accounted
<1>2. OldestFirst
  <2> DEFINE waiting == [i \in DOMAIN pending |-> pending[i].number]
             run == telling \o waiting
  <2>1. \A i \in 1..Len(pending) : pending[i].number \in Nat
    <3>1. \A i \in 1..Len(pending) : pending[i] \in Event
      BY <1>0, ElementOfSeq
    <3> QED
      BY <3>1 DEF Event
  <2>2. waiting \in [1..Len(pending) -> Nat]
    BY <1>0, <2>1
  <2>3. waiting \in Seq(Nat)
    BY <1>0, <2>2, SeqDef
  <2>4. Len(waiting) = Len(pending) /\ \A i \in 1..Len(pending) : waiting[i] = pending[i].number
    BY <1>0, <2>2, <2>3, LenProperties
  <2> HIDE DEF waiting
  <2>5. /\ DOMAIN run = 1..(Len(telling) + Len(pending))
        /\ \A i \in 1..(Len(telling) + Len(pending)) :
             run[i] = IF i <= Len(telling) THEN telling[i] ELSE waiting[i - Len(telling)]
    <3>1. /\ run \in Seq(Nat) /\ Len(run) = Len(telling) + Len(waiting)
          /\ \A i \in 1..(Len(telling) + Len(waiting)) :
               run[i] = IF i <= Len(telling) THEN telling[i] ELSE waiting[i - Len(telling)]
      BY <1>0, <2>3, ConcatProperties
    <3> HIDE DEF run
    <3> QED
      BY <2>4, <3>1, LenProperties
  <2>6. ASSUME NEW i \in DOMAIN run, i <= Len(telling)
        PROVE  run[i] = telling[i] /\ i \in DOMAIN telling /\ i \in Nat
    BY <1>0, <2>5, <2>6
  <2>7. ASSUME NEW i \in DOMAIN run, ~(i <= Len(telling))
        PROVE  /\ run[i] = pending[i - Len(telling)].number
               /\ i - Len(telling) \in DOMAIN pending /\ i \in Nat
    <3>1. i \in Nat /\ i - Len(telling) \in 1..Len(pending)
      BY <1>0, <2>5, <2>7
    <3> QED
      BY <1>0, <2>4, <2>5, <2>7, <3>1
  <2>8. \A i \in DOMAIN run : i \in Nat
    BY <1>0, <2>5
  <2> HIDE DEF run
  <2>9. ASSUME NEW i \in DOMAIN run, NEW j \in DOMAIN run, i < j
        PROVE  run[i] < run[j]
    <3>1. CASE j <= Len(telling)
      <4>1. i <= Len(telling)
        BY <1>0, <2>8, <2>9, <3>1
      <4> QED
        BY <2>6, <2>9, <3>1, <4>1 DEF BInv, OrderInv
    <3>2. CASE i <= Len(telling) /\ ~(j <= Len(telling))
      BY <2>6, <2>7, <3>2 DEF BInv, OrderInv
    <3>3. CASE ~(i <= Len(telling))
      <4>1. ~(j <= Len(telling)) /\ i - Len(telling) < j - Len(telling)
        BY <1>0, <2>8, <2>9, <3>3
      <4> QED
        BY <2>7, <3>3, <4>1 DEF BInv, OrderInv
    <3> QED
      BY <3>1, <3>2, <3>3
  <2> QED
    BY <2>9 DEF OldestFirst, run, waiting
<1>3. ToldSoon
  <2> SUFFICES ASSUME NEW i \in DOMAIN pending
               PROVE  (tick - pending[i].at) * MAX_EVENTS_PER_VIEW < MAX_EVENTS
    BY DEF ToldSoon
  <2> DEFINE x == tick - pending[i].at
             y == MAX_EVENTS_PER_VIEW * x
  <2>1. i + y <= MAX_EVENTS
    BY DEF BInv, AgeInv
  <2>2. pending[i].at \in Nat
    <3>1. pending[i] \in Event
      BY <1>0, ElementOfSeq
    <3> QED
      BY <3>1 DEF Event
  <2>3. x \in Int /\ i \in Nat /\ 1 <= i
    BY <1>0, <2>2
  <2> HIDE DEF x
  <2>4. y \in Int /\ x * MAX_EVENTS_PER_VIEW = y
    BY <2>3, BacklogConstants
  <2> HIDE DEF y
  <2>5. y < MAX_EVENTS
    BY <2>1, <2>3, <2>4, BacklogConstants
  <2> QED
    BY <2>4, <2>5 DEF x
<1> QED
  BY <1>1, <1>2, <1>3 DEF EveryEventIsAccountedFor

(* For any capacities and any match: what a recipient is told is what it   *)
(* saw, oldest first, every event of it told, waiting or counted, and none *)
(* waits longer than a full queue takes to drain.                          *)
THEOREM NothingIsLostSilently ==
  BacklogSpec => []EveryEventIsAccountedFor
<1>1. BacklogInit => BInv
  <2> SUFFICES ASSUME BacklogInit PROVE BInv
    OBVIOUS
  <2>1. /\ pending = <<>> /\ telling = <<>> /\ dropped = 0 /\ tick = 0 /\ emitted = 0
        /\ entitled = {}
    BY DEF BacklogInit
  <2>2. /\ pending \in Seq(Event) /\ telling \in Seq(Nat)
        /\ Len(pending) = 0 /\ Len(telling) = 0 /\ DOMAIN pending = {} /\ DOMAIN telling = {}
    BY <2>1
  <2>3. IsFiniteSet(entitled) /\ Cardinality(entitled) = 0
    BY <2>1, FS_EmptySet
  <2> QED
    BY <2>1, <2>2, <2>3, BacklogConstants DEF BInv, BacklogTypeOK, OrderInv, CountInv, AgeInv
<1>2. BInv /\ [TellTick]_backlog => BInv'
  <2>1. BInv /\ UNCHANGED backlog => BInv'
    BY DEF BInv, BacklogTypeOK, OrderInv, CountInv, AgeInv, backlog
  <2> QED
    BY <2>1, TickKeepsBInv
<1>3. BInv => EveryEventIsAccountedFor
  BY BInvAccounts
<1> QED
  BY <1>1, <1>2, <1>3, PTL DEF BacklogSpec

-----------------------------------------------------------------------------
(* The prediction.                                                         *)

(* How many intentions the server has read.                                *)
Heard == Len(said) - Len(uplink)

(* Of a view, what matters here: its tick and its acknowledgement.         *)
PredictionTypeOK ==
  /\ said \in Seq(Intentions) /\ Len(said) <= MaxSeq + 1
  /\ uplink \in Seq(ClientMessage)
  /\ outstanding \in Seq(Nat)
  /\ \E views : downlink \in Seq(views)
  /\ \A i \in DOMAIN downlink : downlink[i].tick \in Nat \ {0} /\ downlink[i].ack \in Seqs \cup {NONE}

(* Before the server has read that the seat is ready, nothing was shown to *)
(* it and nothing said.                                                    *)
NotYetReady ==
  /\ uplink = <<[kind |-> "Ready"]>> /\ said = <<>> /\ downlink = <<>> /\ ~started /\ anchor = NoView
  /\ refusals[0] = {} /\ accepted[0] = {}
  /\ seats[0] # Vacant => ~ seats[0].ready /\ seats[0].highest_seq = NONE

(* What is on its way up is the end of what was said, without a gap; what  *)
(* came before was accepted or refused, and is all the session knows of.   *)
UplinkInv ==
  \/ NotYetReady
  \/ /\ seats[0] # Vacant
     /\ Len(uplink) <= Len(said)
     /\ \A i \in DOMAIN uplink : uplink[i] = [kind |-> "Input", seq |-> Heard + i - 1]
     /\ seats[0].highest_seq < Heard
     /\ \A q \in 0..Heard - 1 : q \in accepted[0] \cup refusals[0]

(* Acknowledgements only grow: from the client's anchor through the views  *)
(* on their way to what the session has applied.                           *)
DownlinkInv ==
  /\ \A i \in DOMAIN downlink :
       /\ seats[0] # Vacant => downlink[i].ack <= seats[0].applied_seq
       /\ anchor # NoView => anchor.ack <= downlink[i].ack
       /\ \A j \in DOMAIN downlink : i <= j => downlink[i].ack <= downlink[j].ack
  /\ anchor # NoView => /\ seats[0] # Vacant
                        /\ anchor.ack \in Seqs \cup {NONE} /\ anchor.ack <= seats[0].applied_seq

(* What the client still predicts begins right after what its anchor       *)
(* acknowledges, and leaves nothing out.                                   *)
OutstandingInv ==
  /\ \A i \in DOMAIN outstanding : outstanding[i] = Len(said) - Len(outstanding) + i - 1
  /\ IF anchor = NoView THEN said = <<>> /\ outstanding = <<>>
                        ELSE Len(said) - Len(outstanding) = anchor.ack + 1

(* The inductive invariant.                                                *)
PInv ==
  /\ TypeOK /\ IInv
  /\ PredictionTypeOK /\ UplinkInv /\ DownlinkInv /\ OutstandingInv
-----------------------------------------------------------------------------

LEMMA OneSeat == Seats = {0} /\ 0 \in Seats /\ ExpectedPlayers = 1 /\ Seqs \subseteq Nat /\ MaxSeq \in Nat
  BY MatchConstants, PredictionConstants DEF Seats, Seqs

(* What the authority's own invariants say of the one seat.                *)
LEMMA SeatIs ==
  ASSUME TypeOK, IInv, seats[0] # Vacant
  PROVE  /\ 0 \in Occupied /\ seats[0] \in Session
         /\ seats[0].pending \in Seq(Seqs)
         /\ seats[0].applied_seq \in Seqs \cup {NONE} /\ seats[0].highest_seq \in Seqs \cup {NONE}
         /\ seats[0].applied_seq \in Int /\ seats[0].highest_seq \in Int
         /\ seats[0].applied_seq <= seats[0].highest_seq
         /\ \A q \in Elements(seats[0].pending) : q \in Int /\ seats[0].applied_seq < q /\ q <= seats[0].highest_seq
         /\ accepted[0] = Logged(0) \cup Elements(seats[0].pending)
<1>1. 0 \in Occupied /\ seats[0] \in Session
  BY OneSeat DEF TypeOK, Occupied
<1>2. /\ seats[0].pending \in Seq(Seqs)
      /\ seats[0].applied_seq \in Seqs \cup {NONE} /\ seats[0].highest_seq \in Seqs \cup {NONE}
  BY <1>1 DEF Session
<1>3. seats[0].applied_seq \in Int /\ seats[0].highest_seq \in Int
  <2>1. NONE \in Int /\ \A q \in Seqs : q \in Int
    BY OneSeat DEF NONE
  <2> QED
    BY <1>2, <2>1, Zenon
<1>4. \A i \in DOMAIN seats[0].pending : seats[0].pending[i] \in Int
  <2>1. \A i \in DOMAIN seats[0].pending : seats[0].pending[i] \in Seqs
    BY <1>2
  <2>2. \A q \in Seqs : q \in Int
    BY OneSeat
  <2> QED
    BY <2>1, <2>2, Zenon
<1> QED
  BY <1>1, <1>2, <1>3, <1>4 DEF IInv, QueueInv, LedgerInv, Elements

(* What is acknowledged is settled: it is in the log or was refused.       *)
LEMMA Settles ==
  ASSUME PInv, seats[0] # Vacant, NEW q \in Nat, q <= seats[0].applied_seq
  PROVE  q \in Logged(0) \cup refusals[0] /\ q < Len(said)
<1>1. /\ seats[0].applied_seq \in Int /\ seats[0].highest_seq \in Int
      /\ seats[0].applied_seq <= seats[0].highest_seq
      /\ \A r \in Elements(seats[0].pending) : r \in Int /\ seats[0].applied_seq < r
      /\ accepted[0] = Logged(0) \cup Elements(seats[0].pending)
  BY SeatIs DEF PInv
<1>2. ~ NotYetReady
  BY <1>1 DEF NotYetReady, NONE
<1>3. /\ Len(uplink) <= Len(said) /\ Len(uplink) \in Nat /\ Len(said) \in Nat
      /\ seats[0].highest_seq < Heard
      /\ \A r \in 0..Heard - 1 : r \in accepted[0] \cup refusals[0]
  BY <1>2 DEF PInv, UplinkInv, PredictionTypeOK
<1>4. q \in 0..Heard - 1 /\ Heard <= Len(said)
  BY <1>1, <1>3 DEF Heard
<1>5. q \in accepted[0] \cup refusals[0]
  BY <1>3, <1>4
<1>6. q \notin Elements(seats[0].pending)
  BY <1>1
<1>7. q < Len(said)
  BY <1>3, <1>4 DEF Heard
<1> QED
  BY <1>1, <1>5, <1>6, <1>7

LEMMA AtFirst == PredictionInit => PInv
<1> SUFFICES ASSUME PredictionInit PROVE PInv
  OBVIOUS
<1>1. TypeOK /\ IInv
  BY InitType, InitInv DEF PredictionInit
<1>2. PredictionTypeOK
  <2>1. [kind |-> "Ready"] \in ClientMessage
    BY DEF ClientMessage
  <2> QED
    BY <2>1, OneSeat DEF PredictionInit, PredictionTypeOK
<1>3. NotYetReady
  BY OneSeat DEF PredictionInit, NotYetReady, Init
<1>4. DownlinkInv /\ OutstandingInv
  BY DEF PredictionInit, DownlinkInv, OutstandingInv
<1> QED
  BY <1>1, <1>2, <1>3, <1>4 DEF PInv, UplinkInv

(* Every step of the whole is one of the authority, or leaves it alone.    *)
LEMMA AuthoritySteps ==
  ASSUME PInv, PredictionNext
  PROVE  TypeOK' /\ IInv'
<1>1. CASE SitDown
  BY <1>1, NextType, NextInv DEF SitDown, Next, PInv
<1>2. CASE ServerReads
  <2>1. uplink \in Seq(ClientMessage) /\ uplink # <<>>
    BY <1>2 DEF ServerReads, PInv, PredictionTypeOK
  <2>2. Head(uplink) \in ClientMessage
    BY <2>1
  <2>3. Next
    BY <1>2, <2>2, OneSeat DEF ServerReads, Next
  <2> QED
    BY <2>3, NextType, NextInv DEF PInv
<1>3. CASE ServerTick
  BY <1>3, NextType, NextInv DEF ServerTick, Next, PInv
<1>4. CASE Advance
  BY <1>4, NextType, NextInv DEF Advance, PInv
<1> QED
  BY <1>1, <1>2, <1>3, <1>4 DEF PredictionNext

(* Nothing of the client's changes: its own part of the invariant stays.   *)
LEMMA ClientWaits ==
  ASSUME PInv, UNCHANGED <<clientVars>>
  PROVE  OutstandingInv'
  BY DEF PInv, OutstandingInv, clientVars, predictionVars

LEMMA SitDownKeeps ==
  ASSUME PInv, SitDown
  PROVE  PredictionTypeOK' /\ UplinkInv' /\ DownlinkInv' /\ OutstandingInv'
<1>1. seats[0] = Vacant /\ LowestFree = 0 /\ ~ started
  <2>1. Occupied # Seats /\ ~ started
    BY DEF SitDown, Join, JoinAnswer
  <2>2. seats[0] = Vacant
    BY <2>1, OneSeat DEF Occupied
  <2>3. Seats \ Occupied = {0}
    BY <2>2, OneSeat DEF Occupied
  <2> QED
    BY <2>1, <2>2, <2>3 DEF LowestFree
<1>2. NotYetReady /\ anchor = NoView
  BY <1>1 DEF PInv, UplinkInv, NotYetReady
<1>3. NotYetReady'
  <2>1. seats'[0] = NewSession /\ accepted'[0] = {} /\ refusals'[0] = {} /\ UNCHANGED <<started, uplink, downlink, said, anchor>>
    BY <1>1, OneSeat DEF SitDown, Join, PInv, TypeOK, clientVars, predictionVars
  <2> QED
    BY <1>2, <2>1 DEF NotYetReady, NewSession
<1>4. UNCHANGED <<uplink, downlink, said, outstanding, anchor>>
  BY DEF SitDown, clientVars, predictionVars
<1>5. PredictionTypeOK'
  BY <1>4 DEF PInv, PredictionTypeOK
<1>6. DownlinkInv'
  BY <1>2, <1>4 DEF NotYetReady, DownlinkInv
<1> QED
  BY <1>3, <1>5, <1>6, ClientWaits DEF UplinkInv, SitDown

LEMMA ServerReadsKeeps ==
  ASSUME PInv, ServerReads
  PROVE  PredictionTypeOK' /\ UplinkInv' /\ DownlinkInv' /\ OutstandingInv'
<1> DEFINE m == Head(uplink)
<1>1. /\ seats[0] # Vacant /\ uplink # <<>> /\ Deliver(0, m) /\ uplink' = Tail(uplink)
      /\ UNCHANGED <<downlink, said, outstanding, anchor, started>>
  BY DEF ServerReads, Deliver, clientVars, predictionVars
<1>2. /\ uplink \in Seq(ClientMessage) /\ m = uplink[1] /\ 1 \in DOMAIN uplink
      /\ uplink' \in Seq(ClientMessage) /\ Len(uplink') = Len(uplink) - 1 /\ Len(uplink) \in Nat \ {0}
      /\ \A i \in DOMAIN uplink' : i + 1 \in DOMAIN uplink /\ uplink'[i] = uplink[i + 1] /\ i \in Nat
  BY <1>1 DEF PInv, PredictionTypeOK
<1>3. seats[0] \in Session /\ DOMAIN seats = Seats
  BY <1>1, SeatIs DEF PInv, TypeOK
<1>4. /\ PredictionTypeOK' /\ OutstandingInv'
      /\ Len(said) \in Nat /\ Len(said)' = Len(said)
  BY <1>1, <1>2, ClientWaits DEF PInv, PredictionTypeOK, ServerReads
<1>5. CASE NotYetReady
  <2>1. m = [kind |-> "Ready"]
    BY <1>2, <1>5 DEF NotYetReady
  <2>2. DeliverReady(0, m)
    BY <1>1, <2>1 DEF Deliver, DeliverInput, RefuseInput, DeliverSurrender, DeliverRefused, Verdict
  <2>3. seats' = [seats EXCEPT ![0].ready = TRUE] /\ UNCHANGED <<accepted, refusals>>
    BY <2>2 DEF DeliverReady
  <2>4. /\ seats'[0] # Vacant /\ seats'[0].highest_seq = seats[0].highest_seq
        /\ seats'[0].applied_seq = seats[0].applied_seq
    BY <1>3, <2>3, OneSeat DEF Session, Vacant
  <2>5. uplink' = <<>> /\ Len(uplink') = 0 /\ DOMAIN uplink' = {} /\ Len(said) = 0 /\ downlink = <<>>
    BY <1>1, <1>2, <1>5 DEF NotYetReady
  <2>6. UplinkInv'
    BY <1>1, <1>5, <2>4, <2>5 DEF NotYetReady, UplinkInv, Heard, NONE
  <2>7. anchor = NoView
    BY <1>5 DEF NotYetReady
  <2>8. DownlinkInv'
    BY <1>1, <2>5, <2>7 DEF DownlinkInv
  <2> QED
    BY <1>4, <2>6, <2>8
<1>6. CASE ~ NotYetReady
  <2>1. /\ Len(uplink) <= Len(said)
        /\ \A i \in DOMAIN uplink : uplink[i] = [kind |-> "Input", seq |-> Heard + i - 1]
        /\ seats[0].highest_seq < Heard /\ seats[0].highest_seq \in Int
        /\ \A q \in 0..Heard - 1 : q \in accepted[0] \cup refusals[0]
    BY <1>1, <1>6, SeatIs DEF PInv, UplinkInv
  <2>2. Heard \in Nat /\ Heard' = Heard + 1 /\ m = [kind |-> "Input", seq |-> Heard]
    BY <1>2, <1>4, <2>1 DEF Heard
  <2>3. /\ seats'[0] # Vacant /\ seats'[0].applied_seq = seats[0].applied_seq
        /\ seats'[0].highest_seq \in {seats[0].highest_seq, Heard}
        /\ accepted[0] \subseteq accepted'[0] /\ refusals[0] \subseteq refusals'[0]
        /\ Heard \in accepted'[0] \cup refusals'[0]
    <3>1. CASE DeliverInput(0, m)
      <4>0. m.seq = Heard
        BY <2>2
      <4> HIDE DEF m
      <4>1. /\ seats' = [seats EXCEPT ![0].highest_seq = m.seq, ![0].pending = Append(@, m.seq)]
            /\ accepted' = [accepted EXCEPT ![0] = @ \cup {m.seq}] /\ refusals' = refusals
        BY <3>1 DEF DeliverInput
      <4>2. seats'[0] = [seats[0] EXCEPT !.highest_seq = Heard, !.pending = Append(@, Heard)]
        BY <1>3, <4>0, <4>1, OneSeat
      <4>3. accepted'[0] = accepted[0] \cup {Heard}
        BY <4>0, <4>1, OneSeat DEF PInv, TypeOK
      <4>4. seats'[0] # Vacant /\ seats'[0].applied_seq = seats[0].applied_seq /\ seats'[0].highest_seq = Heard
        BY <1>3, <4>2 DEF Session, Vacant
      <4> QED
        BY <4>1, <4>3, <4>4
    <3>2. CASE RefuseInput(0, m)
      BY <1>3, <2>2, <3>2, OneSeat DEF RefuseInput, Session, Vacant, PInv, TypeOK
    <3>3. Verdict(0, m) \notin {"Frame", "OutOfOrder"} /\ m.kind = "Input"
      BY <1>1, <2>2 DEF Verdict
    <3> QED
      BY <1>1, <3>1, <3>2, <3>3 DEF Deliver, DeliverReady, DeliverSurrender, DeliverRefused
  <2>4. UplinkInv'
    <3>1. \A i \in DOMAIN uplink' : uplink'[i] = [kind |-> "Input", seq |-> Heard' + i - 1]
      BY <1>2, <2>1, <2>2
    <3>2. \A q \in 0..Heard' - 1 : q \in accepted'[0] \cup refusals'[0]
      BY <2>1, <2>2, <2>3
    <3>3. seats'[0].highest_seq < Heard'
      BY <2>1, <2>2, <2>3
    <3> QED
      BY <1>1, <1>2, <1>4, <2>1, <2>3, <3>1, <3>2, <3>3 DEF UplinkInv
  <2>5. DownlinkInv'
    BY <1>1, <2>3 DEF PInv, DownlinkInv
  <2> QED
    BY <1>4, <2>4, <2>5
<1> QED
  BY <1>5, <1>6

LEMMA NobodyTicks ==
  ASSUME PInv, TickRuns
  PROVE  ~ NotYetReady
<1> SUFFICES ASSUME NotYetReady PROVE FALSE
  OBVIOUS
<1>1. EverybodyReady
  BY DEF TickRuns, Begun, NotYetReady
<1>2. Occupied \subseteq {0} /\ (0 \in Occupied => ~ seats[0].ready)
  BY OneSeat DEF Occupied, NotYetReady
<1>3. Occupied = {}
  BY <1>1, <1>2 DEF EverybodyReady
<1> QED
  BY <1>1, <1>3, OneSeat, FS_EmptySet DEF EverybodyReady

LEMMA ServerTickKeeps ==
  ASSUME PInv, ServerTick, TypeOK', IInv'
  PROVE  PredictionTypeOK' /\ UplinkInv' /\ DownlinkInv' /\ OutstandingInv'
<1>1. UNCHANGED <<uplink, said, outstanding, anchor>> /\ OutstandingInv'
  BY ClientWaits DEF ServerTick, clientVars, predictionVars
<1>2. CASE TickWaits
  <2>1. UNCHANGED <<seats, started, accepted, refusals, downlink, ticks_run>>
    BY <1>2 DEF ServerTick, TickWaits
  <2>2. PredictionTypeOK' /\ DownlinkInv'
    BY <1>1, <2>1 DEF PInv, PredictionTypeOK, DownlinkInv
  <2>3. UplinkInv'
    BY <1>1, <2>1 DEF PInv, UplinkInv, NotYetReady, Heard
  <2> QED
    BY <1>1, <2>2, <2>3
<1>3. CASE TickRuns
  <2>1. ~ NotYetReady
    BY <1>3, NobodyTicks
  <2>2. /\ seats[0] # Vacant
        /\ Len(uplink) <= Len(said)
        /\ \A i \in DOMAIN uplink : uplink[i] = [kind |-> "Input", seq |-> Heard + i - 1]
        /\ seats[0].highest_seq < Heard
        /\ \A q \in 0..Heard - 1 : q \in accepted[0] \cup refusals[0]
    BY <2>1 DEF PInv, UplinkInv
  <2>3. /\ 0 \in Occupied /\ seats[0] \in Session /\ seats[0].pending \in Seq(Seqs)
        /\ \A q \in Elements(seats[0].pending) : q \in Int /\ seats[0].applied_seq < q
        /\ seats[0].applied_seq \in Int
    BY <2>2, SeatIs DEF PInv
  <2>4. /\ seats'[0] = Drained(seats[0]) /\ frames'[0] = Drained(seats[0]).applied_seq
        /\ ticks_run' = ticks_run + 1 /\ ticks_run \in Nat
        /\ UNCHANGED <<accepted, refusals>>
    BY <1>3, <2>3, OneSeat, MatchConstants DEF TickRuns, PInv, TypeOK
  <2>5. /\ seats'[0] # Vacant /\ seats'[0].highest_seq = seats[0].highest_seq
        /\ seats'[0].applied_seq = frames'[0] /\ seats[0].applied_seq <= frames'[0]
        /\ frames'[0] \in Seqs \cup {NONE} /\ frames'[0] \in Int
    <3>1. Drained(seats[0]) \in Session
      BY <2>3, DrainedType
    <3>2. Drained(seats[0]).highest_seq = seats[0].highest_seq
      BY <2>3 DEF Drained, Session
    <3>3. Drained(seats[0]).applied_seq = IF Len(seats[0].pending) = 0 THEN seats[0].applied_seq
                                           ELSE seats[0].pending[Len(seats[0].pending)]
      BY <2>3 DEF Drained, Session
    <3>4. Drained(seats[0]).applied_seq \in Int /\ seats[0].applied_seq <= Drained(seats[0]).applied_seq
      <4>0. PICK a \in Int : a = seats[0].applied_seq
        BY <2>3
      <4>1. CASE Len(seats[0].pending) = 0
        BY <3>3, <4>0, <4>1
      <4>2. CASE Len(seats[0].pending) # 0
        <5>1. Len(seats[0].pending) \in DOMAIN seats[0].pending
          BY <2>3, <4>2
        <5>2. PICK b \in Int : b = seats[0].pending[Len(seats[0].pending)] /\ a < b
          BY <2>3, <4>0, <5>1 DEF Elements
        <5> QED
          BY <3>3, <4>0, <4>2, <5>2
      <4> QED
        BY <4>1, <4>2
    <3>5. Drained(seats[0]) # Vacant /\ Drained(seats[0]).applied_seq \in Seqs \cup {NONE}
      BY <3>1, SessionIsNotVacant DEF Session
    <3> QED
      BY <2>4, <3>2, <3>4, <3>5
  <2>6. PICK view : downlink' = Append(downlink, view) /\ view.tick = ticks_run' /\ view.ack = frames'[0]
    BY <2>4 DEF ServerTick, ViewOf
  <2>7. PICK views : downlink \in Seq(views)
    BY DEF PInv, PredictionTypeOK
  <2>8. /\ Len(downlink) \in Nat /\ DOMAIN downlink = 1..Len(downlink)
        /\ DOMAIN downlink' = 1..(Len(downlink) + 1)
        /\ \A i \in DOMAIN downlink : downlink'[i] = downlink[i]
        /\ downlink'[Len(downlink) + 1] = view
        /\ downlink' \in Seq(views \cup {view})
    BY <2>6, <2>7
  <2>9. PredictionTypeOK'
    <3>1. \A i \in DOMAIN downlink' : downlink'[i].tick \in Nat \ {0} /\ downlink'[i].ack \in Seqs \cup {NONE}
      BY <2>4, <2>5, <2>6, <2>8 DEF PInv, PredictionTypeOK
    <3> QED
      BY <1>1, <2>8, <3>1 DEF PInv, PredictionTypeOK
  <2>10. UplinkInv'
    BY <1>1, <2>2, <2>4, <2>5 DEF UplinkInv, Heard
  <2>11. DownlinkInv'
    <3>1. \A i \in DOMAIN downlink : downlink[i].ack \in Int /\ downlink[i].ack <= seats[0].applied_seq
      <4>1. \A i \in DOMAIN downlink : downlink[i].ack \in Seqs \cup {NONE}
        BY DEF PInv, PredictionTypeOK
      <4>2. NONE \in Int /\ \A q \in Seqs : q \in Int
        BY OneSeat DEF NONE
      <4>3. \A i \in DOMAIN downlink : downlink[i].ack \in Int
        BY <4>1, <4>2, Zenon
      <4> QED
        BY <2>2, <4>3 DEF PInv, DownlinkInv
    <3>2. anchor # NoView => anchor.ack \in Int /\ anchor.ack \in Seqs \cup {NONE} /\ anchor.ack <= seats[0].applied_seq
      <4>2. NONE \in Int /\ \A q \in Seqs : q \in Int
        BY OneSeat DEF NONE
      <4>3. anchor # NoView => anchor.ack \in Seqs \cup {NONE} /\ anchor.ack <= seats[0].applied_seq
        BY DEF PInv, DownlinkInv
      <4> QED
        BY <4>2, <4>3, Zenon
    <3>a. PICK a \in Int : a = seats[0].applied_seq
      BY <2>3
    <3>b. PICK b \in Int : b = frames'[0] /\ a <= b
      BY <2>5, <3>a
    <3>c. seats'[0].applied_seq = b /\ view.ack = b
      BY <2>5, <2>6, <3>b
    <3>d. \A i \in DOMAIN downlink : downlink[i].ack <= b
      BY <3>1, <3>a, <3>b
    <3>e. anchor # NoView => anchor.ack <= b
      BY <3>2, <3>a, <3>b
    <3>3. \A i \in DOMAIN downlink' : /\ downlink'[i].ack <= seats'[0].applied_seq
                                      /\ anchor # NoView => anchor.ack <= downlink'[i].ack
      <4> SUFFICES ASSUME NEW i \in DOMAIN downlink'
                   PROVE  downlink'[i].ack <= b /\ (anchor # NoView => anchor.ack <= downlink'[i].ack)
        BY <3>c
      <4>1. CASE i = Len(downlink) + 1
        BY <2>8, <3>c, <3>e, <4>1
      <4>2. CASE i \in DOMAIN downlink
        BY <2>8, <3>d, <4>2 DEF PInv, DownlinkInv
      <4> QED
        BY <2>8, <4>1, <4>2
    <3>4. \A i, j \in DOMAIN downlink' : i <= j => downlink'[i].ack <= downlink'[j].ack
      <4> SUFFICES ASSUME NEW i \in DOMAIN downlink', NEW j \in DOMAIN downlink', i <= j
                   PROVE  downlink'[i].ack <= downlink'[j].ack
        OBVIOUS
      <4>1. CASE j = Len(downlink) + 1
        <5>1. downlink'[j].ack = b
          BY <2>8, <3>c, <4>1
        <5>2. CASE i = j
          BY <5>1, <5>2
        <5>3. CASE i # j
          <6>1. i \in DOMAIN downlink
            BY <2>8, <4>1, <5>3
          <6> QED
            BY <2>8, <3>d, <5>1, <6>1
        <5> QED
          BY <5>2, <5>3
      <4>2. CASE j \in DOMAIN downlink
        <5>1. i \in DOMAIN downlink
          BY <2>8, <4>2
        <5> QED
          BY <2>8, <4>2, <5>1 DEF PInv, DownlinkInv
      <4> QED
        BY <2>8, <4>1, <4>2
    <3>5. anchor # NoView => anchor.ack <= seats'[0].applied_seq
      BY <3>c, <3>e
    <3> QED
      BY <1>1, <2>5, <3>2, <3>3, <3>4, <3>5 DEF DownlinkInv
  <2> QED
    BY <1>1, <2>9, <2>10, <2>11
<1> QED
  BY <1>2, <1>3 DEF ServerTick, Tick

(* The acknowledged prefix of an outstanding run of numbers.               *)
LEMMA AcknowledgedIs ==
  ASSUME NEW ack \in Int, NEW base \in Int, base - 1 <= ack, ack < base + Len(outstanding),
         outstanding \in Seq(Nat), \A i \in DOMAIN outstanding : outstanding[i] = base + i - 1
  PROVE  AcknowledgedBy(ack) = ack + 1 - base /\ AcknowledgedBy(ack) \in 0..Len(outstanding)
<1> DEFINE P(n) == /\ \A i \in 1..n : outstanding[i] <= ack
                   /\ n < Len(outstanding) => outstanding[n + 1] > ack
<1>1. Len(outstanding) \in Nat /\ DOMAIN outstanding = 1..Len(outstanding)
  OBVIOUS
<1>2. ack + 1 - base \in 0..Len(outstanding) /\ P(ack + 1 - base)
  <2>1. PICK l \in Nat : l = Len(outstanding)
    BY <1>1
  <2>2. PICK n \in 0..l : n = ack + 1 - base
    BY <2>1
  <2>3. \A i \in 1..n : outstanding[i] <= ack
    BY <1>1, <2>1, <2>2
  <2>4. n < l => outstanding[n + 1] > ack
    BY <1>1, <2>1, <2>2, SMTT(30)
  <2> QED
    BY <2>1, <2>2, <2>3, <2>4
<1>3. ASSUME NEW n \in 0..Len(outstanding), P(n) PROVE n = ack + 1 - base
  <2>1. CASE n < ack + 1 - base
    BY <1>1, <1>3, <2>1, SMTT(30)
  <2>2. CASE n > ack + 1 - base
    <3>1. n \in 1..n /\ n \in DOMAIN outstanding
      BY <1>1, <1>2, <2>2
    <3> QED
      BY <1>3, <2>2, <3>1
  <2> QED
    BY <1>1, <2>1, <2>2
<1>4. AcknowledgedBy(ack) = CHOOSE n \in 0..Len(outstanding) : P(n)
  BY DEF AcknowledgedBy
<1> HIDE DEF P
<1> QED
  BY <1>2, <1>3, <1>4

(* What the client observes: an acknowledgement of something said, and of  *)
(* what it has outstanding the numbers up to it.                           *)
LEMMA ObservedIs ==
  ASSUME PInv, NEW k \in DOMAIN downlink
  PROVE  /\ ~ NotYetReady /\ seats[0] # Vacant
         /\ downlink[k].tick \in Nat \ {0} /\ downlink[k].ack \in Seqs \cup {NONE}
         /\ downlink[k].ack \in Int /\ downlink[k].ack + 1 \in Nat
         /\ downlink[k].ack <= seats[0].applied_seq /\ downlink[k].ack < Len(said)
         /\ \E base \in Nat :
              /\ base = Len(said) - Len(outstanding)
              /\ AcknowledgedBy(downlink[k].ack) = downlink[k].ack + 1 - base
              /\ AcknowledgedBy(downlink[k].ack) \in 0..Len(outstanding)
              /\ \A i \in DOMAIN outstanding : outstanding[i] = base + i - 1
              /\ base = IF anchor = NoView THEN 0 ELSE anchor.ack + 1
<1> DEFINE view == downlink[k]
           n    == AcknowledgedBy(view.ack)
<1>1. ~ NotYetReady
  BY DEF NotYetReady
<1>2. /\ seats[0] # Vacant
      /\ outstanding \in Seq(Nat) /\ Len(said) \in Nat /\ Len(outstanding) \in Nat
  BY <1>1 DEF PInv, UplinkInv, PredictionTypeOK
<1>3. \A q \in Seqs \cup {NONE} : q \in Int /\ q >= -1 /\ q + 1 \in Nat
  BY OneSeat DEF NONE
<1>4. /\ view.tick \in Nat \ {0} /\ view.ack \in Seqs \cup {NONE} /\ view.ack \in Int /\ view.ack >= -1
      /\ view.ack + 1 \in Nat
      /\ view.ack <= seats[0].applied_seq
      /\ anchor # NoView => anchor.ack <= view.ack
  <2>1. view.tick \in Nat \ {0} /\ view.ack \in Seqs \cup {NONE}
    BY DEF PInv, PredictionTypeOK
  <2> QED
    BY <1>2, <1>3, <2>1 DEF PInv, DownlinkInv
<1>5. view.ack < Len(said)
  <2>1. CASE view.ack \in Nat
    BY <1>2, <1>4, <2>1, Settles
  <2> QED
    BY <1>2, <1>4, <2>1
<1>6. PICK base \in Nat :
        /\ base = Len(said) - Len(outstanding) /\ base - 1 <= view.ack
        /\ \A i \in DOMAIN outstanding : outstanding[i] = base + i - 1
        /\ base = IF anchor = NoView THEN 0 ELSE anchor.ack + 1
  <2>1. \A i \in DOMAIN outstanding : outstanding[i] = Len(said) - Len(outstanding) + i - 1
    BY DEF PInv, OutstandingInv
  <2>2. CASE anchor = NoView
    <3>1. Len(said) = 0 /\ Len(outstanding) = 0
      BY <2>2 DEF PInv, OutstandingInv
    <3> QED
      BY <1>4, <2>1, <2>2, <3>1
  <2>3. CASE anchor # NoView
    <3>1. Len(said) - Len(outstanding) = anchor.ack + 1 /\ anchor.ack \in Seqs \cup {NONE}
      BY <2>3 DEF PInv, OutstandingInv, DownlinkInv
    <3>2. anchor.ack \in Int /\ anchor.ack >= -1 /\ anchor.ack + 1 \in Nat
      BY <1>3, <3>1
    <3> QED
      BY <1>4, <2>1, <2>3, <3>1, <3>2
  <2> QED
    BY <2>2, <2>3
<1>7. n = view.ack + 1 - base /\ n \in 0..Len(outstanding)
  <2>1. PICK a \in Int : a = view.ack
    BY <1>4
  <2>2. a < base + Len(outstanding) /\ base - 1 <= a
    BY <1>2, <1>5, <1>6, <2>1
  <2>3. /\ a \in Int /\ base \in Int /\ outstanding \in Seq(Nat)
        /\ \A i \in DOMAIN outstanding : outstanding[i] = base + i - 1
    BY <1>2, <1>6, <2>1
  <2>4. AcknowledgedBy(a) = a + 1 - base /\ AcknowledgedBy(a) \in 0..Len(outstanding)
    BY <2>2, <2>3, AcknowledgedIs
  <2> QED
    BY <2>1, <2>4
<1> QED
  BY <1>1, <1>2, <1>4, <1>5, <1>6, <1>7

LEMMA AdvanceKeeps ==
  ASSUME PInv, Advance
  PROVE  PredictionTypeOK' /\ UplinkInv' /\ DownlinkInv' /\ OutstandingInv'
<1>1. PICK k \in DOMAIN downlink : Observe(downlink[k]) /\ downlink' = SubSeq(downlink, k + 1, Len(downlink))
  BY DEF Advance
<1>2. PICK intention \in Intentions : Intend(intention)
  BY DEF Advance
<1>3. /\ UNCHANGED vars /\ Len(said) <= MaxSeq
      /\ UNCHANGED <<seats, started, accepted, refusals>>
  BY DEF Advance, vars
<1> DEFINE view == downlink[k]
           n    == AcknowledgedBy(view.ack)
<1>4. /\ said' = Append(said, intention)
      /\ uplink' = Append(uplink, [kind |-> "Input", seq |-> Len(said)])
      /\ outstanding' = Append(SubSeq(outstanding, n + 1, Len(outstanding)), Len(said))
      /\ anchor' = view
  BY <1>1, <1>2 DEF Observe, Intend
<1>5. PICK views : downlink \in Seq(views)
  BY DEF PInv, PredictionTypeOK
<1>6. /\ Len(downlink) \in Nat /\ DOMAIN downlink = 1..Len(downlink) /\ k \in 1..Len(downlink)
      /\ downlink' \in Seq(views) /\ Len(downlink') = Len(downlink) - k
      /\ DOMAIN downlink' = 1..(Len(downlink) - k)
      /\ \A i \in DOMAIN downlink' : i + k \in DOMAIN downlink /\ downlink'[i] = downlink[i + k]
  BY <1>1, <1>5, SMTT(30)
<1>7. /\ \A i \in DOMAIN downlink : downlink[i].tick \in Nat \ {0} /\ downlink[i].ack \in Seqs \cup {NONE}
      /\ outstanding \in Seq(Nat) /\ said \in Seq(Intentions) /\ uplink \in Seq(ClientMessage)
      /\ Len(said) \in Nat /\ Len(uplink) \in Nat /\ Len(outstanding) \in Nat
  BY DEF PInv, PredictionTypeOK
<1>8. ~ NotYetReady
  BY <1>6 DEF NotYetReady
<1>9. /\ seats[0] # Vacant
      /\ Len(uplink) <= Len(said)
      /\ \A i \in DOMAIN uplink : uplink[i] = [kind |-> "Input", seq |-> Heard + i - 1]
      /\ seats[0].highest_seq < Heard
      /\ \A q \in 0..Heard - 1 : q \in accepted[0] \cup refusals[0]
  BY <1>8 DEF PInv, UplinkInv
<1>10. PICK base \in Nat :
         /\ view.tick \in Nat \ {0} /\ view.ack \in Seqs \cup {NONE} /\ view.ack \in Int
         /\ view.ack <= seats[0].applied_seq /\ view.ack < Len(said)
         /\ base = Len(said) - Len(outstanding)
         /\ n = view.ack + 1 - base /\ n \in 0..Len(outstanding)
         /\ \A i \in DOMAIN outstanding : outstanding[i] = base + i - 1
  BY ObservedIs
<1> HIDE DEF n, view
<1>a. PICK ack \in Int : ack = view.ack
  BY <1>10
<1>b. PICK l \in Nat, s \in Nat, u \in Nat, d \in Nat :
        l = Len(outstanding) /\ s = Len(said) /\ u = Len(uplink) /\ d = n
  BY <1>7, <1>10
<1>c. d = ack + 1 - base /\ d <= l /\ base = s - l
  BY <1>10, <1>a, <1>b
<1>14. /\ Len(said') = s + 1 /\ said' \in Seq(Intentions)
       /\ outstanding' \in Seq(Nat) /\ Len(outstanding') = l - d + 1
       /\ \A i \in DOMAIN outstanding' : outstanding'[i] = ack + 1 + i - 1
  <2> DEFINE kept == SubSeq(outstanding, d + 1, l)
  <2>1. /\ kept \in Seq(Nat) /\ Len(kept) = l - d
        /\ \A i \in 1..(l - d) : kept[i] = outstanding[i + d] /\ i + d \in DOMAIN outstanding
    <3>1. outstanding \in Seq(Nat) /\ d + 1 \in 1..(l + 1) /\ l \in 0..Len(outstanding)
      BY <1>7, <1>b, <1>c
    <3>2. kept \in Seq(Nat) /\ Len(kept) = l - d
      BY <3>1, <1>b, <1>c, SMTT(30)
    <3>3. ASSUME NEW i \in 1..(l - d) PROVE kept[i] = outstanding[i + d] /\ i + d \in DOMAIN outstanding
      <4>1. i + d \in 1..l /\ (d + 1) + i - 1 = i + d
        BY <1>c
      <4> QED
        BY <1>b, <1>c, <3>1, <4>1
    <3> QED
      BY <3>2, <3>3
  <2>2. outstanding' = Append(kept, s)
    BY <1>4, <1>b
  <2> HIDE DEF kept
  <2>3. /\ outstanding' \in Seq(Nat) /\ Len(outstanding') = l - d + 1
        /\ DOMAIN outstanding' = 1..(l - d + 1)
        /\ \A i \in 1..(l - d) : outstanding'[i] = kept[i]
        /\ outstanding'[l - d + 1] = s
    BY <1>b, <1>c, <2>1, <2>2
  <2>4. \A i \in 1..(l - d) : outstanding'[i] = ack + 1 + i - 1
    <3> SUFFICES ASSUME NEW i \in 1..(l - d) PROVE outstanding'[i] = ack + 1 + i - 1
      OBVIOUS
    <3>1. outstanding'[i] = outstanding[i + d] /\ i + d \in DOMAIN outstanding
      BY <2>1, <2>3
    <3>2. outstanding[i + d] = base + (i + d) - 1
      BY <1>10, <3>1
    <3> QED
      BY <1>c, <3>1, <3>2
  <2>5. s = ack + 1 + (l - d + 1) - 1
    BY <1>c
  <2>6. \A i \in DOMAIN outstanding' : outstanding'[i] = ack + 1 + i - 1
    <3> SUFFICES ASSUME NEW i \in 1..(l - d + 1) PROVE outstanding'[i] = ack + 1 + i - 1
      BY <2>3
    <3>1. i \in 1..(l - d) \/ i = l - d + 1
      BY <1>c
    <3> QED
      BY <2>3, <2>4, <2>5, <3>1
  <2>7. Len(said') = s + 1 /\ said' \in Seq(Intentions)
    BY <1>4, <1>7, <1>b
  <2> QED
    BY <2>3, <2>6, <2>7
<1>15. anchor' # NoView
  BY <1>4, <1>10 DEF NoView
<1>16. OutstandingInv'
  <2>1. Len(said') - Len(outstanding') = ack + 1
    BY <1>c, <1>14
  <2> QED
    BY <1>4, <1>14, <1>15, <1>a, <2>1 DEF OutstandingInv
<1>17. /\ uplink' \in Seq(ClientMessage) /\ Len(uplink') = u + 1
       /\ DOMAIN uplink' = 1..(u + 1)
       /\ \A i \in 1..u : uplink'[i] = uplink[i] /\ i \in DOMAIN uplink
       /\ uplink'[u + 1] = [kind |-> "Input", seq |-> s]
  <2>1. Len(said) \in Seqs
    BY <1>3, <1>7, OneSeat DEF Seqs
  <2>2. [kind |-> "Input", seq |-> Len(said)] \in ClientMessage
    BY <2>1 DEF ClientMessage
  <2> QED
    BY <1>4, <1>7, <1>b, <2>2
<1>18. PredictionTypeOK'
  <2>1. \A i \in DOMAIN downlink' : downlink'[i].tick \in Nat \ {0} /\ downlink'[i].ack \in Seqs \cup {NONE}
    BY <1>6, <1>7
  <2> QED
    BY <1>3, <1>6, <1>14, <1>17, <1>b, <2>1, OneSeat DEF PredictionTypeOK
<1>19. UplinkInv'
  <2>1. Heard' = Heard /\ Heard = s - u
    BY <1>14, <1>17, <1>b DEF Heard
  <2>2. Heard + (u + 1) - 1 = s
    BY <2>1
  <2>3. \A i \in DOMAIN uplink' : uplink'[i] = [kind |-> "Input", seq |-> Heard' + i - 1]
    <3> SUFFICES ASSUME NEW i \in 1..(u + 1) PROVE uplink'[i] = [kind |-> "Input", seq |-> Heard + i - 1]
      BY <1>17, <2>1
    <3>1. CASE i \in 1..u
      BY <1>9, <1>17, <3>1
    <3>2. CASE i = u + 1
      BY <1>17, <2>2, <3>2
    <3> QED
      BY <3>1, <3>2
  <2>4. Len(uplink') <= Len(said')
    BY <1>9, <1>14, <1>17, <1>b
  <2> QED
    BY <1>3, <1>9, <2>1, <2>3, <2>4 DEF UplinkInv
<1>20. DownlinkInv'
  <2>1. \A i \in DOMAIN downlink' :
          /\ downlink'[i].ack <= seats'[0].applied_seq
          /\ anchor'.ack <= downlink'[i].ack
          /\ \A j \in DOMAIN downlink' : i <= j => downlink'[i].ack <= downlink'[j].ack
    <3> SUFFICES ASSUME NEW i \in DOMAIN downlink'
                 PROVE  /\ downlink'[i].ack <= seats'[0].applied_seq
                        /\ anchor'.ack <= downlink'[i].ack
                        /\ \A j \in DOMAIN downlink' : i <= j => downlink'[i].ack <= downlink'[j].ack
      OBVIOUS
    <3>1. i \in Nat /\ k \in Nat /\ k <= i + k /\ \A j \in DOMAIN downlink' : j \in Nat /\ (i <= j => i + k <= j + k)
      BY <1>6
    <3> QED
      BY <1>3, <1>4, <1>6, <1>9, <3>1 DEF PInv, DownlinkInv, view
  <2> QED
    BY <1>3, <1>4, <1>9, <1>10, <2>1 DEF DownlinkInv
<1> QED
  BY <1>16, <1>18, <1>19, <1>20

LEMMA PredictionHolds == PredictionSpec => []PInv
<1>1. PInv /\ PredictionNext => PInv'
  <2> SUFFICES ASSUME PInv, PredictionNext PROVE PInv'
    OBVIOUS
  <2>1. TypeOK' /\ IInv'
    BY AuthoritySteps
  <2> QED
    BY <2>1, SitDownKeeps, ServerReadsKeeps, ServerTickKeeps, AdvanceKeeps DEF PredictionNext, PInv
<1>2. PInv /\ UNCHANGED allVars => PInv'
  <2> SUFFICES ASSUME PInv, UNCHANGED allVars PROVE PInv'
    OBVIOUS
  <2>1. UNCHANGED vars /\ UNCHANGED <<seats, started, accepted, refusals, uplink, downlink, said, outstanding, anchor>>
    BY DEF allVars, clientVars, predictionVars, vars
  <2>2. TypeOK' /\ IInv'
    BY <2>1, NextType, NextInv DEF PInv
  <2>3. PredictionTypeOK' /\ OutstandingInv'
    BY <2>1 DEF PInv, PredictionTypeOK, OutstandingInv
  <2>4. UplinkInv' /\ DownlinkInv'
    BY <2>1 DEF PInv, UplinkInv, NotYetReady, Heard, DownlinkInv
  <2> QED
    BY <2>2, <2>3, <2>4 DEF PInv
<1> QED
  BY <1>1, <1>2, AtFirst, PTL DEF PredictionSpec

(* For any rate, any map and any intentions, whatever views are missed: an *)
(* intention the client has stopped predicting was applied or refused by   *)
(* the server, the ones it still predicts are all the others, in order,    *)
(* and where the two meet is what its anchor acknowledges (predict.rs,     *)
(* observe() and acknowledged_by(); lib.rs, deliver() and tick()).         *)
THEOREM ForgetsNothing == PredictionSpec => []NothingForgotten
<1>1. PInv => NothingForgotten
  <2> SUFFICES ASSUME PInv PROVE NothingForgotten
    OBVIOUS
  <2> DEFINE settled == 0..Len(said) - Len(outstanding) - 1
  <2>1. Len(said) \in Nat /\ Len(outstanding) \in Nat
    BY DEF PInv, PredictionTypeOK
  <2>2. \A i \in DOMAIN outstanding : outstanding[i] = Len(said) - Len(outstanding) + i - 1
    BY DEF PInv, OutstandingInv
  <2>3. CASE anchor = NoView
    <3>1. Len(said) = 0 /\ Len(outstanding) = 0
      BY <2>3 DEF PInv, OutstandingInv
    <3> QED
      BY <2>2, <2>3, <3>1 DEF NothingForgotten
  <2>4. CASE anchor # NoView
    <3>1. PICK ack \in Int : ack = anchor.ack /\ ack <= seats[0].applied_seq
      <4>1. anchor.ack \in Seqs \cup {NONE} /\ anchor.ack <= seats[0].applied_seq
        BY <2>4 DEF PInv, DownlinkInv
      <4>2. \A q \in Seqs \cup {NONE} : q \in Int
        BY OneSeat DEF NONE
      <4> QED
        BY <4>1, <4>2
    <3>2. seats[0] # Vacant /\ seats[0].applied_seq \in Int
      BY <2>4, SeatIs DEF PInv, DownlinkInv
    <3>3. Len(said) - Len(outstanding) = ack + 1
      BY <2>4, <3>1 DEF PInv, OutstandingInv
    <3>4. settled = 0..ack
      BY <2>1, <3>1, <3>3
    <3>5. \A q \in 0..ack : q \in Logged(0) \cup refusals[0] /\ q < Len(said)
      BY <3>1, <3>2, Settles
    <3>6. settled = {q \in 0..Len(said) - 1 : anchor # NoView /\ q <= anchor.ack}
      BY <2>1, <2>4, <3>1, <3>4, <3>5
    <3> QED
      BY <2>2, <3>4, <3>5, <3>6 DEF NothingForgotten
  <2> QED
    BY <2>3, <2>4
<1> QED
  BY <1>1, PredictionHolds, PTL

-----------------------------------------------------------------------------
(* How far the client's belief follows the server's champion.              *)
Map      == -Half..Half
AnyOrder == {Idle, Attack, Unknown} \cup {MoveTo(p) : p \in Map}
Champion == [at : Map, order : AnyOrder, alive : BOOLEAN]
View     == [tick : Nat, at : Map, alive : BOOLEAN, ack : Seqs \cup {NONE}, order : AnyOrder]
Standing == [at : Map, order : AnyOrder]

(* What whoever heard the first n intentions believes the order to be.     *)
Believed(heard, n) == FoldLeft(After, Idle, [i \in 1..n |-> heard[i]])

Shadows(at, order, belief) == belief = Unknown \/ Settle(at, belief) = order

Clean == refusals[0] = {} /\ ~fell

(* The champion has the types declared for it, and has not moved before    *)
(* the match began.                                                        *)
ChampionInv ==
  /\ champion \in Champion /\ fell \in BOOLEAN
  /\ ~fell => champion.alive
  /\ ~started => champion = Respawned

(* If none was refused, the queue holds all that was heard and not applied.*)
QueueRuns ==
  seats[0] # Vacant /\ refusals[0] = {} =>
    /\ seats[0].applied_seq + Len(seats[0].pending) = seats[0].highest_seq
    /\ \A i \in DOMAIN seats[0].pending : seats[0].pending[i] = seats[0].applied_seq + i
    /\ ~NotYetReady => seats[0].highest_seq = Heard - 1

ServerShadow ==
  seats[0] # Vacant /\ Clean =>
    Shadows(champion.at, champion.order, Believed(said, seats[0].applied_seq + 1))

(* Every view the client may still compare: the anchor, and those on their *)
(* way to it.                                                              *)
Shown == {downlink[i] : i \in DOMAIN downlink} \cup (IF anchor = NoView THEN {} ELSE {anchor})

(* What the tick after a view makes of it, if it applies one intention.    *)
Follows(heard, v, w) ==
  w.tick = v.tick + 1 /\ v.alive /\ w.alive /\ w.ack = v.ack + 1 =>
    w.at = Moved([at |-> v.at, order |-> Ordered(v.order, heard[w.ack + 1]), alive |-> TRUE]).at

ShownInv ==
  \A v \in Shown :
    /\ v \in View /\ v.tick <= ticks_run
    /\ v.tick = ticks_run =>
         v.at = champion.at /\ v.order = champion.order /\ v.alive = champion.alive
           /\ v.ack = seats[0].applied_seq
    /\ Clean => Shadows(v.at, v.order, Believed(said, v.ack + 1))
    /\ \A w \in Shown : Follows(said, v, w)

AnchorInv == anchor_order = IF anchor = NoView THEN Idle ELSE Believed(said, anchor.ack + 1)

(* What was drawn is what the outstanding intentions make of the anchor.   *)
Drawn ==
  IF ~anchor.alive THEN anchor.at
  ELSE FoldLeft(Walked, [at |-> anchor.at, order |-> anchor_order],
                [i \in DOMAIN outstanding |-> said[outstanding[i] + 1]]).at

DrawnInv ==
  IF anchor = NoView THEN rendered = Nowhere /\ last = Nothing
  ELSE /\ rendered = [kind |-> "drawn", at |-> Drawn]
       /\ rendered_from = Len(outstanding)

(* Inductive together with PInv.                                           *)
SInv ==
  /\ ChampionInv /\ QueueRuns /\ ServerShadow /\ ShownInv /\ AnchorInv /\ DrawnInv /\ ExactInStep

(* A belief is never an attack: the client cannot tell what that does.     *)
AnyBelief == {Idle, Unknown} \cup {MoveTo(p) : p \in Map}

(* Within a tick: an order that has arrived may not have been noticed yet. *)
Near(at, order, belief) == belief = Unknown \/ Settle(at, order) = Settle(at, belief)

(* The three folds: what the server obeys, what the client believes, and   *)
(* where it draws itself.                                                  *)
Orderings == INSTANCE FoldLemmas WITH Op <- Ordered, V <- AnyOrder, E <- Intentions
Beliefs   == INSTANCE FoldLemmas WITH Op <- After, V <- AnyBelief, E <- Intentions
Walks     == INSTANCE FoldLemmas WITH Op <- Walked, V <- Standing, E <- Intentions

LEMMA Clamped ==
  ASSUME NEW p \in Int
  PROVE  Clamp(p) \in Map /\ (p \in Map => Clamp(p) = p)
BY PredictionConstants DEF Clamp, Map

LEMMA Steps ==
  ASSUME NEW p \in Map, NEW q \in Map
  PROVE  StepToward(p, q) \in Map /\ (p = q => StepToward(p, q) = p)
<1>1. p \in Int /\ q \in Int
  BY PredictionConstants DEF Map
<1>2. Distance(p, p) = 0
  BY <1>1 DEF Distance
<1>3. CASE p = q
  BY <1>1, <1>2, <1>3, Clamped DEF StepToward
<1>4. CASE p # q
  <2>1. (IF Distance(p, q) <= 1 THEN q ELSE IF p < q THEN p + 1 ELSE p - 1) \in Int
    BY <1>1
  <2> QED
    BY <1>4, <2>1, Clamped DEF StepToward
<1> QED
  BY <1>3, <1>4

LEMMA IntentionIs ==
  ASSUME NEW x \in Intentions
  PROVE  \/ x.kind \in {"Idle", "Cast", "Attack"}
         \/ x.kind = "Move" /\ x.to \in Int /\ Clamp(x.to) \in Map
<1>1. \/ x \in [kind : {"Idle", "Cast", "Attack"}]
      \/ x \in [kind : {"Move"}, to : Points]
  BY DEF Intentions
<1>2. \A p \in Points : p \in Int
  BY PredictionConstants
<1> QED
  BY <1>1, <1>2, Clamped

LEMMA OrdersStay ==
  /\ \A o \in AnyOrder, x \in Intentions : Ordered(o, x) \in AnyOrder
  /\ \A o \in AnyBelief, x \in Intentions : After(o, x) \in AnyBelief
  /\ Idle \in AnyBelief /\ Idle \in AnyOrder /\ AnyBelief \subseteq AnyOrder
<1>1. ASSUME NEW o \in AnyOrder, NEW x \in Intentions PROVE Ordered(o, x) \in AnyOrder
  BY IntentionIs DEF Ordered, AnyOrder
<1>2. ASSUME NEW o \in AnyBelief, NEW x \in Intentions PROVE After(o, x) \in AnyBelief
  BY IntentionIs DEF After, AnyBelief
<1> QED
  BY <1>1, <1>2 DEF AnyBelief, AnyOrder

(* What was heard last is believed last.                                   *)
LEMMA BelievedGrows ==
  ASSUME NEW heard \in Seq(Intentions)
  PROVE  /\ Believed(heard, 0) = Idle
         /\ \A n \in 0..Len(heard) : Believed(heard, n) \in AnyBelief
         /\ \A n \in 0..(Len(heard) - 1) : Believed(heard, n + 1) = After(Believed(heard, n), heard[n + 1])
<1> DEFINE first(n) == [i \in 1..n |-> heard[i]]
<1>1. /\ Len(heard) \in Nat /\ \A i \in 1..Len(heard) : heard[i] \in Intentions
      /\ \A v \in AnyBelief, f \in Intentions : After(v, f) \in AnyBelief
      /\ Idle \in AnyBelief
  BY OrdersStay
<1>2. ASSUME NEW n \in 0..Len(heard)
      PROVE  first(n) \in Seq(Intentions) /\ Len(first(n)) = n
  <2>1. first(n) \in [1..n -> Intentions] /\ n \in Nat
    BY <1>1
  <2> QED
    BY <2>1, SeqDef
<1>3. \A n : Believed(heard, n) = Beliefs!Folded(Idle, first(n))
  BY DEF Believed, FoldLeft, MapThenFoldSet, Max, Beliefs!Folded, Beliefs!Greatest
<1>4. Believed(heard, 0) = Idle
  <2>1. first(0) = <<>>
    OBVIOUS
  <2> QED
    BY <1>1, <1>3, <2>1, Beliefs!FoldOfNothing
<1>5. ASSUME NEW n \in 0..(Len(heard) - 1)
      PROVE  Believed(heard, n) \in AnyBelief /\ Believed(heard, n + 1) = After(Believed(heard, n), heard[n + 1])
  <2>1. n \in 0..Len(heard) /\ n + 1 \in 1..Len(heard)
    BY <1>1
  <2>2. first(n + 1) = Append(first(n), heard[n + 1])
    BY <1>2, <2>1
  <2>3. first(n) \in Seq(Intentions) /\ heard[n + 1] \in Intentions
    BY <1>1, <1>2, <2>1
  <2> HIDE DEF first
  <2>4. /\ Beliefs!Folded(Idle, first(n)) \in AnyBelief
        /\ Beliefs!Folded(Idle, Append(first(n), heard[n + 1])) = After(Beliefs!Folded(Idle, first(n)), heard[n + 1])
    BY <1>1, <2>3, Beliefs!FoldAppends
  <2> QED
    BY <1>3, <2>2, <2>4
<1>6. ASSUME NEW n \in 0..Len(heard) PROVE Believed(heard, n) \in AnyBelief
  <2>1. CASE n = 0
    BY <1>1, <1>4, <2>1
  <2>2. CASE n # 0
    <3>1. n - 1 \in 0..(Len(heard) - 1) /\ n - 1 + 1 = n /\ n \in 1..Len(heard)
      BY <1>1, <2>2
    <3>2. Believed(heard, n - 1 + 1) = After(Believed(heard, n - 1), heard[n - 1 + 1]) /\ Believed(heard, n - 1) \in AnyBelief
      BY <1>5, <3>1, Zenon
    <3> QED
      BY <1>1, <3>1, <3>2
  <2> QED
    BY <2>1, <2>2
<1> QED
  BY <1>4, <1>5, <1>6

(* Whoever folds the next intentions onto what it believes is up to date.  *)
LEMMA BelievedOn ==
  ASSUME NEW heard \in Seq(Intentions), NEW m \in Nat, NEW s \in Seq(Intentions), m + Len(s) <= Len(heard),
         \A i \in 1..Len(s) : s[i] = heard[m + i]
  PROVE  FoldLeft(After, Believed(heard, m), s) = Believed(heard, m + Len(s))
<1>1. /\ Len(heard) \in Nat /\ Len(s) \in Nat /\ m \in 0..Len(heard)
      /\ \A v \in AnyBelief, f \in Intentions : After(v, f) \in AnyBelief
  BY OrdersStay
<1>2. /\ \A n \in 0..Len(heard) : Believed(heard, n) \in AnyBelief
      /\ \A n \in 0..(Len(heard) - 1) : Believed(heard, n + 1) = After(Believed(heard, n), heard[n + 1])
  BY BelievedGrows
<1> DEFINE b == Believed(heard, m)
<1>3. b \in AnyBelief
  BY <1>1, <1>2
<1>4. FoldLeft(After, b, s) = Beliefs!Folded(b, s)
  BY DEF FoldLeft, MapThenFoldSet, Max, Beliefs!Folded, Beliefs!Greatest
<1> HIDE DEF b
<1>5. PICK run \in [0..Len(s) -> AnyBelief] :
        /\ run[0] = b
        /\ \A i \in 1..Len(s) : run[i] = After(run[i - 1], s[i])
        /\ Beliefs!Folded(b, s) = run[Len(s)]
  BY <1>1, <1>3, Beliefs!FoldRuns
<1> DEFINE A == {i \in 0..Len(s) : run[i] = Believed(heard, m + i)}
<1>6. 0 \in A
  BY <1>1, <1>5 DEF b
<1>7. ASSUME NEW i \in 0..(Len(s) - 1), i \in A PROVE i + 1 \in A
  <2>1. i + 1 \in 1..Len(s) /\ i + 1 - 1 = i /\ m + (i + 1) = (m + i) + 1 /\ m + i \in 0..(Len(heard) - 1)
    BY <1>1
  <2>2. run[i + 1] = After(run[i], heard[m + (i + 1)])
    BY <1>5, <2>1
  <2>3. run[i] = Believed(heard, m + i)
    BY <1>7
  <2>4. Believed(heard, (m + i) + 1) = After(Believed(heard, m + i), heard[(m + i) + 1])
    BY <1>2, <2>1
  <2> QED
    BY <1>1, <2>1, <2>2, <2>3, <2>4
<1> HIDE DEF A
<1>8. \A i \in 0..Len(s) : i \in A
  BY <1>1, <1>6, <1>7, Beliefs!CountingUp
<1>9. run[Len(s)] = Believed(heard, m + Len(s))
  BY <1>1, <1>8 DEF A
<1> QED
  BY <1>4, <1>5, <1>9 DEF b

(* The server obeys the same intentions within a tick.                     *)
LEMMA ObeyedAlike ==
  ASSUME NEW heard \in Seq(Intentions), NEW m \in Nat, NEW s \in Seq(Intentions), m + Len(s) <= Len(heard),
         \A i \in 1..Len(s) : s[i] = heard[m + i],
         NEW at \in Map, NEW order \in AnyOrder, Near(at, order, Believed(heard, m))
  PROVE  Near(at, FoldLeft(Ordered, order, s), Believed(heard, m + Len(s)))
<1>1. /\ Len(heard) \in Nat /\ Len(s) \in Nat /\ m \in 0..Len(heard)
      /\ \A v \in AnyOrder, f \in Intentions : Ordered(v, f) \in AnyOrder
      /\ \A i \in 1..Len(s) : s[i] \in Intentions
  BY OrdersStay
<1>2. /\ \A n \in 0..Len(heard) : Believed(heard, n) \in AnyBelief
      /\ \A n \in 0..(Len(heard) - 1) : Believed(heard, n + 1) = After(Believed(heard, n), heard[n + 1])
  BY BelievedGrows
<1>4. FoldLeft(Ordered, order, s) = Orderings!Folded(order, s)
  BY DEF FoldLeft, MapThenFoldSet, Max, Orderings!Folded, Orderings!Greatest
<1>5. PICK run \in [0..Len(s) -> AnyOrder] :
        /\ run[0] = order
        /\ \A i \in 1..Len(s) : run[i] = Ordered(run[i - 1], s[i])
        /\ Orderings!Folded(order, s) = run[Len(s)]
  BY <1>1, Orderings!FoldRuns
<1> DEFINE A == {i \in 0..Len(s) : Near(at, run[i], Believed(heard, m + i))}
<1>6. 0 \in A
  BY <1>1, <1>5
<1>7. ASSUME NEW i \in 0..(Len(s) - 1), i \in A PROVE i + 1 \in A
  <2>1. i + 1 \in 1..Len(s) /\ i + 1 - 1 = i /\ m + (i + 1) = (m + i) + 1 /\ m + i \in 0..(Len(heard) - 1)
    BY <1>1
  <2>2. run[i + 1] = Ordered(run[i], s[i + 1]) /\ s[i + 1] \in Intentions /\ s[i + 1] = heard[m + (i + 1)]
    BY <1>1, <1>5, <2>1
  <2>3. Near(at, run[i], Believed(heard, m + i))
    BY <1>7
  <2>4. Believed(heard, (m + i) + 1) = After(Believed(heard, m + i), heard[(m + i) + 1])
    BY <1>2, <2>1
  <2> DEFINE o == run[i]
             b == Believed(heard, m + i)
             x == s[i + 1]
  <2>5. x \in Intentions /\ Near(at, o, b)
    BY <2>2, <2>3
  <2> HIDE DEF o, b, x
  <2>6. Near(at, Ordered(o, x), After(b, x))
    <3>1. Near(at, o, b) /\ x \in Intentions
      BY <2>5
    <3>2. CASE x.kind = "Idle"
      BY <3>2 DEF Ordered, After, Near
    <3>3. CASE x.kind = "Move"
      BY <3>3 DEF Ordered, After, Near
    <3>4. CASE x.kind = "Attack"
      BY <3>4 DEF Ordered, After, Near
    <3>5. CASE x.kind = "Cast"
      BY <3>1, <3>5 DEF Ordered, After, Near
    <3> QED
      BY <3>1, <3>2, <3>3, <3>4, <3>5, IntentionIs
  <2> QED
    BY <1>1, <2>1, <2>2, <2>4, <2>6 DEF o, b, x
<1> HIDE DEF A
<1>8. \A i \in 0..Len(s) : i \in A
  BY <1>1, <1>6, <1>7, Orderings!CountingUp
<1>9. Near(at, run[Len(s)], Believed(heard, m + Len(s)))
  BY <1>1, <1>8 DEF A
<1> QED
  BY <1>4, <1>5, <1>9

LEMMA FoldedOrder ==
  ASSUME NEW s \in Seq(Intentions), NEW order \in AnyOrder
  PROVE  FoldLeft(Ordered, order, s) \in AnyOrder
<1>1. \A v \in AnyOrder, f \in Intentions : Ordered(v, f) \in AnyOrder
  BY OrdersStay
<1>2. FoldLeft(Ordered, order, s) = Orderings!Folded(order, s)
  BY DEF FoldLeft, MapThenFoldSet, Max, Orderings!Folded, Orderings!Greatest
<1>3. PICK run \in [0..Len(s) -> AnyOrder] : Orderings!Folded(order, s) = run[Len(s)]
  BY <1>1, Orderings!FoldRuns
<1>4. Len(s) \in 0..Len(s)
  OBVIOUS
<1> QED
  BY <1>2, <1>3, <1>4

(* One intention folded is that intention obeyed.                          *)
LEMMA OneOrdered ==
  ASSUME NEW x \in Intentions, NEW order \in AnyOrder
  PROVE  FoldLeft(Ordered, order, <<x>>) = Ordered(order, x)
<1>1. \A v \in AnyOrder, f \in Intentions : Ordered(v, f) \in AnyOrder
  BY OrdersStay
<1>2. FoldLeft(Ordered, order, <<x>>) = Orderings!Folded(order, <<x>>)
  BY DEF FoldLeft, MapThenFoldSet, Max, Orderings!Folded, Orderings!Greatest
<1>3. PICK run \in [0..Len(<<x>>) -> AnyOrder] :
        /\ run[0] = order
        /\ \A i \in 1..Len(<<x>>) : run[i] = Ordered(run[i - 1], <<x>>[i])
        /\ Orderings!Folded(order, <<x>>) = run[Len(<<x>>)]
  <2>1. <<x>> \in Seq(Intentions)
    OBVIOUS
  <2> QED
    BY <1>1, <2>1, Orderings!FoldRuns
<1>4. Len(<<x>>) = 1 /\ 1 \in 1..Len(<<x>>) /\ 1 - 1 = 0 /\ <<x>>[1] = x
  OBVIOUS
<1> QED
  BY <1>2, <1>3, <1>4

LEMMA OneAfter ==
  ASSUME NEW x \in Intentions, NEW order \in AnyBelief
  PROVE  FoldLeft(After, order, <<x>>) = After(order, x)
<1>1. \A v \in AnyBelief, f \in Intentions : After(v, f) \in AnyBelief
  BY OrdersStay
<1>2. FoldLeft(After, order, <<x>>) = Beliefs!Folded(order, <<x>>)
  BY DEF FoldLeft, MapThenFoldSet, Max, Beliefs!Folded, Beliefs!Greatest
<1>3. PICK run \in [0..Len(<<x>>) -> AnyBelief] :
        /\ run[0] = order
        /\ \A i \in 1..Len(<<x>>) : run[i] = After(run[i - 1], <<x>>[i])
        /\ Beliefs!Folded(order, <<x>>) = run[Len(<<x>>)]
  <2>1. <<x>> \in Seq(Intentions)
    OBVIOUS
  <2> QED
    BY <1>1, <2>1, Beliefs!FoldRuns
<1>4. Len(<<x>>) = 1 /\ 1 \in 1..Len(<<x>>) /\ 1 - 1 = 0 /\ <<x>>[1] = x
  OBVIOUS
<1> QED
  BY <1>2, <1>3, <1>4

LEMMA WalkedStands ==
  ASSUME NEW from \in Standing, NEW x \in Intentions
  PROVE  Walked(from, x) \in Standing
<1>1. After(from.order, x) \in AnyOrder /\ from.at \in Map
  BY IntentionIs DEF After, AnyOrder, Standing
<1>2. After(from.order, x).kind = "MoveTo" => After(from.order, x).to \in Map
  <2> DEFINE o == After(from.order, x)
  <2>1. o \in AnyOrder
    BY <1>1
  <2> HIDE DEF o
  <2>2. o.kind = "MoveTo" => o.to \in Map
    BY <2>1 DEF AnyOrder, MoveTo, Idle, Attack, Unknown
  <2> QED
    BY <2>2 DEF o
<1>3. After(from.order, x).kind = "MoveTo" => StepToward(from.at, After(from.order, x).to) \in Map
  BY <1>1, <1>2, Steps
<1>4. \A p : Settle(p, After(from.order, x)) \in AnyOrder
  BY <1>1 DEF Settle, AnyOrder
<1> QED
  BY <1>1, <1>3, <1>4 DEF Walked, Standing

LEMMA OneWalked ==
  ASSUME NEW x \in Intentions, NEW from \in Standing
  PROVE  FoldLeft(Walked, from, <<x>>) = Walked(from, x)
<1>1. \A v \in Standing, f \in Intentions : Walked(v, f) \in Standing
  BY WalkedStands
<1>2. FoldLeft(Walked, from, <<x>>) = Walks!Folded(from, <<x>>)
  BY DEF FoldLeft, MapThenFoldSet, Max, Walks!Folded, Walks!Greatest
<1>3. PICK run \in [0..Len(<<x>>) -> Standing] :
        /\ run[0] = from
        /\ \A i \in 1..Len(<<x>>) : run[i] = Walked(run[i - 1], <<x>>[i])
        /\ Walks!Folded(from, <<x>>) = run[Len(<<x>>)]
  <2>1. <<x>> \in Seq(Intentions)
    OBVIOUS
  <2> QED
    BY <1>1, <2>1, Walks!FoldRuns
<1>4. Len(<<x>>) = 1 /\ 1 \in 1..Len(<<x>>) /\ 1 - 1 = 0 /\ <<x>>[1] = x
  OBVIOUS
<1> QED
  BY <1>2, <1>3, <1>4

(* A tick of movement.                                                     *)
LEMMA MovedIs ==
  ASSUME NEW c \in Champion
  PROVE  /\ Moved(c) \in Champion /\ Moved(c).alive = c.alive
         /\ Moved(c).order = Settle(Moved(c).at, c.order)
         /\ c.order.kind = "MoveTo" => Moved(c).at = StepToward(c.at, c.order.to)
         /\ c.order = Idle => Moved(c).at = c.at
<1> DEFINE to == CASE c.order.kind = "MoveTo" -> c.order.to
                   [] c.order.kind = "Attack" /\ Distance(c.at, Foe) > Reach -> Foe
                   [] OTHER -> c.at
           p == StepToward(c.at, to)
<1>1. c.at \in Map /\ c.order \in AnyOrder /\ c.alive \in BOOLEAN
  BY DEF Champion
<1>2. c.order.kind = "MoveTo" => c.order.to \in Map
  BY <1>1 DEF AnyOrder, MoveTo, Idle, Attack, Unknown
<1>3. to \in Map
  BY <1>1, <1>2, PredictionConstants DEF Map
<1>4. p \in Map
  BY <1>1, <1>3, Steps
<1>5. c.order = Idle => to = c.at
  BY DEF Idle
<1>6. c.order = Idle => p = c.at
  BY <1>1, <1>5, Steps
<1>7. c.order.kind = "MoveTo" => p = StepToward(c.at, c.order.to)
  OBVIOUS
<1>8. Settle(p, c.order) \in AnyOrder
  BY <1>1 DEF Settle, AnyOrder
<1>9. Moved(c) = [c EXCEPT !.at = p, !.order = Settle(p, @)]
  BY DEF Moved
<1> HIDE DEF p
<1>10. Moved(c).at = p /\ Moved(c).order = Settle(p, c.order) /\ Moved(c).alive = c.alive /\ Moved(c) \in Champion
  BY <1>1, <1>4, <1>8, <1>9 DEF Champion
<1> QED
  BY <1>6, <1>7, <1>10

(* The belief shadows the champion again once it has moved.                *)
LEMMA MovedAlike ==
  ASSUME NEW c \in Champion, NEW belief \in AnyBelief, Near(c.at, c.order, belief)
  PROVE  Shadows(Moved(c).at, Moved(c).order, belief)
<1>0. /\ Moved(c).order = Settle(Moved(c).at, c.order)
      /\ c.order.kind = "MoveTo" => Moved(c).at = StepToward(c.at, c.order.to)
      /\ c.order = Idle => Moved(c).at = c.at
      /\ c.at \in Map
  BY MovedIs DEF Champion
<1>1. CASE belief = Unknown
  BY <1>1 DEF Shadows
<1>2. CASE belief = c.order
  BY <1>0, <1>2 DEF Shadows
<1>3. CASE belief # Unknown /\ belief # c.order
  <2>1. Settle(c.at, c.order) = Settle(c.at, belief)
    BY <1>3 DEF Near
  <2>2. \/ c.order = Idle /\ belief = MoveTo(c.at)
        \/ c.order = MoveTo(c.at) /\ belief = Idle
    BY <1>3, <2>1 DEF Settle
  <2>3. Moved(c).at = c.at
    <3>1. CASE c.order = Idle
      BY <1>0, <3>1
    <3>2. CASE c.order = MoveTo(c.at)
      <4>1. c.order.kind = "MoveTo" /\ c.order.to = c.at
        BY <3>2 DEF MoveTo
      <4> QED
        BY <1>0, <4>1, Steps
    <3> QED
      BY <2>2, <3>1, <3>2
  <2>4. Idle # MoveTo(c.at)
    BY DEF Idle, MoveTo
  <2> QED
    BY <1>0, <2>2, <2>3, <2>4 DEF Shadows, Settle
<1> QED
  BY <1>1, <1>2, <1>3

LEMMA ShadowIsNear ==
  ASSUME NEW at, NEW order, NEW belief, Shadows(at, order, belief)
  PROVE  Near(at, order, belief)
BY DEF Shadows, Near, Settle, Idle, MoveTo

(* More said changes no belief in what was heard before it.                *)
LEMMA BelievedStays ==
  ASSUME NEW heard \in Seq(Intentions), NEW x, NEW n \in 0..Len(heard)
  PROVE  Believed(Append(heard, x), n) = Believed(heard, n)
<1>1. \A i \in 1..n : Append(heard, x)[i] = heard[i]
  OBVIOUS
<1>2. [i \in 1..n |-> Append(heard, x)[i]] = [i \in 1..n |-> heard[i]]
  BY <1>1
<1> QED
  BY <1>2, Zenon DEF Believed

LEMMA ShadowsAtFirst == PredictionInit => SInv
<1> SUFFICES ASSUME PredictionInit PROVE SInv
  OBVIOUS
<1>1. /\ champion = Respawned /\ fell = FALSE /\ seats[0] = Vacant /\ downlink = <<>> /\ anchor = NoView
      /\ anchor_order = Idle /\ rendered = Nowhere /\ last = Nothing /\ ~started
  BY OneSeat DEF PredictionInit, Init
<1>2. champion \in Champion /\ champion.alive
  BY <1>1, OrdersStay, PredictionConstants DEF Respawned, Champion, Map
<1>3. Shown = {}
  BY <1>1 DEF Shown
<1>4. ExactInStep
  BY <1>1 DEF ExactInStep, InLockstep
<1> QED
  BY <1>1, <1>2, <1>3, <1>4 DEF SInv, ChampionInv, QueueRuns, ServerShadow, ShownInv, AnchorInv, DrawnInv

(* The client's own part stays while it does nothing.                      *)
LEMMA DrawnStays ==
  ASSUME SInv, UNCHANGED clientVars
  PROVE  AnchorInv' /\ DrawnInv' /\ ExactInStep'
<1>1. UNCHANGED <<said, anchor, anchor_order, outstanding, rendered, rendered_from, last, earlier>>
  BY DEF clientVars, predictionVars
<1>2. AnchorInv'
  BY <1>1 DEF SInv, AnchorInv
<1>3. Drawn' = Drawn
  BY <1>1 DEF Drawn
<1>4. DrawnInv'
  BY <1>1, <1>3 DEF SInv, DrawnInv
<1>5. ExactInStep'
  BY <1>1 DEF SInv, ExactInStep, InLockstep, Undisturbed
<1> QED
  BY <1>2, <1>4, <1>5

(* So do the views while the server makes none.                            *)
LEMMA ShownStays ==
  ASSUME SInv, UNCHANGED <<champion, downlink, anchor, said, ticks_run>>,
         Shown = {} \/ seats'[0].applied_seq = seats[0].applied_seq,
         Clean' => Clean
  PROVE  ShownInv'
<1>1. Shown' = Shown
  BY DEF Shown
<1>2. CASE Shown = {}
  BY <1>1, <1>2 DEF ShownInv
<1>3. CASE seats'[0].applied_seq = seats[0].applied_seq
  BY <1>1, <1>3 DEF SInv, ShownInv
<1> QED
  BY <1>2, <1>3

LEMMA SitDownShadows ==
  ASSUME PInv, SInv, SitDown
  PROVE  SInv'
<1>1. seats[0] = Vacant /\ LowestFree = 0 /\ ~ started
  <2>1. Occupied # Seats /\ ~ started
    BY DEF SitDown, Join, JoinAnswer
  <2>2. seats[0] = Vacant
    BY <2>1, OneSeat DEF Occupied
  <2>3. Seats \ Occupied = {0}
    BY <2>2, OneSeat DEF Occupied
  <2> QED
    BY <2>1, <2>2, <2>3 DEF LowestFree
<1>2. NotYetReady
  BY <1>1 DEF PInv, UplinkInv, NotYetReady
<1>3. /\ seats'[0] = NewSession /\ accepted'[0] = {} /\ refusals'[0] = {}
      /\ UNCHANGED <<started, uplink, downlink, said, anchor, champion, fell, ticks_run, clientVars>>
  BY <1>1, OneSeat DEF SitDown, Join, PInv, TypeOK, clientVars, predictionVars
<1>4. NotYetReady'
  BY <1>2, <1>3 DEF NotYetReady, NewSession
<1>5. ChampionInv'
  BY <1>3 DEF SInv, ChampionInv
<1>6. QueueRuns'
  BY <1>3, <1>4 DEF QueueRuns, NewSession, NONE
<1>7. ServerShadow'
  <2>1. seats'[0].applied_seq + 1 = 0
    BY <1>3 DEF NewSession, NONE
  <2>2. champion' = Respawned
    BY <1>1, <1>3 DEF SInv, ChampionInv
  <2>3. Believed(said', 0) = Idle
    <3>1. said' \in Seq(Intentions)
      BY <1>3 DEF PInv, PredictionTypeOK
    <3> QED
      BY <3>1, BelievedGrows
  <2>4. Shadows(Spawn, Idle, Idle)
    BY DEF Shadows, Settle
  <2> QED
    BY <2>1, <2>2, <2>3, <2>4 DEF ServerShadow, Respawned
<1>8. ShownInv'
  <2>1. Shown = {}
    BY <1>2 DEF NotYetReady, Shown
  <2>2. Clean' => Clean
    BY <1>2, <1>3 DEF Clean, NotYetReady
  <2> QED
    BY <1>3, <2>1, <2>2, ShownStays
<1> QED
  BY <1>3, <1>5, <1>6, <1>7, <1>8, DrawnStays DEF SInv

LEMMA ServerReadsShadows ==
  ASSUME PInv, SInv, ServerReads
  PROVE  SInv'
<1> DEFINE m == Head(uplink)
<1>1. /\ seats[0] # Vacant /\ uplink # <<>> /\ Deliver(0, m) /\ uplink' = Tail(uplink)
      /\ UNCHANGED <<downlink, said, anchor, started, ticks_run, champion, fell, clientVars>>
  BY DEF ServerReads, Deliver, clientVars, predictionVars
<1>2. /\ uplink \in Seq(ClientMessage) /\ m = uplink[1] /\ 1 \in DOMAIN uplink
      /\ Len(uplink') = Len(uplink) - 1 /\ Len(uplink) \in Nat \ {0}
      /\ Len(said) \in Nat
  BY <1>1 DEF PInv, PredictionTypeOK
<1>3. /\ seats[0] \in Session /\ DOMAIN seats = Seats
      /\ seats[0].applied_seq \in Int /\ seats[0].highest_seq \in Int /\ seats[0].pending \in Seq(Seqs)
  BY <1>1, SeatIs DEF PInv, TypeOK
<1>4. ChampionInv'
  BY <1>1 DEF SInv, ChampionInv
<1>5. /\ seats'[0] # Vacant /\ seats'[0].applied_seq = seats[0].applied_seq
      /\ refusals'[0] = {} => refusals[0] = {}
      /\ QueueRuns'
  <2>1. CASE NotYetReady
    <3>1. m = [kind |-> "Ready"]
      BY <1>2, <2>1 DEF NotYetReady
    <3>2. DeliverReady(0, m)
      BY <1>1, <3>1 DEF Deliver, DeliverInput, RefuseInput, DeliverSurrender, DeliverRefused, Verdict
    <3>3. seats' = [seats EXCEPT ![0].ready = TRUE] /\ refusals' = refusals
      BY <3>2 DEF DeliverReady
    <3>4. /\ seats'[0] # Vacant /\ seats'[0].highest_seq = seats[0].highest_seq
          /\ seats'[0].applied_seq = seats[0].applied_seq /\ seats'[0].pending = seats[0].pending
      BY <1>3, <3>3, OneSeat DEF Session, Vacant
    <3>5. Heard' = 0 /\ seats[0].highest_seq = -1
      BY <1>1, <1>2, <2>1 DEF NotYetReady, Heard, NONE
    <3>6. QueueRuns'
      BY <1>1, <3>3, <3>4, <3>5 DEF SInv, QueueRuns
    <3> QED
      BY <3>3, <3>4, <3>6
  <2>2. CASE ~ NotYetReady
    <3>1. /\ \A i \in DOMAIN uplink : uplink[i] = [kind |-> "Input", seq |-> Heard + i - 1]
          /\ Len(uplink) <= Len(said)
      BY <1>1, <2>2 DEF PInv, UplinkInv
    <3>2. Heard \in Nat /\ Heard' = Heard + 1 /\ m = [kind |-> "Input", seq |-> Heard]
      BY <1>1, <1>2, <3>1 DEF Heard
    <3>3. CASE DeliverInput(0, m)
      <4>0. m.seq = Heard
        BY <3>2
      <4> HIDE DEF m
      <4>1. /\ seats' = [seats EXCEPT ![0].highest_seq = m.seq, ![0].pending = Append(@, m.seq)]
            /\ refusals' = refusals
        BY <3>3 DEF DeliverInput
      <4>2. seats'[0] = [seats[0] EXCEPT !.highest_seq = Heard, !.pending = Append(@, Heard)]
        BY <1>3, <4>0, <4>1, OneSeat
      <4>3. /\ seats'[0] # Vacant /\ seats'[0].applied_seq = seats[0].applied_seq
            /\ seats'[0].highest_seq = Heard /\ seats'[0].pending = Append(seats[0].pending, Heard)
        BY <1>3, <4>2 DEF Session, Vacant
      <4>4. QueueRuns'
        <5> SUFFICES ASSUME refusals[0] = {}
                     PROVE  /\ seats'[0].applied_seq + Len(seats'[0].pending) = seats'[0].highest_seq
                            /\ \A i \in DOMAIN seats'[0].pending : seats'[0].pending[i] = seats'[0].applied_seq + i
                            /\ seats'[0].highest_seq = Heard' - 1
          BY <4>1 DEF QueueRuns
        <5> DEFINE p == seats[0].pending
        <5>1. PICK a \in Int : a = seats[0].applied_seq
          BY <1>3
        <5>2. /\ a + Len(p) = Heard - 1
              /\ \A i \in DOMAIN p : p[i] = a + i
          BY <1>1, <2>2, <5>1 DEF SInv, QueueRuns
        <5>3. p \in Seq(Seqs) /\ Len(p) \in Nat
          BY <1>3
        <5> HIDE DEF p
        <5>4. /\ Len(Append(p, Heard)) = Len(p) + 1 /\ DOMAIN Append(p, Heard) = 1..(Len(p) + 1)
              /\ \A i \in 1..Len(p) : Append(p, Heard)[i] = p[i]
              /\ Append(p, Heard)[Len(p) + 1] = Heard
          BY <5>3
        <5>5. \A i \in DOMAIN Append(p, Heard) : Append(p, Heard)[i] = a + i
          <6> SUFFICES ASSUME NEW i \in 1..(Len(p) + 1) PROVE Append(p, Heard)[i] = a + i
            BY <5>4
          <6>1. CASE i = Len(p) + 1
            BY <3>2, <5>2, <5>3, <5>4, <6>1
          <6>2. CASE i \in 1..Len(p)
            BY <5>2, <5>3, <5>4, <6>2
          <6> QED
            BY <5>3, <6>1, <6>2
        <5>6. a + Len(Append(p, Heard)) = Heard
          BY <3>2, <5>2, <5>3, <5>4
        <5> QED
          BY <3>2, <4>3, <5>1, <5>5, <5>6 DEF p
      <4> QED
        BY <4>1, <4>3, <4>4
    <3>4. CASE RefuseInput(0, m)
      <4>1. /\ seats'[0] # Vacant /\ seats'[0].applied_seq = seats[0].applied_seq
        BY <1>3, <3>2, <3>4, OneSeat DEF RefuseInput, Session, Vacant, PInv, TypeOK
      <4>2. refusals'[0] # {}
        BY <3>4, OneSeat DEF RefuseInput, PInv, TypeOK
      <4> QED
        BY <4>1, <4>2 DEF QueueRuns
    <3>5. Verdict(0, m) \notin {"Frame", "OutOfOrder"} /\ m.kind = "Input"
      BY <1>1, <3>2 DEF Verdict
    <3> QED
      BY <1>1, <3>3, <3>4, <3>5 DEF Deliver, DeliverReady, DeliverSurrender, DeliverRefused
  <2> QED
    BY <2>1, <2>2
<1>6. Clean' => Clean
  BY <1>1, <1>5 DEF Clean
<1>7. ShownInv'
  BY <1>1, <1>5, <1>6, ShownStays DEF clientVars
<1>8. ServerShadow'
  BY <1>1, <1>5, <1>6 DEF SInv, ServerShadow
<1> QED
  BY <1>1, <1>4, <1>5, <1>7, <1>8, DrawnStays DEF SInv

LEMMA SteppedIs ==
  ASSUME NEW c \in Champion, NEW s \in Seq(Intentions)
  PROVE  /\ Stepped(c, s) \in Champion /\ Stepped(c, s).alive = c.alive
         /\ c.alive =>
              /\ [at |-> c.at, order |-> FoldLeft(Ordered, c.order, s), alive |-> TRUE] \in Champion
              /\ Stepped(c, s) = Moved([at |-> c.at, order |-> FoldLeft(Ordered, c.order, s), alive |-> TRUE])
<1> DEFINE o == FoldLeft(Ordered, c.order, s)
           d == [at |-> c.at, order |-> o, alive |-> TRUE]
<1>1. c.order \in AnyOrder /\ c.at \in Map /\ c.alive \in BOOLEAN
  BY DEF Champion
<1>2. o \in AnyOrder
  BY <1>1, FoldedOrder
<1>3. CASE c.alive
  <2>1. Stepped(c, s) = Moved([c EXCEPT !.order = o])
    BY <1>3 DEF Stepped
  <2> HIDE DEF o
  <2>2. [c EXCEPT !.order = o] = d
    <3> DEFINE f == [c EXCEPT !.order = o]
    <3>1. c.alive = TRUE
      BY <1>1, <1>3
    <3>2. f \in Champion /\ f.at = c.at /\ f.order = o /\ f.alive = c.alive
      BY <1>1, <1>2 DEF Champion
    <3> HIDE DEF f
    <3>3. f = [at |-> f.at, order |-> f.order, alive |-> f.alive]
      BY <3>2 DEF Champion
    <3>4. f = d
      BY <3>1, <3>2, <3>3, Zenon
    <3> QED
      BY <3>4 DEF f
  <2>3. d \in Champion /\ d.alive
    BY <1>1, <1>2 DEF Champion
  <2> HIDE DEF d
  <2>4. Moved(d) \in Champion /\ Moved(d).alive
    BY <2>3, MovedIs
  <2> QED
    BY <1>1, <1>3, <2>1, <2>2, <2>3, <2>4 DEF d, o
<1>4. CASE ~c.alive
  BY <1>4 DEF Stepped
<1> QED
  BY <1>1, <1>3, <1>4

(* What a tick drains: numbers that were said, in order.                   *)
LEMMA TickDrains ==
  ASSUME PInv, TickRuns, TypeOK'
  PROVE  LET p == seats[0].pending IN
         /\ ~ NotYetReady /\ seats[0] # Vacant /\ seats'[0] # Vacant /\ started'
         /\ p \in Seq(Seqs) /\ Len(p) \in Nat /\ seats[0].applied_seq \in Int /\ seats[0].highest_seq \in Int
         /\ \A i \in DOMAIN p : p[i] \in Nat /\ seats[0].applied_seq < p[i] /\ p[i] < Heard
         /\ \A i, j \in DOMAIN p : j < i => p[j] < p[i]
         /\ seats'[0].pending = <<>> /\ seats'[0].highest_seq = seats[0].highest_seq
         /\ seats'[0].applied_seq = IF Len(p) = 0 THEN seats[0].applied_seq ELSE p[Len(p)]
         /\ frames'[0] = seats'[0].applied_seq /\ frames'[0] \in Seqs \cup {NONE}
         /\ ticks_run' = ticks_run + 1 /\ ticks_run \in Nat /\ refusals' = refusals
         /\ Heard <= Len(said) /\ Len(said) \in Nat /\ Heard \in Int /\ said \in Seq(Intentions)
<1>1. ~ NotYetReady
  BY NobodyTicks
<1>2. /\ seats[0] # Vacant /\ Len(uplink) <= Len(said) /\ seats[0].highest_seq < Heard
  BY <1>1 DEF PInv, UplinkInv
<1>3. /\ 0 \in Occupied /\ seats[0] \in Session /\ seats[0].pending \in Seq(Seqs)
      /\ seats[0].applied_seq \in Int /\ seats[0].highest_seq \in Int
      /\ \A q \in Elements(seats[0].pending) : q \in Int /\ seats[0].applied_seq < q /\ q <= seats[0].highest_seq
  BY <1>2, SeatIs DEF PInv
<1>4. /\ said \in Seq(Intentions) /\ Len(said) \in Nat /\ Len(uplink) \in Nat /\ Heard \in Int /\ Heard <= Len(said)
  BY <1>2 DEF PInv, PredictionTypeOK, Heard
<1>5. ASSUME NEW i \in DOMAIN seats[0].pending
      PROVE  /\ seats[0].pending[i] \in Nat
             /\ seats[0].applied_seq < seats[0].pending[i] /\ seats[0].pending[i] < Heard
  <2>1. seats[0].pending[i] \in Seqs
    BY <1>3
  <2>2. seats[0].pending[i] \in Nat
    BY <2>1, OneSeat
  <2>3. seats[0].pending[i] \in Elements(seats[0].pending)
    BY DEF Elements
  <2>4. PICK x \in Nat : x = seats[0].pending[i]
    BY <2>2
  <2> QED
    BY <1>2, <1>3, <1>4, <2>3, <2>4
<1>6. \A i, j \in DOMAIN seats[0].pending : j < i => seats[0].pending[j] < seats[0].pending[i]
  BY <1>3 DEF PInv, IInv, QueueInv
<1>7. /\ seats'[0] = Drained(seats[0]) /\ frames'[0] = Drained(seats[0]).applied_seq
      /\ ticks_run' = ticks_run + 1 /\ ticks_run \in Nat /\ started'
      /\ refusals' = refusals
  BY <1>3, OneSeat, MatchConstants DEF TickRuns, PInv, TypeOK
<1>8. /\ Drained(seats[0]) \in Session /\ Drained(seats[0]) # Vacant
      /\ Drained(seats[0]).applied_seq \in Seqs \cup {NONE}
  <2>1. Drained(seats[0]) \in Session
    BY <1>3, DrainedType
  <2> QED
    BY <2>1, SessionIsNotVacant DEF Session
<1>9. /\ Drained(seats[0]).highest_seq = seats[0].highest_seq
      /\ Drained(seats[0]).pending = <<>>
      /\ Drained(seats[0]).applied_seq = IF Len(seats[0].pending) = 0 THEN seats[0].applied_seq
                                         ELSE seats[0].pending[Len(seats[0].pending)]
  BY <1>3 DEF Drained, Session
<1>10. Len(seats[0].pending) \in Nat
  BY <1>3
<1> QED
  BY <1>1, <1>2, <1>3, <1>4, <1>5, <1>6, <1>7, <1>8, <1>9, <1>10

LEMMA ServerTickShadows ==
  ASSUME PInv, SInv, ServerTick, TypeOK'
  PROVE  SInv'
<1>1. UNCHANGED <<uplink, said, outstanding, anchor, clientVars>>
  BY DEF ServerTick, clientVars, predictionVars
<1>2. CASE TickWaits
  <2>1. UNCHANGED <<seats, started, accepted, refusals, downlink, ticks_run, champion, fell>>
    BY <1>2 DEF ServerTick, TickWaits
  <2>2. ChampionInv' /\ ServerShadow'
    BY <1>1, <2>1 DEF SInv, ChampionInv, ServerShadow, Clean
  <2>3. QueueRuns'
    BY <1>1, <2>1 DEF SInv, QueueRuns, NotYetReady, Heard
  <2>4. Clean' => Clean
    BY <2>1 DEF Clean
  <2>5. ShownInv'
    BY <1>1, <2>1, <2>4, ShownStays
  <2> QED
    BY <1>1, <2>2, <2>3, <2>5, DrawnStays DEF SInv
<1>3. CASE TickRuns
  <2> DEFINE p == seats[0].pending
             s == [i \in DOMAIN p |-> said[p[i] + 1]]
  <2>1. /\ ~ NotYetReady /\ seats[0] # Vacant /\ seats'[0] # Vacant /\ started'
        /\ p \in Seq(Seqs) /\ Len(p) \in Nat /\ seats[0].applied_seq \in Int /\ seats[0].highest_seq \in Int
        /\ \A i \in DOMAIN p : p[i] \in Nat /\ seats[0].applied_seq < p[i] /\ p[i] < Heard
        /\ \A i, j \in DOMAIN p : j < i => p[j] < p[i]
        /\ seats'[0].pending = <<>> /\ seats'[0].highest_seq = seats[0].highest_seq
        /\ seats'[0].applied_seq = IF Len(p) = 0 THEN seats[0].applied_seq ELSE p[Len(p)]
        /\ frames'[0] = seats'[0].applied_seq /\ frames'[0] \in Seqs \cup {NONE}
        /\ ticks_run' = ticks_run + 1 /\ ticks_run \in Nat /\ refusals' = refusals
        /\ Heard <= Len(said) /\ Len(said) \in Nat /\ Heard \in Int /\ said \in Seq(Intentions)
    BY <1>3, TickDrains
  <2>2. s \in Seq(Intentions) /\ Len(s) = Len(p) /\ DOMAIN p = 1..Len(p)
        /\ \A i \in 1..Len(p) : s[i] = said[p[i] + 1] /\ said[p[i] + 1] \in Intentions
    <3>1. \A i \in DOMAIN p : p[i] + 1 \in 1..Len(said)
      BY <2>1
    <3>2. DOMAIN p = 1..Len(p)
      BY <2>1
    <3>3. s \in [1..Len(p) -> Intentions]
      BY <2>1, <3>1, <3>2
    <3> QED
      BY <2>1, <3>2, <3>3, SeqDef
  <2>3. PICK before \in {champion} \cup Revivals(champion) :
          champion' \in {Stepped(before, s)} \cup (IF Stepped(before, s).alive THEN {Fallen} ELSE {})
    <3>1. ticks_run' # ticks_run
      BY <2>1
    <3> QED
      BY <3>1, Zenon DEF ServerTick
  <2>4. /\ fell' = (fell \/ ~champion'.alive)
        /\ downlink' = Append(downlink, ViewOf(champion', ticks_run', frames'[0]))
    BY <2>1 DEF ServerTick
  <2> HIDE DEF s
  <2>5. /\ champion \in Champion /\ fell \in BOOLEAN /\ (~fell => champion.alive)
        /\ before \in Champion
    <3>1. Respawned \in Champion
      BY OrdersStay, PredictionConstants DEF Respawned, Champion, Map
    <3>2. before = champion \/ before = Respawned
      BY <2>3 DEF Revivals
    <3> QED
      BY <3>1, <3>2 DEF SInv, ChampionInv
  <2>6. /\ champion' \in Champion
        /\ champion.alive => before = champion
        /\ champion'.alive => champion' = Stepped(before, s)
    <3>1. Stepped(before, s) \in Champion
      BY <2>2, <2>5, SteppedIs
    <3>2. Fallen \in Champion /\ ~ Fallen.alive
      BY OrdersStay, PredictionConstants DEF Fallen, Respawned, Champion, Map
    <3> QED
      BY <2>3, <2>5, <3>1, <3>2 DEF Revivals
  <2>7. ChampionInv'
    <3>1. champion'.alive \in BOOLEAN
      BY <2>6 DEF Champion
    <3>2. fell' \in BOOLEAN
      <4>1. fell' = TRUE \/ fell' = FALSE
        BY <2>4, <2>5, <3>1, Zenon
      <4> QED
        BY <4>1, Zenon
    <3>3. ~fell' => champion'.alive
      BY <2>4, Zenon
    <3>4. started'
      BY <2>1
    <3> QED
      BY <2>6, <3>2, <3>3, <3>4, Zenon DEF ChampionInv
  <2>8. QueueRuns'
    <3> SUFFICES ASSUME refusals[0] = {}
                 PROVE  /\ seats'[0].applied_seq + Len(seats'[0].pending) = seats'[0].highest_seq
                        /\ seats'[0].highest_seq = Heard' - 1
      BY <2>1 DEF QueueRuns
    <3>1. /\ seats[0].applied_seq + Len(p) = seats[0].highest_seq
          /\ \A i \in DOMAIN p : p[i] = seats[0].applied_seq + i
          /\ seats[0].highest_seq = Heard - 1
      BY <2>1 DEF SInv, QueueRuns
    <3>2. Heard' = Heard
      BY <1>1 DEF Heard
    <3>3. PICK a \in Int : a = seats[0].applied_seq
      BY <2>1
    <3>4. seats'[0].applied_seq = a + Len(p)
      <4>1. CASE Len(p) = 0
        BY <2>1, <3>3, <4>1
      <4>2. CASE Len(p) # 0
        <5>1. Len(p) \in DOMAIN p
          BY <2>1, <2>2, <4>2
        <5>2. p[Len(p)] = a + Len(p)
          BY <3>1, <3>3, <5>1
        <5> QED
          BY <2>1, <4>2, <5>2
      <4> QED
        BY <4>1, <4>2
    <3>5. Len(seats'[0].pending) = 0
      BY <2>1
    <3> QED
      BY <2>1, <3>1, <3>2, <3>3, <3>4, <3>5
  <2>9. Clean' => Clean /\ champion.alive /\ champion'.alive
    BY <2>1, <2>4, <2>5 DEF Clean
  <2>10. ASSUME Clean'
         PROVE  Shadows(champion'.at, champion'.order, Believed(said, seats'[0].applied_seq + 1))
    <3>1. champion' = Stepped(champion, s) /\ champion.alive
      BY <2>6, <2>9, <2>10
    <3>2. PICK a \in Int : a = seats[0].applied_seq
      BY <2>1
    <3>3. /\ \A i \in DOMAIN p : p[i] = a + i
          /\ a + Len(p) = seats[0].highest_seq /\ seats[0].highest_seq = Heard - 1
      BY <2>1, <2>9, <2>10, <3>2 DEF SInv, QueueRuns, Clean
    <3>4. a + 1 \in Nat
      <4>1. seats[0].applied_seq \in Seqs \cup {NONE}
        BY <2>1, SeatIs DEF PInv
      <4>2. \A q \in Seqs \cup {NONE} : q + 1 \in Nat
        BY OneSeat DEF NONE
      <4> QED
        BY <3>2, <4>1, <4>2
    <3> DEFINE m == a + 1
    <3>5. m \in Nat /\ m + Len(s) <= Len(said) /\ m + Len(s) = a + Len(p) + 1
      <4>1. PICK l \in Nat : l = Len(p) /\ Len(s) = l
        BY <2>1, <2>2
      <4>2. PICK h \in Int, e \in Int : h = Heard /\ h <= e /\ e = Len(said)
        BY <2>1
      <4>3. a + l = h - 1
        BY <3>3, <4>1, <4>2
      <4>5. a + l = h - 1 /\ h <= e /\ a + 1 \in Nat
        BY <3>4, <4>2, <4>3
      <4>6. m \in Nat /\ m + l <= e /\ m + l = a + l + 1
        BY <4>5
      <4> HIDE DEF m
      <4> QED
        BY <4>1, <4>2, <4>6
    <3>6. \A i \in 1..Len(s) : s[i] = said[m + i]
      <4> SUFFICES ASSUME NEW i \in 1..Len(p) PROVE s[i] = said[m + i]
        BY <2>2
      <4>1. p[i] = a + i /\ p[i] + 1 = m + i
        BY <2>2, <3>3, <3>2
      <4> QED
        BY <2>2, <4>1
    <3>7. seats'[0].applied_seq + 1 = m + Len(s)
      <4>1. CASE Len(p) = 0
        BY <2>1, <2>2, <3>2, <4>1
      <4>2. CASE Len(p) # 0
        <5>0. Len(p) \in DOMAIN p
          BY <2>1, <2>2, <4>2
        <5>1. p[Len(p)] = a + Len(p)
          BY <3>3, <5>0
        <5> QED
          BY <2>1, <2>2, <3>2, <4>2, <5>1
      <4> QED
        BY <4>1, <4>2
    <3>8. Shadows(champion.at, champion.order, Believed(said, m))
      BY <2>1, <2>9, <2>10, <3>2 DEF SInv, ServerShadow
    <3> DEFINE o == FoldLeft(Ordered, champion.order, s)
               c == [at |-> champion.at, order |-> o, alive |-> TRUE]
               b == Believed(said, m + Len(s))
    <3>9. champion.at \in Map /\ champion.order \in AnyOrder
      BY <2>5 DEF Champion
    <3>10. Near(champion.at, champion.order, Believed(said, m))
      BY <3>8, ShadowIsNear
    <3> HIDE DEF m
    <3>11. Near(champion.at, o, b)
      BY <2>1, <2>2, <3>5, <3>6, <3>9, <3>10, ObeyedAlike
    <3>12. c \in Champion /\ champion' = Moved(c)
      BY <2>2, <2>5, <3>1, SteppedIs
    <3>13. b \in AnyBelief
      <4>1. m + Len(s) \in 0..Len(said)
        BY <2>1, <2>2, <3>5
      <4> QED
        BY <2>1, <4>1, BelievedGrows
    <3> HIDE DEF o, b
    <3>14. c.at = champion.at /\ c.order = o
      OBVIOUS
    <3> HIDE DEF c
    <3>15. Shadows(Moved(c).at, Moved(c).order, b)
      BY <3>11, <3>12, <3>13, <3>14, MovedAlike
    <3> QED
      BY <3>7, <3>12, <3>15 DEF b
  <2>11. ServerShadow'
    BY <1>1, <2>10 DEF ServerShadow
  <2> DEFINE w == ViewOf(champion', ticks_run', frames'[0])
  <2>12. /\ w \in View /\ w.tick = ticks_run + 1 /\ w.at = champion'.at /\ w.order = champion'.order
         /\ w.alive = champion'.alive /\ w.ack = seats'[0].applied_seq
    BY <2>1, <2>6 DEF ViewOf, View, Champion
  <2>13. Shown' = Shown \cup {w}
    <3>1. PICK views : downlink \in Seq(views)
      BY DEF PInv, PredictionTypeOK
    <3>2. /\ Len(downlink) \in Nat /\ DOMAIN downlink = 1..Len(downlink)
          /\ DOMAIN downlink' = 1..(Len(downlink) + 1)
          /\ \A i \in DOMAIN downlink : downlink'[i] = downlink[i]
          /\ downlink'[Len(downlink) + 1] = w
      BY <2>4, <3>1, AppendProperties
    <3> HIDE DEF w
    <3>3. {downlink'[i] : i \in DOMAIN downlink'} = {downlink[i] : i \in DOMAIN downlink} \cup {w}
      BY <3>2
    <3> QED
      BY <1>1, <3>3 DEF Shown
  <2> HIDE DEF w
  <2>14. ASSUME NEW v \in Shown
         PROVE  Follows(said, v, w)
    <3> SUFFICES ASSUME w.tick = v.tick + 1, v.alive, w.alive, w.ack = v.ack + 1
                 PROVE  w.at = Moved([at |-> v.at, order |-> Ordered(v.order, said[w.ack + 1]), alive |-> TRUE]).at
      BY DEF Follows
    <3>1. v.tick = ticks_run
      <4>1. v.tick \in Nat
        BY DEF SInv, ShownInv, View
      <4> QED
        BY <2>1, <2>12, <4>1
    <3>2. v.at = champion.at /\ v.order = champion.order /\ v.alive = champion.alive /\ v.ack = seats[0].applied_seq
      BY <3>1 DEF SInv, ShownInv
    <3>3. champion' = Stepped(champion, s) /\ champion.alive
      BY <2>6, <2>12, <3>2
    <3>4. PICK a \in Int : a = seats[0].applied_seq
      BY <2>1
    <3>5. seats'[0].applied_seq = a + 1
      BY <2>12, <3>2, <3>4
    <3>6. Len(p) = 1 /\ p[1] = a + 1
      <4>1. Len(p) # 0 /\ p[Len(p)] = a + 1
        BY <2>1, <3>4, <3>5
      <4>2. 1 \in DOMAIN p /\ Len(p) \in DOMAIN p
        BY <2>1, <2>2, <4>1
      <4>3. PICK x \in Nat : x = p[1] /\ a < x
        BY <2>1, <3>4, <4>2
      <4>4. ~ (Len(p) > 1)
        <5> SUFFICES ASSUME Len(p) > 1 PROVE FALSE
          OBVIOUS
        <5>0. p[1] < p[Len(p)]
          BY <2>1, <4>2
        <5>1. x < a + 1
          BY <4>1, <4>3, <5>0
        <5> QED
          BY <3>4, <4>3, <5>1
      <4>5. PICK l \in Nat : l = Len(p)
        BY <2>1
      <4>6. l = 1
        <5>1. l # 0 /\ ~ (l > 1)
          BY <4>1, <4>4, <4>5
        <5> QED
          BY <5>1
      <4> QED
        BY <4>1, <4>5, <4>6
    <3>7. s = <<said[w.ack + 1]>> /\ said[w.ack + 1] \in Intentions
      <4>1. s[1] = said[w.ack + 1] /\ said[w.ack + 1] \in Intentions
        BY <2>2, <2>12, <3>5, <3>6
      <4>2. s \in [1..1 -> Intentions]
        BY <2>2, <3>6
      <4> QED
        BY <4>1, <4>2
    <3>8. champion.order \in AnyOrder
      BY <2>5 DEF Champion
    <3>9. FoldLeft(Ordered, champion.order, s) = Ordered(champion.order, said[w.ack + 1])
      BY <3>7, <3>8, OneOrdered
    <3>10. champion' = Moved([at |-> champion.at, order |-> FoldLeft(Ordered, champion.order, s), alive |-> TRUE])
      BY <2>2, <2>5, <3>3, SteppedIs
    <3> QED
      BY <2>12, <3>2, <3>9, <3>10
  <2>15. ShownInv'
    <3>1. ASSUME NEW v \in Shown
          PROVE  /\ v \in View /\ v.tick <= ticks_run' /\ v.tick # ticks_run' /\ ~ (v.tick = w.tick + 1)
                 /\ Clean' => Shadows(v.at, v.order, Believed(said', v.ack + 1))
                 /\ \A u \in Shown : Follows(said', v, u)
      <4>1. v \in View /\ v.tick \in Nat /\ v.tick <= ticks_run
        BY DEF SInv, ShownInv, View
      <4>2. v.tick <= ticks_run' /\ v.tick # ticks_run' /\ ~ (v.tick = w.tick + 1)
        BY <2>1, <2>12, <4>1
      <4> QED
        BY <1>1, <2>9, <4>1, <4>2 DEF SInv, ShownInv
    <3>2. w.tick # w.tick + 1 /\ w.tick = ticks_run'
      BY <2>1, <2>12
    <3>3. Follows(said', w, w) /\ \A v \in Shown : Follows(said', w, v) /\ Follows(said', v, w)
      BY <1>1, <2>14, <3>1, <3>2 DEF Follows
    <3>4. Clean' => Shadows(w.at, w.order, Believed(said', w.ack + 1))
      BY <1>1, <2>10, <2>12
    <3>5. w.tick <= ticks_run'
      BY <2>1, <3>2
    <3> QED
      BY <2>12, <2>13, <3>1, <3>2, <3>3, <3>4, <3>5 DEF ShownInv
  <2> QED
    BY <1>1, <2>7, <2>8, <2>11, <2>15, DrawnStays DEF SInv
<1> QED
  BY <1>2, <1>3 DEF ServerTick, Tick

(* One intention walked from where the client stands is one obeyed from    *)
(* where the server does.                                                  *)
LEMMA WalkIsMove ==
  ASSUME NEW at \in Map, NEW belief \in AnyBelief, NEW x \in Intentions, After(belief, x) # Unknown
  PROVE  /\ Walked([at |-> at, order |-> belief], x).at
              = Moved([at |-> at, order |-> Ordered(Settle(at, belief), x), alive |-> TRUE]).at
         /\ Walked([at |-> at, order |-> belief], x).at \in Int
<1> DEFINE b == After(belief, x)
           o == Ordered(Settle(at, belief), x)
           c == [at |-> at, order |-> o, alive |-> TRUE]
<1>1. Settle(at, belief) \in AnyOrder /\ belief \in AnyOrder
  BY OrdersStay DEF Settle
<1>2. o \in AnyOrder /\ b \in AnyBelief /\ b # Unknown
  BY <1>1, OrdersStay
<1>3. Walked([at |-> at, order |-> belief], x).at
        = IF b.kind = "MoveTo" THEN StepToward(at, b.to) ELSE at
  BY DEF Walked
<1>4. o = b \/ (o = Idle /\ b = MoveTo(at))
  <2>1. CASE x.kind \in {"Idle", "Move"}
    BY <2>1 DEF Ordered, After
  <2>2. CASE x.kind = "Attack"
    BY <1>2, <2>2 DEF After
  <2>3. CASE x.kind = "Cast"
    BY <2>3 DEF Ordered, After, Settle
  <2> QED
    BY <2>1, <2>2, <2>3, IntentionIs
<1>5. c \in Champion /\ c.order = o /\ c.at = at
  BY <1>2 DEF Champion
<1> HIDE DEF o
<1>6. /\ o.kind = "MoveTo" => Moved(c).at = StepToward(at, o.to)
      /\ o = Idle => Moved(c).at = at
  <2> HIDE DEF c
  <2> QED
    BY <1>5, MovedIs
<1> HIDE DEF b, c
<1>7. b = Idle \/ \E p \in Map : b = MoveTo(p)
  BY <1>2 DEF AnyBelief
<1>8. (IF b.kind = "MoveTo" THEN StepToward(at, b.to) ELSE at) = Moved(c).at
  <2>1. CASE b = Idle
    BY <1>4, <1>6, <2>1 DEF Idle, MoveTo
  <2>2. CASE b # Idle
    <3>1. b.kind = "MoveTo" /\ b.to \in Map
      BY <1>7, <2>2 DEF MoveTo
    <3>2. CASE o = b
      BY <1>6, <3>1, <3>2
    <3>3. CASE o = Idle /\ b = MoveTo(at)
      <4>1. b.to = at
        BY <3>3 DEF MoveTo
      <4> QED
        BY <1>6, <3>1, <3>3, <4>1, Steps
    <3> QED
      BY <1>4, <3>2, <3>3
  <2> QED
    BY <2>1, <2>2
<1>9. (IF b.kind = "MoveTo" THEN StepToward(at, b.to) ELSE at) \in Int
  <2>1. \A p \in Map : p \in Int
    BY PredictionConstants DEF Map
  <2>2. CASE b.kind = "MoveTo"
    <3>1. b.to \in Map
      BY <1>7, <2>2 DEF MoveTo, Idle
    <3>2. StepToward(at, b.to) \in Map
      BY <3>1, Steps
    <3> QED
      BY <2>1, <2>2, <3>2
  <2> QED
    BY <2>1, <2>2
<1> QED
  BY <1>3, <1>8, <1>9 DEF b, c, o

LEMMA AdvanceShadows ==
  ASSUME PInv, SInv, Advance
  PROVE  SInv'
<1>1. PICK k \in DOMAIN downlink : Observe(downlink[k]) /\ downlink' = SubSeq(downlink, k + 1, Len(downlink))
  BY DEF Advance
<1>2. PICK intention \in Intentions : Intend(intention)
  BY DEF Advance
<1>3. UNCHANGED <<seats, started, accepted, refusals, champion, fell, ticks_run>>
  BY DEF Advance, vars
<1> DEFINE view == downlink[k]
           n    == AcknowledgedBy(view.ack)
           s    == [i \in 1..n |-> said[outstanding[i] + 1]]
<1>4. /\ said' = Append(said, intention)
      /\ uplink' = Append(uplink, [kind |-> "Input", seq |-> Len(said)])
      /\ anchor' = view /\ anchor_order' = FoldLeft(After, anchor_order, s)
      /\ earlier' = [anchor |-> anchor, order |-> anchor_order]
      /\ last' = IF rendered = Nowhere THEN Nothing
                 ELSE [kind |-> "reconciled", predicted_from |-> rendered_from,
                       acknowledged |-> n, correction |-> Distance(rendered.at, view.at)]
  BY <1>1, <1>2 DEF Observe, Intend
<1>5. PICK base \in Nat :
        /\ ~ NotYetReady /\ seats[0] # Vacant
        /\ view.tick \in Nat \ {0} /\ view.ack \in Int /\ view.ack + 1 \in Nat
        /\ view.ack <= seats[0].applied_seq /\ view.ack < Len(said)
        /\ base = Len(said) - Len(outstanding)
        /\ n = view.ack + 1 - base /\ n \in 0..Len(outstanding)
        /\ \A i \in DOMAIN outstanding : outstanding[i] = base + i - 1
        /\ base = IF anchor = NoView THEN 0 ELSE anchor.ack + 1
  BY ObservedIs
<1>6. /\ said \in Seq(Intentions) /\ Len(said) \in Nat /\ outstanding \in Seq(Nat) /\ Len(outstanding) \in Nat
      /\ DOMAIN outstanding = 1..Len(outstanding) /\ uplink \in Seq(ClientMessage) /\ Len(uplink) \in Nat
  BY DEF PInv, PredictionTypeOK
<1>7. PICK views : downlink \in Seq(views)
  BY DEF PInv, PredictionTypeOK
<1>8. view \in Shown
  BY DEF Shown
<1> HIDE DEF n, view
<1>9. /\ \A h \in 0..Len(said) : Believed(said', h) = Believed(said, h)
      /\ \A h \in 1..Len(said) : said'[h] = said[h]
      /\ said' \in Seq(Intentions)
  BY <1>4, <1>6, BelievedStays
<1>10. ChampionInv'
  BY <1>3 DEF SInv, ChampionInv
<1>11. Heard' = Heard
  <2>1. Len(said') = Len(said) + 1 /\ Len(uplink') = Len(uplink) + 1
    <3>1. [kind |-> "Input", seq |-> Len(said)] \in ClientMessage
      <4>1. Len(said) \in Seqs
        BY <1>6, OneSeat DEF Advance, Seqs
      <4> QED
        BY <4>1 DEF ClientMessage
    <3> QED
      BY <1>4, <1>6, <3>1
  <2> QED
    BY <1>6, <2>1 DEF Heard
<1>12. QueueRuns'
  BY <1>3, <1>5, <1>11 DEF SInv, QueueRuns
<1>13. Clean' => Clean
  BY <1>3 DEF Clean
<1>14. ASSUME NEW a \in Int, a <= seats[0].applied_seq, a + 1 \in Nat
       PROVE  a + 1 \in 0..Len(said)
  <2>1. CASE a \in Nat
    <3>1. a < Len(said)
      BY <1>5, <1>14, <2>1, Settles
    <3> QED
      BY <1>6, <2>1, <3>1
  <2>2. CASE a \notin Nat
    <3>1. a + 1 = 0
      BY <1>14, <2>2
    <3> QED
      BY <1>6, <3>1
  <2> QED
    BY <2>1, <2>2
<1>15. ServerShadow'
  <2>1. PICK a \in Int : a = seats[0].applied_seq /\ a + 1 \in Nat
    <3>1. seats[0].applied_seq \in Seqs \cup {NONE}
      BY <1>5, SeatIs DEF PInv
    <3>2. \A q \in Seqs \cup {NONE} : q \in Int /\ q + 1 \in Nat
      BY OneSeat DEF NONE
    <3> QED
      BY <3>1, <3>2
  <2>2. a + 1 \in 0..Len(said)
    BY <1>14, <2>1
  <2>3. Believed(said', a + 1) = Believed(said, a + 1)
    BY <1>9, <2>2
  <2> QED
    BY <1>3, <1>5, <1>13, <2>1, <2>3 DEF SInv, ServerShadow
<1>16. Shown' \subseteq Shown
  <2>1. /\ Len(downlink) \in Nat /\ DOMAIN downlink = 1..Len(downlink) /\ k \in 1..Len(downlink)
        /\ DOMAIN downlink' = 1..(Len(downlink) - k)
        /\ \A i \in DOMAIN downlink' : i + k \in DOMAIN downlink /\ downlink'[i] = downlink[i + k]
    BY <1>1, <1>7, SMTT(30)
  <2>2. \A i \in DOMAIN downlink' : downlink'[i] \in Shown
    BY <2>1 DEF Shown
  <2>3. anchor' \in Shown
    BY <1>4, <1>8
  <2> QED
    BY <2>2, <2>3 DEF Shown
<1>17. ASSUME NEW v \in Shown
       PROVE  /\ v.ack \in Int /\ v.ack + 1 \in 0..Len(said)
              /\ Believed(said', v.ack + 1) = Believed(said, v.ack + 1)
  <2>1. v.ack <= seats[0].applied_seq
    BY <1>5 DEF Shown, PInv, DownlinkInv
  <2>2. v.ack \in Seqs \cup {NONE}
    BY DEF SInv, ShownInv, View
  <2>3. \A q \in Seqs \cup {NONE} : q \in Int /\ q + 1 \in Nat
    BY OneSeat DEF NONE
  <2>4. v.ack + 1 \in 0..Len(said) /\ v.ack \in Int
    BY <1>14, <2>1, <2>2, <2>3
  <2> QED
    BY <1>9, <2>4
<1>18. ShownInv'
  <2> SUFFICES ASSUME NEW v \in Shown, v \in Shown'
               PROVE  /\ v \in View /\ v.tick <= ticks_run'
                      /\ v.tick = ticks_run' =>
                           v.at = champion'.at /\ v.order = champion'.order /\ v.alive = champion'.alive
                             /\ v.ack = seats'[0].applied_seq
                      /\ Clean' => Shadows(v.at, v.order, Believed(said', v.ack + 1))
                      /\ \A w \in Shown' : Follows(said', v, w)
    BY <1>16 DEF ShownInv
  <2>1. ASSUME NEW w \in Shown' PROVE Follows(said', v, w)
    <3>1. Follows(said, v, w) /\ w \in Shown
      BY <1>16, <2>1 DEF SInv, ShownInv
    <3>2. v.ack \in Int /\ v.ack + 1 \in 0..Len(said) /\ w.ack \in Int /\ w.ack + 1 \in 0..Len(said)
      BY <1>17, <3>1
    <3>3. w.ack = v.ack + 1 => w.ack + 1 \in 1..Len(said)
      BY <3>2, <1>6
    <3>4. w.ack = v.ack + 1 => said'[w.ack + 1] = said[w.ack + 1]
      BY <1>9, <3>3
    <3> QED
      BY <3>1, <3>4 DEF Follows
  <2> QED
    BY <1>3, <1>13, <1>17, <2>1 DEF SInv, ShownInv
<1>19. base + n = view.ack + 1 /\ base + n \in 0..Len(said) /\ base \in 0..Len(said)
  BY <1>5, <1>6, SMTT(40)
<1>20. /\ s \in Seq(Intentions) /\ Len(s) = n /\ n \in Nat
       /\ \A i \in 1..n : s[i] = said[base + i] /\ base + i \in 1..Len(said)
  <2>1. n \in Nat /\ n <= Len(outstanding)
    BY <1>5, <1>6
  <2>2. ASSUME NEW i \in 1..n
        PROVE  s[i] = said[base + i] /\ base + i \in 1..Len(said)
    <3>1. i \in DOMAIN outstanding /\ i \in Nat
      BY <1>6, <2>1
    <3>2. outstanding[i] = base + i - 1
      BY <1>5, <3>1
    <3>3. outstanding[i] + 1 = base + i
      BY <3>1, <3>2
    <3>4. base + i \in 1..Len(said)
      BY <1>5, <1>6, <2>1
    <3> QED
      BY <3>3, <3>4
  <2>3. s \in [1..n -> Intentions]
    BY <1>6, <2>2
  <2> QED
    BY <2>1, <2>2, <2>3, SeqDef
<1> HIDE DEF s
<1>21. anchor_order = Believed(said, base) /\ anchor_order \in AnyBelief
  <2>1. anchor_order = Believed(said, base)
    BY <1>5, <1>6, BelievedGrows DEF SInv, AnchorInv
  <2> QED
    BY <1>6, <1>19, <2>1, BelievedGrows
<1>22. AnchorInv'
  <2>1. FoldLeft(After, Believed(said, base), s) = Believed(said, base + Len(s))
    <3>1. base + Len(s) <= Len(said) /\ \A i \in 1..Len(s) : s[i] = said[base + i]
      BY <1>6, <1>19, <1>20
    <3> QED
      BY <1>6, <1>20, <3>1, BelievedOn
  <2>2. anchor_order' = Believed(said, view.ack + 1)
    BY <1>4, <1>19, <1>20, <1>21, <2>1
  <2>3. Believed(said', view.ack + 1) = Believed(said, view.ack + 1)
    BY <1>9, <1>19
  <2>4. anchor' # NoView
    BY <1>4, <1>5 DEF NoView
  <2> QED
    BY <1>4, <2>2, <2>3, <2>4 DEF AnchorInv
<1>23. DrawnInv'
  <2>1. anchor' # NoView
    BY <1>4, <1>5 DEF NoView
  <2>2. rendered' = [kind |-> "drawn", at |-> Position(anchor', anchor_order', outstanding')]
        /\ rendered_from' = Len(outstanding')
    BY <1>2 DEF Intend
  <2>3. Position(anchor', anchor_order', outstanding') = Drawn'
    BY DEF Position, Drawn, Said
  <2> QED
    BY <2>1, <2>2, <2>3 DEF DrawnInv
<1>24. ExactInStep'
  <2> SUFFICES ASSUME InLockstep', Undisturbed'
               PROVE  last'.correction = 0
    BY DEF ExactInStep
  <2>1. rendered # Nowhere /\ rendered_from = 1 /\ n = 1 /\ last'.correction = Distance(rendered.at, view.at)
    BY <1>4 DEF InLockstep
  <2>2. anchor # NoView /\ rendered.at = Drawn /\ Len(outstanding) = 1
    BY <2>1 DEF SInv, DrawnInv
  <2>3. /\ view.tick = anchor.tick + 1 /\ view.alive /\ anchor.alive
        /\ FoldLeft(After, anchor_order, s) # Unknown
        /\ Settle(anchor.at, anchor_order) = anchor.order
    BY <1>4 DEF Undisturbed
  <2>4. base = anchor.ack + 1 /\ view.ack = anchor.ack + 1 /\ base + 1 = view.ack + 1
    <3>1. base = anchor.ack + 1
      BY <1>5, <2>2
    <3>2. view.ack = base
      BY <1>5, <1>19, <2>1
    <3> QED
      BY <3>1, <3>2
  <2> DEFINE x == said[view.ack + 1]
  <2>5. s = <<x>> /\ x \in Intentions
    <3>1. s[1] = x /\ base + 1 \in 1..Len(said)
      BY <1>20, <2>1, <2>4
    <3>2. s \in Seq(Intentions) /\ Len(s) = 1
      BY <1>20, <2>1
    <3>3. x \in Intentions
      BY <1>6, <2>4, <3>1
    <3> HIDE DEF x
    <3> QED
      BY <3>1, <3>2, <3>3
  <2>6. [i \in DOMAIN outstanding |-> said[outstanding[i] + 1]] = <<x>>
    <3>1. DOMAIN outstanding = 1..1 /\ outstanding[1] = base
      BY <1>5, <1>6, <2>2
    <3> QED
      BY <2>4, <3>1
  <2>7. anchor \in Shown /\ anchor.at \in Map
    <3>1. anchor \in Shown
      BY <2>2 DEF Shown
    <3> QED
      BY <3>1 DEF SInv, ShownInv, View
  <2>8. view.at = Moved([at |-> anchor.at, order |-> Ordered(anchor.order, x), alive |-> TRUE]).at
    <3>1. Follows(said, anchor, view)
      BY <1>8, <2>7 DEF SInv, ShownInv
    <3> QED
      BY <2>3, <2>4, <3>1 DEF Follows
  <2> HIDE DEF x
  <2>9. After(anchor_order, x) # Unknown
    BY <1>21, <2>3, <2>5, OneAfter
  <2> DEFINE from == [at |-> anchor.at, order |-> anchor_order]
  <2>10. from \in Standing
    BY <1>21, <2>7, OrdersStay DEF Standing
  <2>11. Drawn = FoldLeft(Walked, from, <<x>>).at
    BY <2>3, <2>6 DEF Drawn
  <2>12. Drawn = Walked(from, x).at
    <3> HIDE DEF from
    <3> QED
      BY <2>5, <2>10, <2>11, OneWalked
  <2>13. Drawn = view.at /\ Drawn \in Int
    BY <1>21, <2>3, <2>5, <2>7, <2>8, <2>9, <2>12, WalkIsMove
  <2> QED
    BY <2>1, <2>2, <2>13 DEF Distance
<1> QED
  BY <1>10, <1>12, <1>15, <1>18, <1>22, <1>23, <1>24 DEF SInv

LEMMA ShadowHolds == PredictionSpec => [](PInv /\ SInv)
<1>1. PInv /\ SInv /\ [PredictionNext]_allVars => SInv'
  <2> SUFFICES ASSUME PInv, SInv, [PredictionNext]_allVars PROVE SInv'
    OBVIOUS
  <2>1. CASE PredictionNext
    <3>1. TypeOK'
      BY <2>1, AuthoritySteps
    <3> QED
      BY <2>1, <3>1, SitDownShadows, ServerReadsShadows, ServerTickShadows, AdvanceShadows DEF PredictionNext
  <2>2. CASE UNCHANGED allVars
    <3>1. UNCHANGED <<clientVars, seats, started, refusals, accepted, ticks_run, uplink, downlink, champion, fell, said, anchor>>
      BY <2>2 DEF allVars, clientVars, predictionVars, vars
    <3>2. ChampionInv' /\ ServerShadow'
      BY <3>1 DEF SInv, ChampionInv, ServerShadow, Clean
    <3>3. QueueRuns'
      BY <3>1 DEF SInv, QueueRuns, NotYetReady, Heard
    <3>4. Clean' => Clean
      BY <3>1 DEF Clean
    <3>5. ShownInv'
      BY <3>1, <3>4, ShownStays
    <3> QED
      BY <3>1, <3>2, <3>3, <3>5, DrawnStays DEF SInv
  <2> QED
    BY <2>1, <2>2
<1> QED
  BY <1>1, ShadowsAtFirst, PredictionHolds, PTL DEF PredictionSpec

(* While the rate refuses nothing and the champion lives, the order the    *)
(* client believes in at its anchor is the one the server held there, but  *)
(* for an order that has arrived, whatever views it missed: for any rate,  *)
(* map and intentions (predict.rs, after(); step.rs, apply_inputs()).      *)
THEOREM BeliefShadows == PredictionSpec => []ShadowOfTheOrder
<1>1. PInv /\ SInv => ShadowOfTheOrder
  <2> SUFFICES ASSUME PInv, SInv, anchor # NoView, refusals[0] = {}, ~fell
               PROVE  anchor_order.kind = "Unknown" \/ Settle(anchor.at, anchor_order) = anchor.order
    BY DEF ShadowOfTheOrder
  <2>1. anchor \in Shown /\ anchor_order = Believed(said, anchor.ack + 1)
    BY DEF Shown, SInv, AnchorInv
  <2>2. Shadows(anchor.at, anchor.order, anchor_order)
    BY <2>1 DEF SInv, ShownInv, Clean
  <2> QED
    BY <2>2 DEF Shadows, Unknown
<1> QED
  BY <1>1, ShadowHolds, PTL

(* In step with the server and undisturbed, the champion is drawn where    *)
(* the server then puts it: for any rate, map and intentions (predict.rs,  *)
(* position_after(); step.rs, move_champions()).                           *)
THEOREM DrawnWhereItIs == PredictionSpec => []ExactInStep
<1>1. SInv => ExactInStep
  BY DEF SInv
<1> QED
  BY <1>1, ShadowHolds, PTL

-----------------------------------------------------------------------------
(* The lobby.                                                              *)

Points_ == Int \X Int
Starts_ ==
  {<<"start", <<0, 0>>>>}
    \cup {<<c, Stations[c]>> : c \in Fixed}
    \cup {<<"Dummy", DUMMY_STATIONS[i]>> : i \in DOMAIN DUMMY_STATIONS}

(* Where the hand was when the leg began, if no wall swallowed a count.    *)
Left_ == <<aim[1] - leg.net[1], aim[2] + leg.net[2]>>

LobbyType ==
  /\ aim \in Points_ /\ dummy \in Nat /\ ready \in BOOLEAN /\ visited \in SUBSET Buttons
  /\ leg \in [from : Points_, of_ : Targets \cup {"start"}, net : Points_, motions : Nat, clamped : BOOLEAN]
  /\ {"reaches", "octants", "clamped"} \subseteq DOMAIN seen
  /\ seen.reaches \in Nat /\ seen.clamped \in Nat /\ IsFiniteSet(seen.octants)

(* A leg begins on a target that was clicked, with the hand somewhere on   *)
(* it, and the counts since then are the way from there, up to the wall.   *)
LegInv ==
  /\ <<leg.of_, leg.from>> \in Starts_
  /\ leg.of_ \in Buttons => leg.of_ \in visited
  /\ leg.of_ = "Ready" => ready
  /\ leg.motions = 0 => leg.net = <<0, 0>> /\ ~ leg.clamped
  /\ ~ leg.clamped => Square(Minus(Left_, leg.from)) <= Radius_(leg.of_) * Radius_(leg.of_)

(* Every button first clicked closed a leg, and one that met no wall left  *)
(* the octant it came from.                                                *)
Reached_ == visited \cup (IF ready THEN {"Ready"} ELSE {})
MeasuredInv ==
  /\ ready => visited = Buttons
  /\ seen.reaches + seen.clamped >= Cardinality(Reached_)
  /\ seen.clamped = 0 => \A b \in Reached_ : Octants_(b) \cap seen.octants # {}

CrossingInv == LobbyType /\ LegInv /\ CountsAreOfTheCrossing /\ MeasuredInv

-----------------------------------------------------------------------------
(* Two ways of no more than their radii end no further than the sum of     *)
(* these.                                                                  *)
LEMMA NoLonger ==
  ASSUME NEW u \in Points_, NEW v \in Points_, NEW a \in Nat, NEW b \in Nat,
         Square(u) <= a * a, Square(v) <= b * b
  PROVE  Square(Plus(u, v)) <= (a + b) * (a + b)
<1> PICK x \in Int, y \in Int, z \in Int, w \in Int : u = <<x, y>> /\ v = <<z, w>>
  BY DEF Points_
<1>1. x * x + y * y <= a * a /\ z * z + w * w <= b * b
  BY DEF Square
<1> DEFINE U == x * x + y * y
           V == z * z + w * w
           C == x * z + y * w
           D == x * w - y * z
<1>2. C * C + D * D = U * V
  OBVIOUS
<1>3. D * D >= 0 /\ U >= 0 /\ V >= 0
  <2>1. \A n \in Int : n * n >= 0
    OBVIOUS
  <2>2. D \in Int /\ x * x >= 0 /\ y * y >= 0 /\ z * z >= 0 /\ w * w >= 0
    BY <2>1
  <2> HIDE DEF D
  <2> QED
    BY <2>1, <2>2
<1>4. U * V <= (a * a) * (b * b)
  <2> U \in Int /\ V \in Int /\ a * a \in Nat /\ b * b \in Nat /\ U <= a * a /\ V <= b * b
    BY <1>1
  <2>1. \A p, q, r, s \in Nat : p <= r /\ q <= s => p * q <= r * s
    OBVIOUS
  <2> HIDE DEF U, V
  <2> QED
    BY <1>3, <2>1
<1>5. C <= a * b
  <2>1. C * C <= (a * b) * (a * b)
    <3> U * V \in Int /\ C * C \in Int /\ D * D \in Int
      OBVIOUS
    <3>1. (a * a) * (b * b) = (a * b) * (a * b)
      OBVIOUS
    <3> HIDE DEF U, V, C, D
    <3> QED
      BY <1>2, <1>3, <1>4, <3>1
  <2>2. \A n \in Int, k \in Nat : n * n <= k * k => n <= k
    OBVIOUS
  <2> C \in Int /\ a * b \in Nat
    OBVIOUS
  <2> HIDE DEF C
  <2> QED
    BY <2>1, <2>2
<1>6. Square(Plus(u, v)) = U + V + 2 * C
  BY DEF Square, Plus
<1>7. (a + b) * (a + b) = a * a + b * b + 2 * (a * b)
  OBVIOUS
<1> U \in Int /\ V \in Int /\ C \in Int /\ a * a \in Nat /\ b * b \in Nat /\ a * b \in Nat
  OBVIOUS
<1>8. U <= a * a /\ V <= b * b
  BY <1>1
<1> HIDE DEF U, V, C
<1> QED
  BY <1>5, <1>6, <1>7, <1>8

LEMMA ThereAndBack ==
  ASSUME NEW a \in Points_, NEW b \in Points_
  PROVE  Minus(a, b) \in Points_ /\ Plus(a, b) \in Points_ /\ Square(Minus(a, b)) = Square(Minus(b, a))
         /\ Square(a) \in Int
<1> PICK x \in Int, y \in Int, z \in Int, w \in Int : a = <<x, y>> /\ b = <<z, w>>
  BY DEF Points_
<1>1. (x - z) * (x - z) = (z - x) * (z - x) /\ (y - w) * (y - w) = (w - y) * (w - y)
  OBVIOUS
<1> QED
  BY <1>1 DEF Points_, Minus, Plus, Square

(* The targets.                                                            *)
LEMMA Places ==
  ASSUME dummy \in Nat, NEW e \in Targets
  PROVE  /\ PositionOf(e) \in Points_ /\ RadiusOf(e) \in Nat /\ Radius_(e) = RadiusOf(e)
         /\ <<e, PositionOf(e)>> \in Starts_
         /\ e # "Dummy" => e \in Fixed /\ PositionOf(e) = Stations[e] /\ RadiusOf(e) = BUTTON_RADIUS
<1>1. DUMMY_STATIONS \in Seq(Points_) /\ Len(DUMMY_STATIONS) \in Nat /\ Len(DUMMY_STATIONS) # 0
  BY LobbyConstants DEF Points_
<1>2. PICK k \in Nat : k = Len(DUMMY_STATIONS) /\ k > 0
  BY <1>1
<1>3. (dummy % k) + 1 \in 1 .. k
  BY <1>2
<1>4. (dummy % Len(DUMMY_STATIONS)) + 1 \in DOMAIN DUMMY_STATIONS
  BY <1>1, <1>2, <1>3
<1>5. DummyAt \in Points_ /\ <<"Dummy", DummyAt>> \in Starts_
  BY <1>1, <1>4 DEF DummyAt, Starts_
<1>6. \A b \in Fixed : Stations[b] \in Points_ /\ <<b, Stations[b]>> \in Starts_
  BY LobbyConstants DEF Points_, Starts_
<1>7. BUTTON_RADIUS \in Nat /\ DUMMY_RADIUS \in Nat
  BY LobbyConstants
<1>8. e # "Dummy" => e \in Fixed
  BY DEF Targets, Fixed, Buttons
<1>9. e # "start"
  BY DEF Targets
<1> QED
  BY <1>5, <1>6, <1>7, <1>8, <1>9 DEF PositionOf, RadiusOf, Radius_

LEMMA RadiiAreNatural == \A e : Radius_(e) \in Nat
  BY LobbyConstants DEF Radius_, RadiusOf

(* A button is reached from another target, or from where the lobby opened,*)
(* and the two do not overlap.                                             *)
LEMMA LegsToButtons ==
  ASSUME NEW b \in Fixed, NEW of, NEW from, <<of, from>> \in Starts_, of # b
  PROVE  /\ <<of, from>> \in LegsTo(b)
         /\ Square(Minus(Stations[b], from)) >= MIN_REACH * MIN_REACH
         /\ Square(Minus(Stations[b], from)) > (Radius_(of) + BUTTON_RADIUS) * (Radius_(of) + BUTTON_RADIUS)
         /\ Octant(Minus(Stations[b], from)) \in Octants_(b)
<1>1. <<of, from>> \in LegsTo(b)
  BY DEF Starts_, LegsTo
<1> QED
  BY <1>1, LobbyGeometry, <<of, from>>[1] = of, <<of, from>>[2] = from DEF Octants_

LEMMA CrossingAtFirst == LInit => CrossingInv
<1> SUFFICES ASSUME LInit PROVE CrossingInv
  OBVIOUS
<1>1. leg = [from |-> <<0, 0>>, of_ |-> "start", net |-> <<0, 0>>, motions |-> 0, clamped |-> FALSE]
  BY DEF LInit, LegFrom
<1>2. seen.reaches = 0 /\ seen.octants = {} /\ seen.clamped = 0 /\ {"reaches", "octants", "clamped"} \subseteq DOMAIN seen
  BY DEF LInit
<1>3. LobbyType
  <2>1. leg \in [from : Points_, of_ : Targets \cup {"start"}, net : Points_, motions : Nat, clamped : BOOLEAN]
    BY <1>1 DEF Points_
  <2>2. seen.reaches \in Nat /\ seen.clamped \in Nat /\ IsFiniteSet(seen.octants)
    BY <1>2, FS_EmptySet
  <2> QED
    <3>1. aim \in Points_ /\ dummy \in Nat /\ ready \in BOOLEAN /\ visited \in SUBSET Buttons
      <4>1. aim = <<0, 0>> /\ dummy = 0 /\ visited = {}
        BY DEF LInit
      <4>2. ready \in BOOLEAN
        BY Zenon DEF LInit
      <4> QED
        BY <4>1, <4>2 DEF Points_
    <3> QED
      BY <1>2, <2>1, <2>2, <3>1 DEF LobbyType
<1>4. LegInv
  BY <1>1 DEF LInit, LegInv, Starts_, Left_, Square, Minus, Radius_, Buttons
<1>5. MeasuredInv
  BY <1>2, FS_EmptySet DEF LInit, MeasuredInv, Reached_
<1> QED
  BY <1>3, <1>4, <1>5 DEF CrossingInv, CountsAreOfTheCrossing, LInit

(* Off the wall, the aim goes where the hand does.                         *)
LEMMA MovesCross ==
  ASSUME CrossingInv, NEW d \in Points_, Moves(d)
  PROVE  CrossingInv'
<1>1. /\ aim' = Moved_(aim, d) /\ UNCHANGED <<dummy, visited, ready, reach>>
      /\ leg' = [leg EXCEPT !.net = Plus(@, d), !.motions = @ + 1, !.clamped = @ \/ Clamped_(aim')]
      /\ seen' = [seen EXCEPT !.quantum = Finest(@, d)]
  BY DEF Moves
<1>2. LobbyType /\ LegInv /\ CountsAreOfTheCrossing /\ MeasuredInv
  BY DEF CrossingInv
<1>3. LIMIT \in Nat
  BY LobbyConstants
<1>4. /\ aim \in Points_ /\ leg.net \in Points_
      /\ leg \in [from : Points_, of_ : Targets \cup {"start"}, net : Points_, motions : Nat, clamped : BOOLEAN]
  BY <1>2 DEF LobbyType
<1> PICK p \in Int, q \in Int : aim = <<p, q>>
  BY <1>4 DEF Points_
<1> PICK n \in Int, m \in Int : leg.net = <<n, m>>
  BY <1>4 DEF Points_
<1> PICK x \in Int, y \in Int : d = <<x, y>>
  BY DEF Points_
<1>5. aim' = <<Walled(p + x), Walled(q - y)>> /\ aim' \in Points_
  BY <1>1, <1>3, <1>4 DEF Moved_, Walled, Points_
<1>6. /\ leg'.from = leg.from /\ leg'.of_ = leg.of_ /\ leg'.net = <<n + x, m + y>>
      /\ leg'.motions = leg.motions + 1 /\ leg'.clamped = (leg.clamped \/ Clamped_(aim'))
      /\ leg' \in [from : Points_, of_ : Targets \cup {"start"}, net : Points_, motions : Nat, clamped : BOOLEAN]
  <2>1. Plus(leg.net, d) = <<n + x, m + y>> /\ Plus(leg.net, d) \in Points_
    BY DEF Plus, Points_
  <2>2. PICK c \in BOOLEAN : c = (leg.clamped \/ Clamped_(aim'))
    BY DEF Clamped_, AtWall
  <2>3. leg' = [leg EXCEPT !.net = Plus(leg.net, d), !.motions = leg.motions + 1, !.clamped = c]
    BY <1>1, <2>2
  <2>4. /\ leg'.from = leg.from /\ leg'.of_ = leg.of_ /\ leg'.net = Plus(leg.net, d)
        /\ leg'.motions = leg.motions + 1 /\ leg'.clamped = c
        /\ leg' \in [from : Points_, of_ : Targets \cup {"start"}, net : Points_, motions : Nat, clamped : BOOLEAN]
    <3> PICK v \in Points_ : v = Plus(leg.net, d)
      BY <2>1
    <3>1. leg.motions + 1 \in Nat
      BY <1>4
    <3>2. leg' = [leg EXCEPT !.net = v, !.motions = leg.motions + 1, !.clamped = c]
      BY <2>3
    <3> QED
      BY <1>4, <3>1, <3>2
  <2> QED
    BY <2>1, <2>2, <2>4
<1>7. /\ seen'.reaches = seen.reaches /\ seen'.octants = seen.octants /\ seen'.clamped = seen.clamped
      /\ DOMAIN seen' = DOMAIN seen
  BY <1>1, <1>2 DEF LobbyType
<1>8. LobbyType'
  BY <1>1, <1>2, <1>5, <1>6, <1>7 DEF LobbyType
<1>9. LegInv'
  <2>1. ASSUME ~ leg'.clamped PROVE Left_' = Left_
    <3>1. ~ Clamped_(aim')
      BY <1>6, <2>1
    <3>2. Walled(p + x) = p + x /\ Walled(q - y) = q - y
      BY <1>3, <1>5, <3>1 DEF Walled, Clamped_, AtWall, Abs
    <3> QED
      BY <1>4, <1>5, <1>6, <3>2 DEF Left_
  <2>2. ~ leg'.clamped => Square(Minus(Left_, leg.from))' <= (Radius_(leg.of_) * Radius_(leg.of_))'
    <3> SUFFICES ASSUME ~ leg'.clamped PROVE Square(Minus(Left_', leg.from)) <= Radius_(leg.of_) * Radius_(leg.of_)
      BY <1>6 DEF Radius_, RadiusOf
    <3> QED
      BY <1>2, <1>6, <2>1 DEF LegInv
  <2>3. leg'.motions # 0
    BY <1>2, <1>6 DEF LobbyType
  <2> QED
    BY <1>1, <1>2, <1>6, <2>2, <2>3 DEF LegInv
<1>10. CountsAreOfTheCrossing' /\ MeasuredInv'
  BY <1>1, <1>2, <1>7 DEF CountsAreOfTheCrossing, MeasuredInv, Reached_, Radius_, RadiusOf
<1> QED
  BY <1>8, <1>9, <1>10 DEF CrossingInv

LEMMA ClicksCross ==
  ASSUME CrossingInv, NEW fast \in BOOLEAN, Clicks(fast)
  PROVE  CrossingInv'
<1>1. LobbyType /\ LegInv /\ CountsAreOfTheCrossing /\ MeasuredInv
  BY DEF CrossingInv
<1>2. /\ aim \in Points_ /\ dummy \in Nat /\ leg.from \in Points_ /\ leg.net \in Points_
      /\ leg.motions \in Nat /\ leg.clamped \in BOOLEAN /\ ~ready /\ UNCHANGED <<aim, moves>>
      /\ leg.of_ \in Targets \cup {"start"}
      /\ leg \in [from : Points_, of_ : Targets \cup {"start"}, net : Points_, motions : Nat, clamped : BOOLEAN]
  BY <1>1 DEF LobbyType, Clicks
<1>3. PICK e \in Under(aim) :
        /\ e = "Ready" => CanReady
        /\ Closes(e, fast)
        /\ leg' = NextLeg(e)
        /\ visited' = visited \cup ({e} \cap Buttons)
        /\ dummy' = IF e = "Dummy" THEN dummy + 1 ELSE dummy
        /\ ready' = (e = "Ready")
  BY DEF Clicks
<1> DEFINE to == PositionOf(e)
<1>4. /\ e \in Targets /\ Square(Minus(to, aim)) <= RadiusOf(e) * RadiusOf(e)
      /\ to \in Points_ /\ RadiusOf(e) \in Nat /\ Radius_(e) = RadiusOf(e) /\ <<e, to>> \in Starts_
      /\ e # "Dummy" => e \in Fixed /\ to = Stations[e] /\ RadiusOf(e) = BUTTON_RADIUS
  BY <1>2, <1>3, Places DEF Under
<1>5. leg' = [from |-> to, of_ |-> e, net |-> <<0, 0>>, motions |-> 0, clamped |-> FALSE]
  BY <1>3 DEF NextLeg, NextLegFrom, LegFrom
<1> DEFINE closed == ~ leg.clamped /\ Square(Minus(to, leg.from)) >= MIN_REACH * MIN_REACH /\ leg.motions > 0
<1>6. /\ ~ leg.clamped /\ ~ closed => seen' = seen /\ reach' = reach
      /\ leg.clamped => seen' = [seen EXCEPT !.clamped = @ + 1] /\ reach' = reach
      /\ closed => seen' = Record(leg.from, to, fast) /\ reach' = <<[leg EXCEPT !.of_ = <<leg.of_, e>>], to>>
  BY <1>3 DEF Closes
<1> HIDE DEF to
<1>7. /\ closed => /\ seen'.reaches = seen.reaches + 1 /\ seen'.clamped = seen.clamped
                   /\ seen'.octants = seen.octants \cup {Octant(Minus(to, leg.from))}
      /\ leg.clamped => /\ seen'.reaches = seen.reaches /\ seen'.clamped = seen.clamped + 1
                        /\ seen'.octants = seen.octants
      /\ DOMAIN seen' = DOMAIN seen
  BY <1>1, <1>6 DEF Record, LobbyType
<1>8. /\ seen'.reaches \in Nat /\ seen'.clamped \in Nat /\ IsFiniteSet(seen'.octants)
      /\ seen'.reaches + seen'.clamped >= seen.reaches + seen.clamped /\ seen.octants \subseteq seen'.octants
      /\ seen'.clamped = 0 => seen.clamped = 0
      /\ leg.clamped \/ closed => seen'.reaches + seen'.clamped = seen.reaches + seen.clamped + 1
  <2>1. seen.reaches \in Nat /\ seen.clamped \in Nat /\ IsFiniteSet(seen.octants)
    BY <1>1 DEF LobbyType
  <2>2. IsFiniteSet(seen.octants \cup {Octant(Minus(to, leg.from))})
    BY <2>1, FS_AddElement
  <2> HIDE DEF closed
  <2>3. CASE leg.clamped
    BY <1>7, <2>1, <2>3
  <2>4. CASE closed
    BY <1>7, <2>1, <2>2, <2>4
  <2>5. CASE ~ leg.clamped /\ ~ closed
    BY <1>6, <2>1, <2>5
  <2> QED
    BY <2>3, <2>4, <2>5
<1>9. LobbyType'
  <2>1. leg' \in [from : Points_, of_ : Targets \cup {"start"}, net : Points_, motions : Nat, clamped : BOOLEAN]
    BY <1>4, <1>5 DEF Points_
  <2>2. dummy' \in Nat /\ visited' \in SUBSET Buttons /\ ready' \in BOOLEAN /\ aim' \in Points_
    BY <1>1, <1>2, <1>3 DEF LobbyType
  <2>3. {"reaches", "octants", "clamped"} \subseteq DOMAIN seen'
    BY <1>1, <1>7 DEF LobbyType
  <2> QED
    BY <1>8, <2>1, <2>2, <2>3 DEF LobbyType
<1>10. LegInv'
  <2>1. Left_' = aim
    BY <1>2, <1>5 DEF Left_, Points_
  <2>2. Square(Minus(aim, to)) <= Radius_(e) * Radius_(e)
    BY <1>2, <1>4, ThereAndBack
  <2>3. Radius_(e)' = Radius_(e) /\ Starts_' = Starts_
    BY DEF Radius_, RadiusOf, Starts_
  <2>4. /\ leg'.from = to /\ leg'.of_ = e /\ leg'.motions = 0 /\ leg'.net = <<0, 0>> /\ leg'.clamped = FALSE
    BY <1>5
  <2>5. e \in Buttons => e \in visited'
    BY <1>3
  <2>6. e = "Ready" => ready'
    BY <1>3
  <2>7. (Square(Minus(Left_, leg.from)) <= Radius_(leg.of_) * Radius_(leg.of_))'
    BY <2>1, <2>2, <2>3, <2>4 DEF Radius_, RadiusOf
  <2> QED
    BY <1>4, <2>3, <2>4, <2>5, <2>6, <2>7 DEF LegInv
<1>11. CountsAreOfTheCrossing'
  <2>1. CASE reach' = reach
    BY <1>1, <2>1 DEF CountsAreOfTheCrossing, Radius_, RadiusOf
  <2>2. CASE closed
    <3>1. reach' = <<[leg EXCEPT !.of_ = <<leg.of_, e>>], to>>
      BY <1>6, <2>2
    <3>2. reach'[1].net = leg.net /\ reach'[1].from = leg.from /\ reach'[1].of_ = <<leg.of_, e>> /\ reach'[2] = to
      BY <1>2, <3>1
    <3>3. Square(Minus(Left_, leg.from)) <= Radius_(leg.of_) * Radius_(leg.of_)
      BY <1>1, <2>2 DEF LegInv
    <3>4. Left_ \in Points_
      BY <1>2 DEF Left_, Points_
    <3>5. Square(Plus(Minus(to, aim), Minus(Left_, leg.from)))
            <= (Radius_(e) + Radius_(leg.of_)) * (Radius_(e) + Radius_(leg.of_))
      BY <1>2, <1>4, <3>3, <3>4, ThereAndBack, RadiiAreNatural, NoLonger
    <3> DEFINE slop == Minus(<<leg.net[1], - leg.net[2]>>, Minus(to, leg.from))
    <3>6. Square(slop) = Square(Plus(Minus(to, aim), Minus(Left_, leg.from)))
      <4> PICK p \in Int, q \in Int : aim = <<p, q>>
        BY <1>2 DEF Points_
      <4> PICK n \in Int, m \in Int : leg.net = <<n, m>>
        BY <1>2 DEF Points_
      <4> PICK x \in Int, y \in Int : leg.from = <<x, y>>
        BY <1>2 DEF Points_
      <4> PICK z \in Int, w \in Int : to = <<z, w>>
        BY <1>4 DEF Points_
      <4>1. slop = <<n - (z - x), - m - (w - y)>>
        BY DEF Minus
      <4>2. Plus(Minus(to, aim), Minus(Left_, leg.from)) = <<(z - p) + ((p - n) - x), (w - q) + ((q + m) - y)>>
        BY DEF Minus, Plus, Left_
      <4>3. (z - p) + ((p - n) - x) = - (n - (z - x)) /\ (w - q) + ((q + m) - y) = - (- m - (w - y))
        OBVIOUS
      <4>4. \A i, j \in Int : Square(<<i, j>>) = Square(<<- i, - j>>)
        BY DEF Square
      <4> QED
        BY <4>1, <4>2, <4>3, <4>4
    <3>7. (Radius_(e) + Radius_(leg.of_)) * (Radius_(e) + Radius_(leg.of_))
            = (Radius_(leg.of_) + Radius_(e)) * (Radius_(leg.of_) + Radius_(e))
      BY RadiiAreNatural
    <3>8. Square(slop) <= (Radius_(leg.of_) + Radius_(e)) * (Radius_(leg.of_) + Radius_(e))
      BY <3>5, <3>6, <3>7
    <3>9. (Radius_(reach[1].of_[1]) + Radius_(reach[1].of_[2]))' = Radius_(leg.of_) + Radius_(e)
      BY <3>2 DEF Radius_, RadiusOf
    <3> QED
      BY <3>2, <3>8, <3>9 DEF CountsAreOfTheCrossing
  <2> QED
    BY <1>6, <2>1, <2>2
<1>12. IsFiniteSet(Buttons) /\ IsFiniteSet(Fixed)
  <2>1. IsFiniteSet({"Name"})
    BY FS_Singleton
  <2>2. IsFiniteSet({"Name"} \cup {"Consent"})
    BY <2>1, FS_AddElement
  <2>3. IsFiniteSet(({"Name"} \cup {"Consent"}) \cup {"Champion"})
    BY <2>2, FS_AddElement
  <2>4. Buttons = ({"Name"} \cup {"Consent"}) \cup {"Champion"}
    BY DEF Buttons
  <2>5. IsFiniteSet(Buttons)
    BY <2>3, <2>4
  <2> QED
    BY <2>5, FS_AddElement DEF Fixed
<1>13. MeasuredInv'
  <2>1. ready' => visited' = Buttons
    BY <1>1, <1>2, <1>3 DEF CanReady, ReadyAfterAll, MeasuredInv, Buttons
  <2>2. /\ Reached_ = visited /\ e = "Dummy" => Reached_' = visited
        /\ e # "Dummy" => Reached_' = visited \cup {e}
    BY <1>2, <1>3, <1>4 DEF Reached_, Fixed, Buttons
  <2>3. CASE e = "Dummy" \/ e \in visited
    <3>1. Reached_' = Reached_
      BY <1>1, <1>2, <2>2, <2>3 DEF Reached_, LobbyType, Buttons
    <3>2. seen'.reaches + seen'.clamped >= Cardinality(Reached_')
      <4>1. seen.reaches \in Nat /\ seen.clamped \in Nat /\ Cardinality(Reached_) \in Nat
        <5>1. IsFiniteSet(Fixed)
          BY <1>12
        <5>2. Reached_ \subseteq Fixed
          BY <1>1 DEF Reached_, Fixed, LobbyType
        <5> QED
          BY <1>1, <5>1, <5>2, FS_Subset, FS_CardinalityType DEF LobbyType
      <4> QED
        BY <1>1, <1>8, <3>1, <4>1 DEF MeasuredInv
    <3>3. ASSUME seen'.clamped = 0, NEW b \in Reached_' PROVE Octants_(b) \cap seen'.octants # {}
      BY <1>1, <1>8, <3>1, <3>3 DEF MeasuredInv
    <3> QED
      BY <2>1, <3>2, <3>3 DEF MeasuredInv, Octants_, LegsTo
  <2>4. CASE e # "Dummy" /\ e \notin visited
    <3>1. e \in Fixed /\ leg.of_ # e
      BY <1>1, <1>2, <1>4, <2>4 DEF LegInv, Fixed
    <3>2. /\ Square(Minus(to, leg.from)) >= MIN_REACH * MIN_REACH
          /\ Square(Minus(to, leg.from)) > (Radius_(leg.of_) + BUTTON_RADIUS) * (Radius_(leg.of_) + BUTTON_RADIUS)
          /\ Octant(Minus(to, leg.from)) \in Octants_(e)
      BY <1>1, <1>4, <2>4, <3>1, LegsToButtons DEF LegInv
    <3>3. leg.motions > 0
      <4> SUFFICES ASSUME leg.motions = 0 PROVE FALSE
        BY <1>2
      <4>1. leg.net = <<0, 0>> /\ ~ leg.clamped
        BY <1>1 DEF LegInv
      <4>2. Left_ = aim
        BY <1>2, <4>1 DEF Left_, Points_
      <4>3. Square(Minus(aim, leg.from)) <= Radius_(leg.of_) * Radius_(leg.of_)
        BY <1>1, <4>1, <4>2 DEF LegInv
      <4>4. Square(Plus(Minus(to, aim), Minus(aim, leg.from)))
              <= (BUTTON_RADIUS + Radius_(leg.of_)) * (BUTTON_RADIUS + Radius_(leg.of_))
        BY <1>2, <1>4, <2>4, <4>3, ThereAndBack, RadiiAreNatural, NoLonger, LobbyConstants
      <4>5. Plus(Minus(to, aim), Minus(aim, leg.from)) = Minus(to, leg.from)
        BY <1>2, <1>4 DEF Plus, Minus, Points_
      <4>6. (BUTTON_RADIUS + Radius_(leg.of_)) * (BUTTON_RADIUS + Radius_(leg.of_))
              = (Radius_(leg.of_) + BUTTON_RADIUS) * (Radius_(leg.of_) + BUTTON_RADIUS)
        BY RadiiAreNatural, LobbyConstants
      <4>7. Square(Minus(to, leg.from)) \in Int /\ (Radius_(leg.of_) + BUTTON_RADIUS) * (Radius_(leg.of_) + BUTTON_RADIUS) \in Int
        <5>1. PICK k \in Int : k = Radius_(leg.of_) + BUTTON_RADIUS
          BY RadiiAreNatural, LobbyConstants
        <5>2. k * k \in Int
          OBVIOUS
        <5>3. Minus(to, leg.from) \in Points_
          BY <1>2, <1>4, ThereAndBack
        <5> QED
          BY <5>1, <5>2, <5>3, ThereAndBack
      <4> QED
        BY <3>2, <4>4, <4>5, <4>6, <4>7
    <3>4. leg.clamped \/ closed
      BY <3>2, <3>3
    <3>5. IsFiniteSet(visited) /\ Cardinality(visited \cup {e}) = Cardinality(visited) + 1 /\ Cardinality(visited) \in Nat
      <4> QED
        BY <1>1, <1>12, <2>4, FS_Subset, FS_AddElement, FS_CardinalityType DEF LobbyType
    <3>6. seen'.reaches + seen'.clamped >= Cardinality(Reached_')
      <4>1. seen.reaches + seen.clamped >= Cardinality(visited) /\ seen.reaches \in Nat /\ seen.clamped \in Nat
        BY <1>1, <2>2, <1>2 DEF MeasuredInv, LobbyType, Reached_
      <4> HIDE DEF closed
      <4> QED
        BY <1>8, <2>2, <2>4, <3>4, <3>5, <4>1
    <3>7. ASSUME seen'.clamped = 0, NEW b \in Reached_' PROVE Octants_(b) \cap seen'.octants # {}
      <4>1. seen.clamped = 0 /\ ~ leg.clamped
        <5>1. seen.clamped = 0 /\ seen.clamped \in Nat
          BY <1>1, <1>8, <3>7 DEF LobbyType
        <5> QED
          BY <1>7, <3>7, <5>1
      <4>2. CASE b = e
        <5>1. Octant(Minus(to, leg.from)) \in seen'.octants
          BY <1>7, <3>4, <4>1
        <5> QED
          BY <3>2, <4>2, <5>1
      <4>3. CASE b \in visited
        BY <1>1, <1>2, <1>8, <4>1, <4>3 DEF MeasuredInv, Reached_
      <4> QED
        BY <2>2, <2>4, <3>7, <4>2, <4>3
    <3> QED
      BY <2>1, <3>6, <3>7 DEF MeasuredInv, Octants_, LegsTo
  <2> QED
    BY <2>3, <2>4
<1> QED
  BY <1>9, <1>10, <1>11, <1>13 DEF CrossingInv

LEMMA CrossingHolds == LSpec => []CrossingInv
<1>1. CrossingInv /\ [LNext]_lvars => CrossingInv'
  <2> SUFFICES ASSUME CrossingInv, [LNext]_lvars PROVE CrossingInv'
    OBVIOUS
  <2>1. CASE UNCHANGED lvars
    BY <2>1 DEF lvars, CrossingInv, LobbyType, LegInv, CountsAreOfTheCrossing, MeasuredInv, Left_, Reached_,
      Radius_, RadiusOf, Starts_, Octants_, LegsTo
  <2>2. ASSUME NEW at \in Landings \cup {DummyAt, Plus(DummyAt, <<-2, 3>>)},
               Moves(<<at[1] - aim[1], aim[2] - at[2]>>)
        PROVE  CrossingInv'
    <3>1. dummy \in Nat /\ aim \in Points_
      BY DEF CrossingInv, LobbyType
    <3>2. DummyAt \in Points_
      BY <3>1, Places DEF PositionOf, Targets
    <3>3. at \in Points_
      <4>1. <<-2, 3>> \in Points_
        BY DEF Points_
      <4>2. Plus(DummyAt, <<-2, 3>>) \in Points_
        BY <3>2, <4>1, ThereAndBack
      <4> QED
        BY <3>2, <4>2, LobbyConstants DEF Points_
    <3>4. <<at[1] - aim[1], aim[2] - at[2]>> \in Points_
      BY <3>1, <3>3 DEF Points_
    <3> QED
      BY <2>2, <3>4, MovesCross
  <2>3. ASSUME NEW fast \in BOOLEAN, Clicks(fast) PROVE CrossingInv'
    BY <2>3, ClicksCross
  <2> QED
    BY <2>1, <2>2, <2>3 DEF LNext
<1> QED
  BY <1>1, CrossingAtFirst, PTL DEF LSpec

(* What was counted is what was crossed, and nobody is ready unmeasured:   *)
(* for any table of targets that do not overlap, and any hand (lobby.rs,   *)
(* moved(), close_leg() and can_ready()).                                  *)
THEOREM CrossingsAreMeasured == LSpec => []CrossingIsMeasured
<1>1. CrossingInv => CrossingIsMeasured
  <2> SUFFICES ASSUME CrossingInv, ready
               PROVE  /\ seen.reaches + seen.clamped >= 4
                      /\ seen.clamped = 0 => Cardinality(seen.octants) >= 2
    BY DEF CrossingIsMeasured, ReadyMeansMeasured, CrossingInv
  <2>1. MeasuredInv /\ LobbyType /\ Reached_ = Fixed
    BY DEF CrossingInv, MeasuredInv, Reached_, Fixed
  <2>2. Cardinality(Fixed) = 4
    <3>1. Fixed = {"Name", "Consent", "Champion", "Ready"}
      BY DEF Fixed, Buttons
    <3>2. IsFiniteSet({"Name"}) /\ Cardinality({"Name"}) = 1
      BY FS_Singleton
    <3>3. IsFiniteSet({"Name", "Consent"}) /\ Cardinality({"Name", "Consent"}) = 2
      <4>1. {"Name", "Consent"} = {"Name"} \cup {"Consent"} /\ "Consent" \notin {"Name"}
        OBVIOUS
      <4>2. IsFiniteSet({"Name"} \cup {"Consent"}) /\ Cardinality({"Name"} \cup {"Consent"}) = Cardinality({"Name"}) + 1
        BY <3>2, <4>1, FS_AddElement
      <4> QED
        BY <3>2, <4>1, <4>2
    <3>4. IsFiniteSet({"Name", "Consent", "Champion"}) /\ Cardinality({"Name", "Consent", "Champion"}) = 3
      <4>1. {"Name", "Consent", "Champion"} = {"Name", "Consent"} \cup {"Champion"}
        OBVIOUS
      <4> QED
        BY <3>3, <4>1, FS_AddElement
    <3>5. {"Name", "Consent", "Champion", "Ready"} = {"Name", "Consent", "Champion"} \cup {"Ready"}
      OBVIOUS
    <3> QED
      BY <3>1, <3>4, <3>5, FS_AddElement
  <2>3. ASSUME seen.clamped = 0 PROVE Cardinality(seen.octants) >= 2
    <3>1. PICK b \in Fixed, c \in Fixed : Octants_(b) \cap Octants_(c) = {}
      BY LobbyGeometry
    <3>2. PICK o : o \in Octants_(b) \cap seen.octants
      BY <2>1, <2>3 DEF MeasuredInv
    <3>3. PICK p : p \in Octants_(c) \cap seen.octants
      BY <2>1, <2>3 DEF MeasuredInv
    <3>4. o # p /\ {o, p} \subseteq seen.octants
      BY <3>1, <3>2, <3>3
    <3>5. IsFiniteSet({o}) /\ Cardinality({o}) = 1
      BY FS_Singleton
    <3>6. {o, p} = {o} \cup {p} /\ p \notin {o}
      BY <3>4
    <3>7. Cardinality({o, p}) = 2
      <4>1. Cardinality({o} \cup {p}) = Cardinality({o}) + 1
        BY <3>5, <3>6, FS_AddElement
      <4> QED
        BY <3>5, <3>6, <4>1
    <3>8. IsFiniteSet(seen.octants)
      BY <2>1 DEF LobbyType
    <3>9. Cardinality({o, p}) <= Cardinality(seen.octants)
      BY <3>4, <3>8, FS_Subset
    <3>10. Cardinality(seen.octants) \in Nat
      BY <3>8, FS_CardinalityType
    <3> QED
      BY <3>7, <3>9, <3>10
  <2> QED
    BY <2>1, <2>2, <2>3 DEF MeasuredInv
<1> QED
  BY <1>1, CrossingHolds, PTL

-----------------------------------------------------------------------------
(* The names it is given for shots, in two matches that show it the same.  *)

FirstMatch == INSTANCE HandleProofs WITH
  arena <- arena1, next_projectile_id <- counter1, named <- named1, next <- next1,
  view <- view1, told <- told1, omitted <- omitted1, casts <- hidden1

SecondMatch == INSTANCE HandleProofs WITH
  arena <- arena2, next_projectile_id <- counter2, named <- named2, next <- next2,
  view <- view2, told <- told2, omitted <- omitted2, casts <- hidden2

(* The two matches, to the recipient: the same in flight for as long, the  *)
(* same names, the same counter.                                           *)
Alike ==
  /\ FirstMatch!Counted(shared + hidden1) /\ FirstMatch!InOrder /\ FirstMatch!OnlyOpen
  /\ SecondMatch!Counted(shared + hidden2) /\ SecondMatch!InOrder /\ SecondMatch!OnlyOpen
  /\ FirstMatch!Open = SecondMatch!Open /\ FirstMatch!Calls = SecondMatch!Calls
  /\ view1 = view2 /\ told1 = told2 /\ next1 = next2

(* The inductive invariant.                                                *)
CInv ==
  /\ shared \in Nat /\ hidden1 \in Nat /\ hidden2 \in Nat
  /\ FirstMatch!HInv /\ SecondMatch!HInv
  /\ FirstMatch!Labelled(shared, hidden1) /\ SecondMatch!Labelled(shared, hidden2)
  /\ NoneCameRound => Alike
-----------------------------------------------------------------------------
(* The two matches are two of HandleProofs.                                *)

LEMMA FirstIs ==
  /\ One!HandleConstants <=> FirstMatch!HandleConstants
  /\ One!Init <=> FirstMatch!Init
  /\ \A new, hit, sighted : One!Tick(new, hit, sighted) <=> FirstMatch!Tick(new, hit, sighted)
  /\ One!OneNameEach <=> FirstMatch!OneNameEach
  /\ One!OmittedOnlyWhenSpent <=> FirstMatch!OmittedOnlyWhenSpent
<1>1. One!HandleConstants <=> FirstMatch!HandleConstants
  BY DEF One!HandleConstants, FirstMatch!HandleConstants
<1>2. One!Init <=> FirstMatch!Init
  BY DEF One!Init, FirstMatch!Init
<1>3. ASSUME NEW new, NEW hit, NEW sighted PROVE One!Tick(new, hit, sighted) <=> FirstMatch!Tick(new, hit, sighted)
  BY DEF One!Tick, FirstMatch!Tick, One!Flown, FirstMatch!Flown, One!Launched, FirstMatch!Launched, One!Fits, FirstMatch!Fits,
         One!Allocated, FirstMatch!Allocated, One!Named, FirstMatch!Named, One!Issued, FirstMatch!Issued,
         One!Fresh, FirstMatch!Fresh, One!Local, FirstMatch!Local, One!Kept, FirstMatch!Kept, One!Cardinality, FirstMatch!Cardinality
<1>4. (One!OneNameEach <=> FirstMatch!OneNameEach) /\ (One!OmittedOnlyWhenSpent <=> FirstMatch!OmittedOnlyWhenSpent)
  BY DEF One!OneNameEach, FirstMatch!OneNameEach, One!OmittedOnlyWhenSpent, FirstMatch!OmittedOnlyWhenSpent
<1> QED
  BY <1>1, <1>2, <1>3, <1>4

LEMMA SecondIs ==
  /\ One!HandleConstants <=> SecondMatch!HandleConstants
  /\ Two!Init <=> SecondMatch!Init
  /\ \A new, hit, sighted : Two!Tick(new, hit, sighted) <=> SecondMatch!Tick(new, hit, sighted)
<1>1. One!HandleConstants <=> SecondMatch!HandleConstants
  BY DEF One!HandleConstants, SecondMatch!HandleConstants
<1>2. Two!Init <=> SecondMatch!Init
  BY DEF Two!Init, SecondMatch!Init
<1>3. ASSUME NEW new, NEW hit, NEW sighted PROVE Two!Tick(new, hit, sighted) <=> SecondMatch!Tick(new, hit, sighted)
  BY DEF Two!Tick, SecondMatch!Tick, Two!Flown, SecondMatch!Flown, Two!Launched, SecondMatch!Launched, Two!Fits, SecondMatch!Fits,
         Two!Allocated, SecondMatch!Allocated, Two!Named, SecondMatch!Named, Two!Issued, SecondMatch!Issued,
         Two!Fresh, SecondMatch!Fresh, Two!Local, SecondMatch!Local, Two!Kept, SecondMatch!Kept, Two!Cardinality, SecondMatch!Cardinality
<1> QED
  BY <1>1, <1>2, <1>3

LEMMA Counts == \A S : FirstMatch!Cardinality(S) = Cardinality(S) /\ SecondMatch!Cardinality(S) = Cardinality(S)
  BY DEF FirstMatch!Cardinality, SecondMatch!Cardinality, Cardinality

(* What a tick makes of the same, by label, is the same in both.           *)
LEMMA SameAfter ==
  ASSUME NEW open, NEW calls, NEW new, NEW hit, NEW sighted, NEW unnamed, NEW counter
  PROVE  /\ FirstMatch!N = ID_MAX - PROJECTILE_ID_BASE + 1 /\ SecondMatch!N = ID_MAX - PROJECTILE_ID_BASE + 1
         /\ FirstMatch!OpenAfter(open, new, hit) = SecondMatch!OpenAfter(open, new, hit)
         /\ FirstMatch!Unnamed(open, calls, sighted) = SecondMatch!Unnamed(open, calls, sighted)
         /\ FirstMatch!CallsAfter(open, calls, unnamed, counter) = SecondMatch!CallsAfter(open, calls, unnamed, counter)
         /\ FirstMatch!IssuedAfter(unnamed, counter) = SecondMatch!IssuedAfter(unnamed, counter)
         /\ FirstMatch!ViewAfter(calls, sighted) = SecondMatch!ViewAfter(calls, sighted)
<1>1. FirstMatch!N = ID_MAX - PROJECTILE_ID_BASE + 1 /\ SecondMatch!N = ID_MAX - PROJECTILE_ID_BASE + 1
  BY DEF FirstMatch!N, SecondMatch!N
<1>2. FirstMatch!OpenAfter(open, new, hit) = SecondMatch!OpenAfter(open, new, hit)
  BY DEF FirstMatch!OpenAfter, SecondMatch!OpenAfter
<1>3. FirstMatch!Unnamed(open, calls, sighted) = SecondMatch!Unnamed(open, calls, sighted)
  BY DEF FirstMatch!Unnamed, SecondMatch!Unnamed, FirstMatch!Ids, SecondMatch!Ids
<1>4. FirstMatch!CallsAfter(open, calls, unnamed, counter) = SecondMatch!CallsAfter(open, calls, unnamed, counter)
  BY DEF FirstMatch!CallsAfter, SecondMatch!CallsAfter, FirstMatch!Ids, SecondMatch!Ids, FirstMatch!Below, SecondMatch!Below,
         FirstMatch!Cardinality, SecondMatch!Cardinality
<1>5. FirstMatch!IssuedAfter(unnamed, counter) = SecondMatch!IssuedAfter(unnamed, counter)
  BY DEF FirstMatch!IssuedAfter, SecondMatch!IssuedAfter, FirstMatch!Cardinality, SecondMatch!Cardinality
<1>6. FirstMatch!ViewAfter(calls, sighted) = SecondMatch!ViewAfter(calls, sighted)
  BY DEF FirstMatch!ViewAfter, SecondMatch!ViewAfter, FirstMatch!Ids, SecondMatch!Ids
<1> QED
  BY <1>1, <1>2, <1>3, <1>4, <1>5, <1>6

(* What is cast in a tick, in either order.                                *)
LEMMA CastsAre ==
  ASSUME NEW s \in Nat, NEW h \in Nat, NEW n \in Nat, NEW k \in Nat,
         NEW new \in Orders([i \in 1..n |-> s + i], HiddenFrom(h, k))
  PROVE  /\ new \in Seq(Int) /\ Len(new) = n + k /\ DOMAIN new = 1..(n + k)
         /\ \A i \in DOMAIN new : new[i] \in (s + 1)..(s + n) \/ new[i] \in (-(h + k))..(-(h + 1))
         /\ \A i, j \in DOMAIN new : new[i] = new[j] => i = j
         /\ \A i, j \in DOMAIN new : i < j /\ new[i] > 0 /\ new[j] > 0 => new[i] < new[j]
         /\ {l \in {new[i] : i \in DOMAIN new} : l > 0} = (s + 1)..(s + n)
<1> DEFINE open == [i \in 1..n |-> s + i]
           hidden == [i \in 1..k |-> -(h + i)]
<1>1. open \in Seq(Int) /\ Len(open) = n /\ hidden \in Seq(Int) /\ Len(hidden) = k
  OBVIOUS
<1>2. CASE new = open \o hidden
  <2>1. /\ new \in Seq(Int) /\ Len(new) = n + k /\ DOMAIN new = 1..(n + k)
        /\ \A i \in 1..(n + k) : new[i] = IF i <= n THEN s + i ELSE -(h + (i - n))
    BY <1>1, <1>2
  <2> HIDE DEF open, hidden
  <2>2. \A i \in 1..(n + k) : /\ i <= n => new[i] = s + i
                              /\ i > n => new[i] = n - h - i
    BY <2>1
  <2>3. \A l \in (s + 1)..(s + n) : l - s \in 1..(n + k) /\ new[l - s] = l /\ l > 0
    BY <2>2
  <2>4. \A i \in 1..(n + k) : new[i] \in (s + 1)..(s + n) \/ new[i] \in (-(h + k))..(-(h + 1))
    BY <2>2
  <2>5. \A i, j \in 1..(n + k) : new[i] = new[j] => i = j
    BY <2>2
  <2>6. \A i, j \in 1..(n + k) : i < j /\ new[i] > 0 /\ new[j] > 0 => new[i] < new[j]
    BY <2>2
  <2>7. {l \in {new[i] : i \in 1..(n + k)} : l > 0} = (s + 1)..(s + n)
    <3>1. \A i \in 1..(n + k) : new[i] > 0 => new[i] \in (s + 1)..(s + n)
      BY <2>4
    <3> QED
      BY <2>3, <3>1
  <2> QED
    BY <2>1, <2>4, <2>5, <2>6, <2>7
<1>3. CASE new = hidden \o open
  <2>1. /\ new \in Seq(Int) /\ Len(new) = n + k /\ DOMAIN new = 1..(n + k)
        /\ \A i \in 1..(n + k) : new[i] = IF i <= k THEN -(h + i) ELSE s + (i - k)
    BY <1>1, <1>3
  <2> HIDE DEF open, hidden
  <2>2. \A i \in 1..(n + k) : /\ i <= k => new[i] = -(h + i)
                              /\ i > k => new[i] = s + i - k
    BY <2>1
  <2>3. \A l \in (s + 1)..(s + n) : l - s + k \in 1..(n + k) /\ new[l - s + k] = l /\ l > 0
    BY <2>2
  <2>4. \A i \in 1..(n + k) : new[i] \in (s + 1)..(s + n) \/ new[i] \in (-(h + k))..(-(h + 1))
    BY <2>2
  <2>5. \A i, j \in 1..(n + k) : new[i] = new[j] => i = j
    BY <2>2
  <2>6. \A i, j \in 1..(n + k) : i < j /\ new[i] > 0 /\ new[j] > 0 => new[i] < new[j]
    BY <2>2
  <2>7. {l \in {new[i] : i \in 1..(n + k)} : l > 0} = (s + 1)..(s + n)
    <3>1. \A i \in 1..(n + k) : new[i] > 0 => new[i] \in (s + 1)..(s + n)
      BY <2>4
    <3> QED
      BY <2>3, <3>1
  <2> QED
    BY <2>1, <2>4, <2>5, <2>6, <2>7
<1> QED
  BY <1>2, <1>3 DEF Orders, HiddenFrom

LEMMA CastingIs ==
  ASSUME NEW s \in Nat, NEW h \in Nat, NEW n \in Nat, NEW k \in Nat, n + k <= PerTick,
         NEW new \in Orders([i \in 1..n |-> s + i], HiddenFrom(h, k))
  PROVE  FirstMatch!Casting(new, s, n, h, k) /\ SecondMatch!Casting(new, s, n, h, k)
<1>1. /\ new \in Seq(Int) /\ Len(new) = n + k /\ n + k <= PerTick
      /\ \A i \in DOMAIN new : new[i] \in (s + 1)..(s + n) \/ new[i] \in (-(h + k))..(-(h + 1))
      /\ \A i, j \in DOMAIN new : new[i] = new[j] => i = j
      /\ \A i, j \in DOMAIN new : i < j /\ new[i] > 0 /\ new[j] > 0 => new[i] < new[j]
      /\ {l \in {new[i] : i \in DOMAIN new} : l > 0} = (s + 1)..(s + n)
  BY CastsAre, SMTT(30)
<1>2. FirstMatch!Casting(new, s, n, h, k)
  BY <1>1 DEF FirstMatch!Casting
<1>3. SecondMatch!Casting(new, s, n, h, k)
  BY <1>1 DEF SecondMatch!Casting
<1> QED
  BY <1>2, <1>3
-----------------------------------------------------------------------------
(* The two matches step by step.                                           *)

LEMMA AlikeAtFirst == CastInit => CInv
<1> SUFFICES ASSUME CastInit PROVE CInv
  OBVIOUS
<1>1. FirstMatch!HandleConstants /\ SecondMatch!HandleConstants /\ FirstMatch!Init /\ SecondMatch!Init
  BY BothHandleConstants, FirstIs, SecondIs DEF CastInit
<1>2. FirstMatch!HInv /\ SecondMatch!HInv
  BY <1>1, FirstMatch!HoldsAtFirst, SecondMatch!HoldsAtFirst
<1>3. /\ arena1 = {} /\ counter1 = PROJECTILE_ID_BASE /\ named1 = [id \in {} |-> 0] /\ next1 = PROJECTILE_ID_BASE
      /\ view1 = [l \in {} |-> 0] /\ told1 = {} /\ hidden1 = 0
  BY <1>1 DEF FirstMatch!Init
<1>4. /\ arena2 = {} /\ counter2 = PROJECTILE_ID_BASE /\ named2 = [id \in {} |-> 0] /\ next2 = PROJECTILE_ID_BASE
      /\ view2 = [l \in {} |-> 0] /\ told2 = {} /\ hidden2 = 0
  BY <1>1 DEF SecondMatch!Init
<1>5. shared = 0
  BY DEF CastInit
<1>6. FirstMatch!Labelled(shared, hidden1) /\ SecondMatch!Labelled(shared, hidden2)
  BY <1>3, <1>4 DEF FirstMatch!Labelled, FirstMatch!Labels, SecondMatch!Labelled, SecondMatch!Labels
<1>7. FirstMatch!Open = {} /\ FirstMatch!Calls = {} /\ SecondMatch!Open = {} /\ SecondMatch!Calls = {}
  BY <1>3, <1>4 DEF FirstMatch!Open, FirstMatch!Calls, SecondMatch!Open, SecondMatch!Calls
<1>8. FirstMatch!Counted(shared + hidden1) /\ SecondMatch!Counted(shared + hidden2)
  <2>1. PROJECTILE_ID_BASE \in Int
    BY BothHandleConstants DEF One!HandleConstants
  <2> QED
    BY <1>3, <1>4, <1>5, <2>1 DEF FirstMatch!Counted, SecondMatch!Counted
<1>9. FirstMatch!InOrder /\ FirstMatch!OnlyOpen /\ SecondMatch!InOrder /\ SecondMatch!OnlyOpen
  BY <1>3, <1>4 DEF FirstMatch!InOrder, FirstMatch!OnlyOpen, SecondMatch!InOrder, SecondMatch!OnlyOpen
<1> QED
  BY <1>2, <1>3, <1>4, <1>5, <1>6, <1>7, <1>8, <1>9 DEF CInv, Alike

LEMMA AlikeStep == CInv /\ CastNext => CInv'
<1> SUFFICES ASSUME CInv, CastNext PROVE CInv'
  OBVIOUS
<1>0. FirstMatch!HandleConstants /\ SecondMatch!HandleConstants
  BY BothHandleConstants, FirstIs, SecondIs
<1>1. PICK n, k1, k2 \in 0..PerTick :
        LET open == [i \in 1..n |-> shared + i]
            all  == InSight \cup {shared + i : i \in 1..n}
        IN  /\ n + k1 <= PerTick /\ n + k2 <= PerTick
            /\ Cardinality(arena1) + n + k1 <= MAX_PROJECTILES
            /\ Cardinality(arena2) + n + k2 <= MAX_PROJECTILES
            /\ shared + n + hidden1 + k1 <= MaxCasts
            /\ shared + n + hidden2 + k2 <= MaxCasts
            /\ shared' = shared + n /\ hidden1' = hidden1 + k1 /\ hidden2' = hidden2 + k2
            /\ \E hit, sighted \in SUBSET all :
                 /\ \E new \in Orders(open, HiddenFrom(hidden1, k1)) : One!Tick(new, hit, sighted)
                 /\ \E new \in Orders(open, HiddenFrom(hidden2, k2)) : Two!Tick(new, hit, sighted)
  BY DEF CastNext
<1>2. PICK s, h1, h2 \in Nat : s = shared /\ h1 = hidden1 /\ h2 = hidden2
  BY DEF CInv
<1>3. PICK hit, sighted \in SUBSET (InSight \cup {s + i : i \in 1..n}) :
        /\ \E new \in Orders([i \in 1..n |-> s + i], HiddenFrom(h1, k1)) : One!Tick(new, hit, sighted)
        /\ \E new \in Orders([i \in 1..n |-> s + i], HiddenFrom(h2, k2)) : Two!Tick(new, hit, sighted)
  BY <1>1, <1>2
<1>4. PICK new1 \in Orders([i \in 1..n |-> s + i], HiddenFrom(h1, k1)) : FirstMatch!Tick(new1, hit, sighted)
  BY <1>3, FirstIs
<1>5. PICK new2 \in Orders([i \in 1..n |-> s + i], HiddenFrom(h2, k2)) : SecondMatch!Tick(new2, hit, sighted)
  BY <1>3, SecondIs
<1>6. /\ PerTick \in Nat /\ n \in Nat /\ k1 \in Nat /\ k2 \in Nat
      /\ n + k1 <= PerTick /\ n + k2 <= PerTick
      /\ shared' = s + n /\ hidden1' = h1 + k1 /\ hidden2' = h2 + k2
  BY <1>1, <1>2, BothHandleConstants DEF One!HandleConstants
<1>7. FirstMatch!Casting(new1, s, n, h1, k1) /\ SecondMatch!Casting(new2, s, n, h2, k2)
  BY <1>6, CastingIs
<1>8. FirstMatch!HInv /\ SecondMatch!HInv /\ FirstMatch!Labelled(s, h1) /\ SecondMatch!Labelled(s, h2)
  BY <1>2 DEF CInv
<1>9. FirstMatch!HInv' /\ FirstMatch!Labelled(s + n, h1 + k1)'
  BY <1>0, <1>4, <1>6, <1>7, <1>8, FirstMatch!MatchStep
<1>10. SecondMatch!HInv' /\ SecondMatch!Labelled(s + n, h2 + k2)'
  BY <1>0, <1>5, <1>6, <1>7, <1>8, SecondMatch!MatchStep
<1>11. \A l \in sighted : l \in Int /\ l > 0
  <2>1. \A l \in InSight : l \in Int /\ l > 0
    BY <1>8 DEF InSight, FirstMatch!HInv, FirstMatch!HandleTypeOK, FirstMatch!Projectiles
  <2> QED
    BY <1>6, <2>1
<1>12. ASSUME NoneCameRound' PROVE Alike'
  <2>1. s + n + h1 + k1 <= FirstMatch!N /\ s + n + h2 + k2 <= SecondMatch!N
    BY <1>6, <1>12, SameAfter DEF NoneCameRound
  <2>2. NoneCameRound
    <3>1. ID_MAX \in Nat /\ PROJECTILE_ID_BASE \in Nat
      BY BothHandleConstants DEF One!HandleConstants
    <3>2. /\ s + n + (h1 + k1) <= ID_MAX - PROJECTILE_ID_BASE + 1
          /\ s + n + (h2 + k2) <= ID_MAX - PROJECTILE_ID_BASE + 1
      BY <1>6, <1>12 DEF NoneCameRound
    <3>3. s + h1 <= ID_MAX - PROJECTILE_ID_BASE + 1 /\ s + h2 <= ID_MAX - PROJECTILE_ID_BASE + 1
      BY <1>6, <3>1, <3>2
    <3> QED
      BY <1>2, <3>3 DEF NoneCameRound
  <2>3. /\ FirstMatch!Counted(s + h1) /\ FirstMatch!InOrder /\ FirstMatch!OnlyOpen
        /\ SecondMatch!Counted(s + h2) /\ SecondMatch!InOrder /\ SecondMatch!OnlyOpen
        /\ FirstMatch!Open = SecondMatch!Open /\ FirstMatch!Calls = SecondMatch!Calls
        /\ view1 = view2 /\ told1 = told2 /\ next1 = next2
    BY <1>2, <2>2 DEF CInv, Alike
  <2>4. /\ FirstMatch!Cardinality(arena1) + n + k1 <= MAX_PROJECTILES
        /\ SecondMatch!Cardinality(arena2) + n + k2 <= MAX_PROJECTILES
    BY <1>1, Counts
  <2>5. PICK u1 : u1 = FirstMatch!Unnamed(FirstMatch!Open', FirstMatch!Calls, sighted)
    OBVIOUS
  <2>6. PICK u2 : u2 = SecondMatch!Unnamed(SecondMatch!Open', SecondMatch!Calls, sighted)
    OBVIOUS
  <2>7. /\ FirstMatch!Counted(s + n + h1 + k1)' /\ FirstMatch!InOrder' /\ FirstMatch!OnlyOpen'
        /\ FirstMatch!Open' = FirstMatch!OpenAfter(FirstMatch!Open, (s + 1)..(s + n), hit)
        /\ FirstMatch!Calls' = FirstMatch!CallsAfter(FirstMatch!Open', FirstMatch!Calls, u1, next1)
        /\ next1' = FirstMatch!IssuedAfter(u1, next1)
        /\ view1' = FirstMatch!ViewAfter(FirstMatch!Calls', sighted)
        /\ told1' = told1 \cup {<<l, view1'[l]>> : l \in DOMAIN view1'}
    BY <1>0, <1>4, <1>6, <1>7, <1>8, <1>11, <2>1, <2>3, <2>4, <2>5, FirstMatch!QuietStep
  <2>8. /\ SecondMatch!Counted(s + n + h2 + k2)' /\ SecondMatch!InOrder' /\ SecondMatch!OnlyOpen'
        /\ SecondMatch!Open' = SecondMatch!OpenAfter(SecondMatch!Open, (s + 1)..(s + n), hit)
        /\ SecondMatch!Calls' = SecondMatch!CallsAfter(SecondMatch!Open', SecondMatch!Calls, u2, next2)
        /\ next2' = SecondMatch!IssuedAfter(u2, next2)
        /\ view2' = SecondMatch!ViewAfter(SecondMatch!Calls', sighted)
        /\ told2' = told2 \cup {<<l, view2'[l]>> : l \in DOMAIN view2'}
    BY <1>0, <1>5, <1>6, <1>7, <1>8, <1>11, <2>1, <2>3, <2>4, <2>6, SecondMatch!QuietStep
  <2>9. FirstMatch!Open' = SecondMatch!Open'
    BY <2>3, <2>7, <2>8, SameAfter
  <2>10. u1 = u2
    BY <2>3, <2>5, <2>6, <2>9, SameAfter
  <2>11. FirstMatch!Calls' = SecondMatch!Calls' /\ next1' = next2'
    <3>1. PICK open : open = FirstMatch!Open'
      OBVIOUS
    <3>2. PICK calls : calls = FirstMatch!Calls
      OBVIOUS
    <3>3. /\ FirstMatch!Calls' = FirstMatch!CallsAfter(open, calls, u1, next1)
          /\ next1' = FirstMatch!IssuedAfter(u1, next1)
      BY <2>7, <3>1, <3>2
    <3>4. /\ SecondMatch!Calls' = SecondMatch!CallsAfter(open, calls, u1, next1)
          /\ next2' = SecondMatch!IssuedAfter(u1, next1)
      BY <2>3, <2>8, <2>9, <2>10, <3>1, <3>2
    <3>5. /\ FirstMatch!CallsAfter(open, calls, u1, next1) = SecondMatch!CallsAfter(open, calls, u1, next1)
          /\ FirstMatch!IssuedAfter(u1, next1) = SecondMatch!IssuedAfter(u1, next1)
      BY SameAfter
    <3> QED
      BY <3>3, <3>4, <3>5
  <2>12. view1' = view2'
    BY <2>7, <2>8, <2>11, SameAfter
  <2>13. told1' = told2'
    BY <2>3, <2>7, <2>8, <2>12
  <2>14. FirstMatch!Counted(shared + hidden1)' /\ SecondMatch!Counted(shared + hidden2)'
    <3>1. (shared + hidden1)' = s + n + h1 + k1 /\ (shared + hidden2)' = s + n + h2 + k2
      BY <1>6
    <3> QED
      BY <2>7, <2>8, <3>1 DEF FirstMatch!Counted, SecondMatch!Counted
  <2> QED
    BY <2>7, <2>8, <2>9, <2>11, <2>12, <2>13, <2>14 DEF Alike
<1>13. FirstMatch!Labelled(shared, hidden1)' /\ SecondMatch!Labelled(shared, hidden2)'
  BY <1>6, <1>9, <1>10 DEF FirstMatch!Labelled, SecondMatch!Labelled
<1> QED
  BY <1>6, <1>9, <1>10, <1>12, <1>13 DEF CInv

LEMMA AlikeHolds == CastSpec => []CInv
<1>1. CInv /\ UNCHANGED casting => CInv'
  <2> SUFFICES ASSUME CInv, UNCHANGED casting PROVE CInv'
    OBVIOUS
  <2>1. /\ UNCHANGED <<arena1, counter1, named1, next1, view1, told1, omitted1, hidden1>>
        /\ UNCHANGED <<arena2, counter2, named2, next2, view2, told2, omitted2, hidden2>>
        /\ UNCHANGED shared
    BY DEF casting, one, two
  <2>2. FirstMatch!HInv' /\ FirstMatch!Labelled(shared, hidden1)'
    BY <2>1 DEF CInv, FirstMatch!HInv, FirstMatch!HandleTypeOK, FirstMatch!ArenaInv, FirstMatch!Since, FirstMatch!NamedInv, FirstMatch!NamesInv,
                FirstMatch!ToldInv, FirstMatch!OneNameEach, FirstMatch!OmittedOnlyWhenSpent, FirstMatch!Live, FirstMatch!Labels, FirstMatch!Labelled
  <2>3. SecondMatch!HInv' /\ SecondMatch!Labelled(shared, hidden2)'
    BY <2>1 DEF CInv, SecondMatch!HInv, SecondMatch!HandleTypeOK, SecondMatch!ArenaInv, SecondMatch!Since, SecondMatch!NamedInv, SecondMatch!NamesInv,
                SecondMatch!ToldInv, SecondMatch!OneNameEach, SecondMatch!OmittedOnlyWhenSpent, SecondMatch!Live, SecondMatch!Labels, SecondMatch!Labelled
  <2>4. (NoneCameRound => Alike)'
    BY <2>1 DEF CInv, NoneCameRound, Alike, FirstMatch!Counted, FirstMatch!InOrder, FirstMatch!OnlyOpen, FirstMatch!Open, FirstMatch!Calls,
                SecondMatch!Counted, SecondMatch!InOrder, SecondMatch!OnlyOpen, SecondMatch!Open, SecondMatch!Calls
  <2> QED
    BY <2>1, <2>2, <2>3, <2>4 DEF CInv
<1> QED
  BY <1>1, AlikeAtFirst, AlikeStep, PTL DEF CastSpec

(* For any two matches: HandleSpace.tla's promises about one name for one  *)
(* projectile hold of the handles a recipient is told (handles.rs, local() *)
(* and forget_departed()).                                                 *)
THEOREM HandlesName == CastSpec => []HandlesAreNames
<1>1. CInv => HandlesAreNames
  BY FirstIs DEF CInv, FirstMatch!HInv, HandlesAreNames
<1> QED
  BY <1>1, AlikeHolds, PTL

(* For any two matches that show a recipient the same: it is told the same *)
(* names in the same ticks, whatever was cast out of its sight, until a    *)
(* match has given every handle out (handles.rs: "The only thing a         *)
(* recipient can read off its own handles is how many distinct projectiles *)
(* it has been shown").                                                    *)
THEOREM HiddenCastsStayHidden == CastSpec => []HiddenCastsAreNotTold
<1>1. CInv => HiddenCastsAreNotTold
  BY DEF CInv, HiddenCastsAreNotTold, Alike
<1> QED
  BY <1>1, AlikeHolds, PTL
=============================================================================
