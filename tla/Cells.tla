-------------------------------- MODULE Cells --------------------------------
(***************************************************************************)
(* Byte strings, for the formats this program writes and reads.  A byte    *)
(* is a cell, a number below Q; a field keeps its place, its neighbours    *)
(* and what a reader refuses in it, and loses width: one cell stands for   *)
(* an integer, a digest or a key of any size, two where a format's padding *)
(* depends on which of its fields are wide.                                *)
(*                                                                         *)
(* Reading is by position, as the readers of replay/src/lib.rs,            *)
(* protocol/src/wire.rs and sim/src/view.rs do it: take so many bytes or   *)
(* give up.  `at' is how many have been taken; giving up is No.            *)
(***************************************************************************)
EXTENDS Integers, Sequences, SequencesExt

CONSTANTS
  Q,        \* the cells are 0 .. Q - 1
  SEATS     \* seats: PLAYER_COUNT

Cell == 0 .. Q - 1
No   == -1

Zeros(n)      == [i \in 1 .. n |-> 0]
Padded(c, n)  == c \o Zeros(n - Len(c))
AllZero(c)    == \A i \in DOMAIN c : c[i] = 0
From(c, at)   == SubSeq(c, at + 1, Len(c))

(* One number in two cells, the greater first.                             *)
Wide(n)       == <<n \div Q, n % Q>>
WideOf(c, at) == c[at + 1] * Q + c[at + 2]

(* take(n): the position after it, if there is that much left.             *)
Take(c, at, n) == IF at # No /\ at + n <= Len(c) THEN at + n ELSE No

(* A byte that must be below `limit': a tag, a seat, a flag.               *)
TakeBelow(c, at, limit) ==
  IF Take(c, at, 1) # No /\ c[at + 1] < limit THEN at + 1 ELSE No

(* What one damaged, short or long copy of a string may look like.         *)
Damaged(c) ==
  {[c EXCEPT ![i] = x] : i \in DOMAIN c, x \in Cell}
    \cup {SubSeq(c, 1, Len(c) - 1)} \cup {Append(c, x) : x \in Cell}
=============================================================================
