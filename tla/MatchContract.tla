--------------------------- MODULE MatchContract ---------------------------
(***************************************************************************)
(* What a match promises, without queues, refusals or acknowledgement      *)
(* counters: people come and go in the lobby, the running match only loses *)
(* people, and history grows by one slice per tick in which each seated    *)
(* player contributes a bounded run of inputs newer than any it ever       *)
(* contributed.  server/src/lib.rs states this in its module comment;      *)
(* Match.tla is shown to implement it.                                     *)
(***************************************************************************)
EXTENDS Integers, Sequences

CONSTANTS Seats, Seqs, MaxPerTick

VARIABLES running, seated, history

vars == <<running, seated, history>>

Contributed(s) ==
  UNION {{history[k][s][i].seq : i \in DOMAIN history[k][s]} : k \in DOMAIN history}

(* A run of inputs a seat may contribute to the tick about to run.         *)
FreshRun(s, run) ==
  /\ run \in Seq([tick : {Len(history)}, seq : Seqs])
  /\ Len(run) <= MaxPerTick
  /\ s \notin seated => run = <<>>
  /\ \A i \in DOMAIN run : \A q \in Contributed(s) : q < run[i].seq
  /\ \A i, j \in DOMAIN run : i < j => run[i].seq < run[j].seq

Init ==
  /\ running = FALSE
  /\ seated  = {}
  /\ history = <<>>

Sit ==
  /\ ~running
  /\ \E s \in Seats \ seated : seated' = seated \cup {s}
  /\ UNCHANGED <<running, history>>

Leave ==
  /\ \E s \in seated : seated' = seated \ {s}
  /\ UNCHANGED <<running, history>>

(* One tick.  Written over the slice that was appended, so that no set of  *)
(* slices has to be enumerated.                                            *)
Advance ==
  /\ running' = TRUE
  /\ UNCHANGED seated
  /\ Len(history') = Len(history) + 1
  /\ history' = Append(history, history'[Len(history) + 1])
  /\ \A s \in Seats : FreshRun(s, history'[Len(history) + 1][s])

Next == Sit \/ Leave \/ Advance

Spec == Init /\ [][Next]_vars
=============================================================================
