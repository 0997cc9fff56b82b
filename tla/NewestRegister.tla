--------------------------- MODULE NewestRegister ---------------------------
(***************************************************************************)
(* What the state channel promises a client, without shards, buffers or a  *)
(* network: a value is published again and again, and the reader skips to  *)
(* a newer one, never back to an older one and never to one that was not   *)
(* published.  StateChannel.tla is shown to implement it, and              *)
(* Prediction.tla uses a channel of this kind.                             *)
(***************************************************************************)
EXTENDS Naturals

VARIABLES published, known

vars == <<published, known>>

Init == published = 0 /\ known = 0

Publish == published' = published + 1 /\ UNCHANGED known

Learn == known' \in known + 1..published /\ UNCHANGED published

Next == Publish \/ Learn

Spec == Init /\ [][Next]_vars
=============================================================================
