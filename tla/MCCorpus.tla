------------------------------ MODULE MCCorpus ------------------------------
(***************************************************************************)
(* Two matches of two people: both played m1, which commits to no          *)
(* telemetry companion, and only p1 played m2, which commits to one.  The  *)
(* pseudonym p1 is part of the pseudonym p10.  Four commands are enough    *)
(* to sign, file, revoke or withdraw, and run one more over what a death   *)
(* left behind.                                                            *)
(***************************************************************************)
EXTENDS CorpusReports

CONSTANTS p1, p10, m1, m2

Played(m)   == IF m = m1 THEN {p1, p10} ELSE {p1}
Prefixed(p) == IF p = p1 THEN {p1, p10} ELSE {p}
Separable   == {Publication, Training, Retention, Named}
AllOrNone   == {{}, Separable}
=============================================================================
