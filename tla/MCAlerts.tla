------------------------------ MODULE MCAlerts ------------------------------
(***************************************************************************)
(* Alerts for TLC: two subjects and intervals of none, which counts as one *)
(* hour, and two: a stamp is not due, due under the shorter one, or due.   *)
(***************************************************************************)
EXTENDS Alerts

CONSTANTS s1, s2

MCSubjects  == {s1, s2}
MCIntervals == {0, 2}
=============================================================================
