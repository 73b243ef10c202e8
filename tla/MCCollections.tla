--------------------------- MODULE MCCollections ---------------------------
(***************************************************************************)
(* Collections for TLC: an administrator a1 who takes in five cents from   *)
(* u1 and three from the other administrator, and who fronts an expense of   *)
(* three that a2 types in; three sweeps.  The order of the bookings makes  *)
(* the float positive, zero or negative.                                   *)
(***************************************************************************)
EXTENDS Collections, TLC

CONSTANTS a1, a2, u1, r1, r2, e1, s1, s2, s3

MCUsers     == {a1, a2, u1}
MCAdmins    == {a1, a2}
MCRecharges == {r1, r2}
MCExpenses  == {e1}
MCSweeps    == {s1, s2, s3}
MCAmount    == r1 :> 5 @@ r2 :> 3 @@ e1 :> -3
MCHolder    == r1 :> a1 @@ r2 :> a1 @@ e1 :> a1
MCRecorder  == e1 :> a2
MCCustomer  == r1 :> u1 @@ r2 :> a2
MCSymmetry  == Permutations(MCSweeps)
=============================================================================
