----------------------------- MODULE MCMembers -----------------------------
(***************************************************************************)
(* Members for TLC: three requests of any kind, two directory servers that *)
(* spell one person differently, one of which has two entries for that     *)
(* person and a second person.                                             *)
(***************************************************************************)
EXTENDS Members, TLC

CONSTANTS r1, r2, r3

MCRequests == {r1, r2, r3}
MCNames    == {"ann", "Ann", "bob"}
MCFold     == [n \in MCNames |-> IF n = "bob" THEN "bob" ELSE "ann"]
MCPeople   == [s \in {"s1", "s2"} |-> IF s = "s1" THEN {"ann", "Ann", "bob"} ELSE {"Ann"}]
MCSymmetry == Permutations(MCRequests)
=============================================================================
