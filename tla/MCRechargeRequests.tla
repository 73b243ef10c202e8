------------------------- MODULE MCRechargeRequests -------------------------
(***************************************************************************)
(* RechargeRequests for TLC: one user, one request, three invocations.     *)
(***************************************************************************)
EXTENDS RechargeRequests, TLC

CONSTANTS u1, r1, c1, c2, c3

MCUsers       == {u1}
MCRequests    == {r1}
MCCalls       == {c1, c2, c3}
MCOwner       == r1 :> u1
MCAmount      == r1 :> 2
MCRecharges   == {1, -2}
MCTargets     == {1}
MCInitBalance == u1 :> 0
MCCreditLimit == u1 :> 1
MCSymmetry    == Permutations(MCCalls)
=============================================================================
