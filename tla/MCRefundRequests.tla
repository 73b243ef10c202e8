-------------------------- MODULE MCRefundRequests --------------------------
(***************************************************************************)
(* RefundRequests for TLC: one user with one completed job, and          *)
(* four invocations: enough to ask, deny, ask again and override, or for   *)
(* two resolutions to meet an override.                                    *)
(***************************************************************************)
EXTENDS RefundRequests, TLC

CONSTANTS u1, j1, c1, c2, c3, c4

MCUsers       == {u1}
MCJobs        == {j1}
MCCalls       == {c1, c2, c3, c4}
MCOwner       == j1 :> u1
MCCost        == j1 :> 2
MCInitBalance == u1 :> 0
MCCreditLimit == u1 :> 0
MCSymmetry    == Permutations(MCCalls)
=============================================================================
