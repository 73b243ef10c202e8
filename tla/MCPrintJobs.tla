---------------------------- MODULE MCPrintJobs ----------------------------
(***************************************************************************)
(* PrintJobs for TLC: one user with two cents of balance and one of credit *)
(* who owns one document; two handler invocations; prints of two cents, so *)
(* that the first is affordable and a second, unless refunded, is not.     *)
(***************************************************************************)
EXTENDS PrintJobs, TLC

CONSTANTS u1, f1, p1, c1, c2

MCUsers       == {u1}
MCFiles       == {f1}
MCPrinters    == {p1}
MCCalls       == {c1, c2}
MCOwner       == f1 :> u1
MCSymmetry    == Permutations(MCCalls)
MCInitBalance == u1 :> 2
MCCreditLimit == u1 :> 1
=============================================================================
