------------------------- MODULE MCProductPurchases -------------------------
(***************************************************************************)
(* ProductPurchases for TLC: one user who can afford both of two           *)
(* purchases, of a product linked to an item and of one without; a second  *)
(* item to link them to, and two resolve calls.                            *)
(***************************************************************************)
EXTENDS ProductPurchases, TLC

CONSTANTS u1, x1, x2, i1, i2, p1, p2, c1, c2

MCUsers       == {u1}
MCPurchases   == {p1, p2}
MCProducts    == {x1, x2}
MCItems       == {i1, i2}
MCResolvers   == {c1, c2}
MCBuyer       == p1 :> u1 @@ p2 :> u1
MCProduct     == p1 :> x1 @@ p2 :> x2
MCQuantity    == p1 :> 2 @@ p2 :> 1
MCTotal       == p1 :> 4 @@ p2 :> 3
MCItemOf      == x1 :> i1 @@ x2 :> NoItem
MCDeltas      == {3, -1}
MCInitBalance == u1 :> 7
MCInitStock   == i1 :> 1 @@ i2 :> 3
MCCreditLimit == u1 :> 0
MCSymmetry    == Permutations(MCResolvers)
=============================================================================
