----------------------------- MODULE MCReports -----------------------------
(***************************************************************************)
(* Reports for TLC.  One user in up to two groups, one printer, and three  *)
(* lists of prices: free in black, dearer than the printer by less than a  *)
(* cent, and access without a price.  The ranges overlap, so that a page   *)
(* chosen twice shows.                                                     *)
(***************************************************************************)
EXTENDS Reports, TLC

CONSTANTS u1, g1, g2, p1

MCUsers     == {u1}
MCGroups    == {g1, g2}
MCPrinters  == {p1}
MCRecharges == {10, -5}
MCSymmetry  == Permutations(MCGroups)

Prices(bw, color) == [m \in Modes |-> IF m = "bw" THEN bw ELSE color]
MCPriceLists == {Prices(0, NoPrice), Prices(13, 25), Prices(NoPrice, NoPrice)}

MCSettings ==
    {[active |-> TRUE, restricted |-> FALSE, colour |-> FALSE, price |-> Prices(10, 0)],
     [active |-> FALSE, restricted |-> TRUE, colour |-> TRUE, price |-> Prices(10, 30)]}

Option(ranges, up, copies, mode) ==
    [ranges |-> ranges, up |-> up, copies |-> copies, mode |-> mode]
MCOptions == {Option({}, 1, 1, "bw"), Option({<<1, 3>>, <<2, 4>>}, 1, 1, "color"),
              Option({<<2, 9>>}, 1, 1, "bw"), Option({}, 2, 2, "bw")}
=============================================================================
