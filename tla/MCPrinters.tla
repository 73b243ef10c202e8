----------------------------- MODULE MCPrinters -----------------------------
(***************************************************************************)
(* Printers for TLC: two printers, one of which has two markers, and two   *)
(* readers.  Three events of the environment: enough to create a printer,  *)
(* delete it and change CUPS, or to read twice around a deletion.          *)
(***************************************************************************)
EXTENDS Printers

CONSTANTS p1, p2, r1, r2

MCNames      == {p1, p2}
MCReaders    == {r1, r2}
MCConditions == {[status |-> "idle", reasons |-> {}], [status |-> "stopped", reasons |-> {"jam"}]}
MCLevels     == {60}
=============================================================================
