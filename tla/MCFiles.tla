------------------------------ MODULE MCFiles ------------------------------
(***************************************************************************)
(* Files for TLC: two uploads of one name, and two deletions beside the    *)
(* cleaner: enough to delete a file twice with an upload of its name       *)
(* between the two, or to put two uploads on one path.                     *)
(***************************************************************************)
EXTENDS Files

CONSTANTS u1, u2, d1, d2

MCUploads   == {u1, u2}
MCDeletions == {d1, d2}
=============================================================================
