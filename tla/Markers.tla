------------------------------ MODULE Markers ------------------------------
(***************************************************************************)
(* Toner and ink readings (core/cups_manager.py).  A marker is reduced to  *)
(* its level: Unknown stands for -1, "the driver cannot report a value".   *)
(* The cache of a printer maps the positions of the markers seen so far    *)
(* to their last levels; a reading is the sequence of levels that CUPS     *)
(* gives now, as many as it gives names: it may be shorter than it was.    *)
(***************************************************************************)
EXTENDS Integers, Sequences

CONSTANTS Levels,     \* levels a marker can have, in percent
          Positions   \* bound on the markers of a printer

ASSUME MarkerAssumption == Levels \subseteq Nat /\ Positions \in Nat \ {0}

Unknown == -1
Level   == Levels \cup {Unknown}

NoMarkers == [i \in {} |-> Unknown]
Readings  == UNION {[1..k -> Level] : k \in 1..Positions}

Known(markers) == {i \in DOMAIN markers : markers[i] # Unknown}

\* The cache after a reading: known levels are written, and unknown ones at
\* positions that have no row yet.
Persist(cache, raw) ==
    [i \in DOMAIN cache \cup DOMAIN raw |->
        IF i \in Known(raw) \/ i \notin DOMAIN cache THEN raw[i] ELSE cache[i]]

\* Mutant: only the markers of the reading are returned.
MergedOfReading(cache, raw) ==
    [i \in DOMAIN raw |->
        IF raw[i] = Unknown /\ i \in DOMAIN cache THEN cache[i] ELSE raw[i]]

\* What the caller gets: the reading, a level it does not give taken from the
\* cache, and the markers it leaves out added.
Merged(cache, raw) ==
    LET now == Persist(cache, raw)
    IN  [i \in DOMAIN now |-> IF i \in Known(raw) THEN raw[i] ELSE now[i]]
=============================================================================
