--------------------------- MODULE MCStationFlash ---------------------------
(* Two records side by side, the first across a page's end, the second      *)
(* across a sector's end, and another block in the rest of that sector, as  *)
(* the parameters lie in the sector of the day-start rainfall.              *)
EXTENDS StationFlash
MCValues == {[i \in 0..2 |-> <<v, i>>] : v \in {"old", "new"}}
MCBlocks == {[first |-> 0, len |-> 3], [first |-> 3, len |-> 3], [first |-> 6, len |-> 2]}
=============================================================================
