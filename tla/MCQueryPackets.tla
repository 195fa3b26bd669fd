---------------------------- MODULE MCQueryPackets ----------------------------
(***************************************************************************)
(* QueryPackets for TLC: queries around the ends of months and days, in a  *)
(* leap year and in others, and one whose end is before its beginning.     *)
(***************************************************************************)
EXTENDS QueryPackets

At(y, m, d, h) == [year |-> y, month |-> m, day |-> d, hour |-> h, minute |-> 0]

\* First and last times of short queries.
Spans ==
  {<<At(25, 3, 1, 7), At(25, 3, 1, f)>> : f \in {8, 19, 20}}
  \union {<<At(y, 2, 28, h), At(y, 3, 1, g)>> : y \in {24, 25}, h \in {20, 23}, g \in {0, 7}}
  \union {<<At(25, 6, 30, 0), At(25, 7, 1, 11)>>, <<At(25, 6, 30, 0), At(25, 7, 1, 0)>>,
          <<At(24, 3, 5, 4), At(24, 3, 5, 0)>>, <<At(25, 12, 31, 9), At(25, 12, 31, 0)>>,
          <<At(24, 1, 31, 20), At(24, 2, 1, 20)>>, <<At(24, 12, 31, 20), At(25, 1, 1, 4)>>, <<At(25, 7, 1, 4), At(25, 6, 30, 4)>>,
          <<At(24, 2, 29, 20), At(24, 3, 1, 4)>>, <<At(24, 3, 5, 20), At(25, 3, 1, 4)>>}

MCPeriods == {[first |-> s[1], last |-> s[2], kind |-> k] : s \in Spans, k \in {"rain", "water", "other"}}

\* And queries of up to three days.
MCLongPeriods == {[first |-> At(25, 6, 29, 0), last |-> At(25, 7, 2, h), kind |-> k] : h \in {0, 5}, k \in Kinds}
===============================================================================
