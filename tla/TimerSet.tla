------------------------------ MODULE TimerSet ------------------------------
(***************************************************************************)
(* What lwIP's list of timeouts stands for: a set of armed timers, each    *)
(* with the time it has left.  Time passes for all of them alike; the one  *)
(* with the least time left fires, after that time, and may be armed anew. *)
(* Module LwipTimers keeps the set as a list of differences.               *)
(***************************************************************************)
EXTENDS Integers

CONSTANTS Timers, Interval, Off

VARIABLE left     \* milliseconds left, or Off

\* A timer is off, or has just been armed.
Init == \A h \in Timers : left[h] \in {Off, Interval[h]}

Armed == {h \in Timers : left[h] # Off}

Passed(d) == [h \in Timers |-> IF left[h] = Off THEN Off ELSE left[h] - d]

Arm(h) == left[h] = Off /\ left' = [left EXCEPT ![h] = Interval[h]]

(* Less time than any timer has left goes by, or all that the next has.    *)
Elapse == \E d \in 1 .. Interval[CHOOSE h \in Timers : \A g \in Timers : Interval[h] >= Interval[g]] :
            (\A h \in Armed : d <= left[h]) /\ left' = Passed(d)

Fire(h) ==
  /\ h \in Armed
  /\ \A g \in Armed : left[h] <= left[g]
  /\ \/ left' = [Passed(left[h]) EXCEPT ![h] = Off]
     \/ left' = [Passed(left[h]) EXCEPT ![h] = Interval[h]]

Next == Elapse \/ \E h \in Timers : Arm(h) \/ Fire(h)

Spec == Init /\ [][Next]_left
=============================================================================
