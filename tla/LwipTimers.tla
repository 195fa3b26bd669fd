----------------------------- MODULE LwipTimers -----------------------------
(***************************************************************************)
(* The TCP/IP thread waits for messages and runs lwIP's timers meanwhile:  *)
(* sys_timeouts_mbox_fetch (lwIP core/timers.c) over sys_arch_mbox_fetch   *)
(* (LWIP/arch/sys_arch.c), which waits in OSQPend and reports the time it  *)
(* has waited, computed from the kernel's 32-bit tick counter.             *)
(*                                                                         *)
(* In this build the timers are those of TCP, IP reassembly and ARP; the   *)
(* TCP timer runs while there are connections, the others for ever.        *)
(***************************************************************************)
EXTENDS Integers, Sequences, FiniteSets

CONSTANTS
  Timers, TcpTimer,
  Interval,       \* milliseconds, by timer
  TicksPerSec,    \* OS_TICKS_PER_SEC
  WordMax,        \* 2^w - 1, the largest value of a u32_t
  ClockValues     \* what OSTimeGet may return when a wait begins

\* lwipopts.h leaves on, beside TCP, the timers of IP reassembly and of ARP.
ASSUME TimersAssumption ==
  /\ \E ip, arp \in Timers \ {TcpTimer} : ip # arp /\ Timers = {ip, arp, TcpTimer}
  /\ Interval \in [Timers -> Nat \ {0}]

ASSUME ClockAssumption ==
  TicksPerSec \in Nat \ {0} /\ WordMax \in Nat /\ ClockValues \subseteq 0 .. WordMax

VARIABLES
  timeouts,    \* next_timeout: each entry's time counts from its predecessor's
  tcpActive,   \* tcpip_tcp_timer_active
  pcbs,        \* tcp_active_pcbs or tcp_tw_pcbs is not empty
  pc,          \* "fetch": in sys_timeouts_mbox_fetch, "handle": it has a message
  lived        \* of an armed timer: milliseconds gone by, and one tick for each wait,
               \* up to its interval (a record for the properties, not in the code)

vars == <<timeouts, tcpActive, pcbs, pc, lived>>

-----------------------------------------------------------------------------
\* When the k-th entry of a list of differences is due.
SumUpTo(list, k) ==
  LET sum[i \in 0 .. Len(list)] == IF i = 0 THEN 0 ELSE sum[i - 1] + list[i].time IN sum[k]

\* Mutant of sys_timeout: the successor keeps counting from its old predecessor.
sys_timeoutKeepsNext(list, h) ==
  LET k == Cardinality({i \in 1 .. Len(list) : SumUpTo(list, i) <= Interval[h]})
  IN  SubSeq(list, 1, k) \o <<[h |-> h, time |-> Interval[h] - SumUpTo(list, k)]>>
        \o SubSeq(list, k + 1, Len(list))

(* sys_timeout: the new entry goes behind all that are due no later, and   *)
(* its successor counts from it.                                           *)
sys_timeout(list, h) ==
  LET msecs == Interval[h]
      k     == Cardinality({i \in 1 .. Len(list) : SumUpTo(list, i) <= msecs})
      time  == msecs - SumUpTo(list, k)
      rest  == SubSeq(list, k + 1, Len(list))
  IN  SubSeq(list, 1, k) \o <<[h |-> h, time |-> time]>>
        \o (IF rest = << >> THEN << >>
            ELSE <<[Head(rest) EXCEPT !.time = @ - time]>> \o Tail(rest))

(* The wait in ticks, at least one.                                        *)
Ticks(msecs) ==
  LET t == (msecs * TicksPerSec) \div 1000 IN IF t < 1 THEN 1 ELSE t

Millis(ticks) == (ticks * 1000) \div TicksPerSec

\* Mutant of TimeNeeded: the time in full ticks only, nothing for a wait within one.
TimeNeededFullTicks(t0, ticks) == (ticks * 1000) \div TicksPerSec

(* What sys_arch_mbox_fetch reports of a wait of some ticks that began at  *)
(* clock value t0: unsigned arithmetic, every step modulo 2^w.             *)
TimeNeeded(t0, ticks) ==
  LET new  == (t0 + ticks) % (WordMax + 1)
      diff == IF new > t0 THEN new - t0 ELSE (WordMax - t0) + new
  IN  ((diff * 1000) % (WordMax + 1)) \div TicksPerSec + 1

Grown(ms) ==
  [h \in Timers |-> LET l == lived[h] + ms + Millis(1) IN IF l < Interval[h] THEN l ELSE Interval[h]]

-----------------------------------------------------------------------------
(* sys_timeouts_init arms the timer of IP reassembly, then the slower one  *)
(* of ARP; the TCP timer is off.                                           *)
Init ==
  /\ \E ip, arp \in Timers \ {TcpTimer} :
       /\ ip # arp /\ Interval[ip] <= Interval[arp]
       /\ timeouts = sys_timeout(sys_timeout(<< >>, ip), arp)
  /\ tcpActive = FALSE
  /\ pcbs = FALSE
  /\ pc = "fetch"
  /\ lived = [h \in Timers |-> 0]

(* A message comes while the thread waits for the next timer.              *)
FetchMessage(t0, ticks) ==
  LET needed == TimeNeeded(t0, ticks)
      next   == Head(timeouts)
  IN  /\ pc = "fetch"
      /\ next.time > 0
      /\ ticks <= Ticks(next.time)
      /\ timeouts' = <<[next EXCEPT !.time = IF needed < @ THEN @ - needed ELSE 0]>>
                       \o Tail(timeouts)
      /\ pc' = "handle"
      /\ lived' = Grown(Millis(ticks))
      /\ UNCHANGED <<tcpActive, pcbs>>

\* Mutant of Expire: the TCP timer stops without clearing tcpip_tcp_timer_active.
ExpireKeepsFlag ==
  LET next == Head(timeouts)
  IN  /\ pc = "fetch"
      /\ pcbs' \in (IF next.h = TcpTimer THEN {FALSE, pcbs} ELSE {pcbs})
      /\ timeouts' = IF next.h = TcpTimer /\ ~pcbs' THEN Tail(timeouts)
                     ELSE sys_timeout(Tail(timeouts), next.h)
      /\ lived' = [Grown(Millis(IF next.time > 0 THEN Ticks(next.time) ELSE 0)) EXCEPT ![next.h] = 0]
      /\ UNCHANGED <<tcpActive, pc>>

(* The next timer's time is up, at once when it is 0: its handler runs.    *)
(* tcpip_tcp_timer arms itself while there are connections; tcp_tmr may    *)
(* have closed the last one.  The other handlers always arm themselves.    *)
Expire ==
  LET next == Head(timeouts)
      wait == IF next.time > 0 THEN Ticks(next.time) ELSE 0
  IN  /\ pc = "fetch"
      /\ \/ /\ next.h # TcpTimer
            /\ timeouts' = sys_timeout(Tail(timeouts), next.h)
            /\ UNCHANGED <<tcpActive, pcbs>>
         \/ /\ next.h = TcpTimer
            /\ pcbs' \in {FALSE, pcbs}
            /\ tcpActive' = pcbs'
            /\ timeouts' = IF pcbs' THEN sys_timeout(Tail(timeouts), next.h) ELSE Tail(timeouts)
      /\ lived' = [Grown(Millis(wait)) EXCEPT ![next.h] = 0]
      /\ UNCHANGED pc

(* The message is handled: connections come, and TCP_REG starts the timer  *)
(* if it is off (tcp_timer_needed); the last one may go; or nothing.       *)
HandleMessage ==
  /\ pc = "handle"
  /\ pc' = "fetch"
  /\ \/ UNCHANGED <<timeouts, tcpActive, pcbs, lived>>
     \/ pcbs' = FALSE /\ UNCHANGED <<timeouts, tcpActive, lived>>
     \/ /\ pcbs' = TRUE
        /\ tcpActive' = TRUE
        /\ IF tcpActive THEN UNCHANGED <<timeouts, lived>>
           ELSE /\ timeouts' = sys_timeout(timeouts, TcpTimer)
                /\ lived' = [lived EXCEPT ![TcpTimer] = 0]

Next ==
  \/ \E t0 \in ClockValues, ticks \in 0 .. Ticks(Head(timeouts).time) : FetchMessage(t0, ticks)
  \/ Expire
  \/ HandleMessage

(* The thread's loop never stops; messages may come all the time.          *)
Spec == Init /\ [][Next]_vars /\ WF_vars(Next)

-----------------------------------------------------------------------------
TypeOK ==
  /\ timeouts \in Seq([h : Timers, time : Nat])
  /\ tcpActive \in BOOLEAN /\ pcbs \in BOOLEAN
  /\ pc \in {"fetch", "handle"}
  /\ lived \in [Timers -> Nat]

(* No timer is in the list twice, the ARP and IP timers are never missing, *)
(* and the TCP timer is in it exactly when tcpip_tcp_timer_active says so; *)
(* whenever there are connections it runs.  tcp_timer_needed starts it, the*)
(* handler stops it, and connections come and go in between.               *)
InList(h) == \E i \in 1 .. Len(timeouts) : timeouts[i].h = h

TimersRun ==
  /\ \A i, j \in 1 .. Len(timeouts) : timeouts[i].h = timeouts[j].h => i = j
  /\ \A h \in Timers \ {TcpTimer} : InList(h)
  /\ InList(TcpTimer) <=> tcpActive
  /\ pcbs => tcpActive

(* The list of differences is a set of timers that all see the same time:  *)
(* every step of the thread is a step of TimerSet, so inserting, firing    *)
(* and subtracting a wait from the first entry change no other timer.      *)
LeftOf(h) ==
  IF InList(h) THEN SumUpTo(timeouts, CHOOSE i \in 1 .. Len(timeouts) : timeouts[i].h = h)
  ELSE -1

Set == INSTANCE TimerSet WITH Off <- -1, left <- [h \in Timers |-> LeftOf(h)]

KeepsTimerSet == Set!Spec

(* Every timer that runs fires again, however many messages come: each     *)
(* wait is charged at least one millisecond.                               *)
EveryTimerFires ==
  \A h \in Timers : (InList(h) /\ lived[h] > 0) ~> (lived[h] = 0)

(* No timer fires before the time it was armed for has gone by, give or    *)
(* take one tick for every wait since (timers.c:257).  The code does not   *)
(* keep it: a message in the tick of the fetch is charged a whole wrap of  *)
(* the clock.  README, section 3.                                          *)
NoTimerEarly ==
  [][\A h \in Timers : lived[h] # 0 /\ lived'[h] = 0 /\ InList(h) =>
       lived[h] + Millis(Ticks(Head(timeouts).time)) + Millis(1) >= Interval[h]]_vars
=============================================================================
