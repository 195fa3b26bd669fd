---------------------------- MODULE KernelProofs ----------------------------
(***************************************************************************)
(* Proofs about the kernel services, for every set of priorities, every    *)
(* queue length, every semaphore limit and all timeouts.                   *)
(***************************************************************************)
EXTENDS Kernel, SequenceTheorems, TLAPS

(* The ring: OSQIn is the slot behind the last stored message.             *)
RingTrue == OSQIn = Slot(OSQEntries)

IInv == TypeOK /\ ReadyListTrue /\ CallsAccountedFor /\ NoIdleWait /\ RingTrue

USE PriosAssumption, MsgsAssumption, QSizeAssumption, SemMaxAssumption,
    TimeoutsAssumption

-----------------------------------------------------------------------------
(* What the helpers do to one control block and to the ready list.         *)
\* A control block with some of its fields set is a control block.
LEMMA FieldsType ==
  ASSUME NEW b \in TCB, NEW p \in {"RDY", "Q", "SEM"}, NEW s \in BOOLEAN, NEW o \in {"OK", "TO"},
         NEW d \in Nat, NEW m \in Msgs \cup {NoMsg}
  PROVE  /\ [b EXCEPT !.pend = p, !.statPend = o, !.dly = d] \in TCB
         /\ [b EXCEPT !.dly = d, !.msg = m, !.pend = p, !.statPend = o] \in TCB
         /\ [b EXCEPT !.pend = p, !.susp = s, !.statPend = o, !.msg = m] \in TCB
         /\ [b EXCEPT !.pend = p, !.susp = s, !.statPend = o] \in TCB
         /\ [b EXCEPT !.susp = s] \in TCB
         /\ [b EXCEPT !.dly = d] \in TCB
<1>1. [b EXCEPT !.pend = p, !.statPend = o, !.dly = d] \in TCB
  BY DEF TCB
<1>2. [b EXCEPT !.dly = d, !.msg = m, !.pend = p, !.statPend = o] \in TCB
  BY DEF TCB
<1>3. [b EXCEPT !.pend = p, !.susp = s, !.statPend = o, !.msg = m] \in TCB
  BY DEF TCB
<1>4. [b EXCEPT !.pend = p, !.susp = s, !.statPend = o] \in TCB
  BY DEF TCB
<1>5. [b EXCEPT !.susp = s] \in TCB
  BY DEF TCB
<1>6. [b EXCEPT !.dly = d] \in TCB
  BY DEF TCB
<1> QED
  BY <1>1, <1>2, <1>3, <1>4, <1>5, <1>6

LEMMA EventTaskWaitType ==
  ASSUME TypeOK, NEW t \in Prios, NEW e \in {"Q", "SEM"}, NEW n \in Timeouts,
         EventTaskWait(t, e, n)
  PROVE  tcb' \in [Prios -> TCB] /\ ready' \subseteq Prios
<1>1. tcb \in [Prios -> TCB] /\ tcb[t] \in TCB /\ ready \subseteq Prios
  BY DEF TypeOK
<1>2. PICK b \in TCB : b = [tcb[t] EXCEPT !.pend = e, !.statPend = "OK", !.dly = n]
  BY <1>1, FieldsType
<1>3. tcb' = [tcb EXCEPT ![t] = b] /\ ready' = ready \ {t}
  BY <1>2 DEF EventTaskWait
<1> QED
  BY <1>1, <1>3

\* OS_EventTaskRdy keeps the types.
LEMMA EventTaskRdyType ==
  ASSUME TypeOK, NEW t \in Prios, NEW m \in Msgs \cup {NoMsg}, EventTaskRdy(t, m)
  PROVE  tcb' \in [Prios -> TCB] /\ ready' \subseteq Prios
<1>1. tcb \in [Prios -> TCB] /\ tcb[t] \in TCB /\ ready \subseteq Prios
  BY DEF TypeOK
<1>2. PICK b \in TCB : b = [tcb[t] EXCEPT !.dly = 0, !.msg = m, !.pend = "RDY", !.statPend = "OK"]
  BY <1>1, FieldsType
<1>3. tcb' = [tcb EXCEPT ![t] = b] /\ (ready' = ready \/ ready' = ready \cup {t})
  BY <1>2 DEF EventTaskRdy
<1> QED
  BY <1>1, <1>3

\* What OS_EventTaskRdy does to the task it readies, and that it touches no other.
LEMMA EventTaskRdyFields ==
  ASSUME TypeOK, NEW t \in Prios, NEW m \in Msgs \cup {NoMsg}, EventTaskRdy(t, m)
  PROVE  /\ tcb'[t].dly = 0 /\ tcb'[t].msg = m /\ tcb'[t].pend = "RDY"
         /\ tcb'[t].statPend = "OK" /\ tcb'[t].susp = tcb[t].susp
         /\ \A u \in Prios : u # t => tcb'[u] = tcb[u] /\ (u \in ready' <=> u \in ready)
         /\ t \in ready' <=> t \in ready \/ ~tcb[t].susp
<1>1. tcb[t] \in TCB /\ tcb'[t] = [tcb[t] EXCEPT !.dly = 0, !.msg = m, !.pend = "RDY",
                                                !.statPend = "OK"]
  BY DEF EventTaskRdy, TypeOK
<1>2. \A u \in Prios : u # t => tcb'[u] = tcb[u] /\ (u \in ready' <=> u \in ready)
  BY DEF EventTaskRdy, TypeOK
<1>3. t \in ready' <=> t \in ready \/ ~tcb[t].susp
  BY DEF EventTaskRdy
<1> QED
  BY <1>1, <1>2, <1>3 DEF TCB

\* A tick keeps the type of a control block.
LEMMA TickedType ==
  ASSUME NEW b \in TCB
  PROVE  Ticked(b) \in TCB
<1>1. b.dly \in Nat
  BY DEF TCB
<1>2. CASE b.dly = 0
  BY <1>2 DEF Ticked
<1>3. CASE b.dly > 1
  <2>1. b.dly - 1 \in Nat /\ b.dly # 0
    BY <1>1, <1>3
  <2>2. [b EXCEPT !.dly = b.dly - 1] \in TCB
    BY <2>1 DEF TCB
  <2> QED
    BY <1>3, <2>1, <2>2 DEF Ticked
<1>4. CASE b.dly = 1
  <2>1. b.dly # 0 /\ ~(b.dly > 1)
    BY <1>4
  <2>2. Ticked(b) = [b EXCEPT !.dly = 0, !.pend = "RDY",
                     !.statPend = IF b.pend = "RDY" THEN "OK" ELSE "TO"]
    BY <2>1 DEF Ticked
  <2>3. \A s \in {"OK", "TO"} : [b EXCEPT !.dly = 0, !.pend = "RDY", !.statPend = s] \in TCB
    BY DEF TCB
  <2> QED
    BY <2>2, <2>3, Zenon
<1> QED
  BY <1>1, <1>2, <1>3, <1>4

\* What a tick does to a control block, field by field.
LEMMA TickedFields ==
  ASSUME NEW b \in TCB
  PROVE  /\ Ticked(b).susp = b.susp /\ Ticked(b).msg = b.msg
         /\ b.dly = 0 => Ticked(b) = b
         /\ b.dly > 1 => /\ Ticked(b).dly = b.dly - 1
                         /\ Ticked(b).pend = b.pend /\ Ticked(b).statPend = b.statPend
         /\ b.dly = 1 => /\ Ticked(b).dly = 0 /\ Ticked(b).pend = "RDY"
                         /\ b.pend = "RDY" => Ticked(b).statPend = "OK"
                         /\ b.pend # "RDY" => Ticked(b).statPend = "TO"
<1>1. b.dly \in Nat
  BY DEF TCB
<1>2. CASE b.dly = 0
  BY <1>2 DEF Ticked
<1>3. CASE b.dly > 1
  BY <1>1, <1>3 DEF Ticked, TCB
<1>4. CASE b.dly = 1
  <2>1. CASE b.pend = "RDY"
    BY <1>4, <2>1 DEF Ticked, TCB
  <2>2. CASE b.pend # "RDY"
    BY <1>4, <2>2 DEF Ticked, TCB
  <2> QED
    BY <2>1, <2>2
<1> QED
  BY <1>1, <1>2, <1>3, <1>4

\* The next slot is a slot.
LEMMA NextSlotType ==
  ASSUME NEW p \in 0 .. QSize - 1
  PROVE  NextSlot(p) \in 0 .. QSize - 1
  BY DEF NextSlot

\* The boot state satisfies every part of the invariant.
THEOREM InitInv == Init => IInv
  BY DEF Init, IInv, TypeOK, TCB, ReadyListTrue, CallsAccountedFor, AccountedFor, NoIdleWait,
         RingTrue, Slot, AccountedFor, WaitState

\* Types are kept: a ring pointer wraps, a count is tested before it grows or shrinks.
LEMMA TypeStep == IInv /\ [Next]_vars => TypeOK'
<1> SUFFICES ASSUME IInv, [Next]_vars PROVE TypeOK'
  OBVIOUS
<1> USE DEF IInv
<1>1. ASSUME NEW t \in Prios, QPendTake(t) PROVE TypeOK'
  <2>1. ring[OSQOut] \in Msgs \cup {NoMsg} /\ OSQEntries - 1 \in 0 .. QSize
        /\ NextSlot(OSQOut) \in 0 .. QSize - 1
    BY <1>1, NextSlotType DEF QPendTake, TypeOK
  <2>2. returned' \in Msgs \cup {NoMsg} /\ OSQEntries' \in 0 .. QSize /\ OSQOut' \in 0 .. QSize - 1
        /\ UNCHANGED <<tcb, ready, call, ring, OSQIn, qWait, semWait, OSEventCnt>>
    BY <1>1, <2>1 DEF QPendTake, semVars
  <2> QED
    BY <2>2, Zenon DEF TypeOK
<1>2. ASSUME NEW t \in Prios, NEW n \in Timeouts, QPendWait(t, n) PROVE TypeOK'
  BY <1>2, EventTaskWaitType DEF QPendWait, semVars, TypeOK
<1>3. ASSUME NEW t \in Prios, QPendReturn(t) PROVE TypeOK'
  <2>1. tcb[t] \in TCB /\ tcb[t].msg \in Msgs \cup {NoMsg}
    BY DEF TypeOK, TCB
  <2>2. PICK b \in TCB : b = [tcb[t] EXCEPT !.pend = "RDY", !.susp = FALSE, !.statPend = "OK", !.msg = NoMsg]
    BY <2>1, FieldsType
  <2>3. tcb' = [tcb EXCEPT ![t] = b] /\ call' = [call EXCEPT ![t] = "none"]
    BY <1>3, <2>2 DEF QPendReturn
  <2>4. tcb' \in [Prios -> TCB] /\ call' \in [Prios -> {"none", "OSQPend", "OSSemPend"}]
    BY <2>3 DEF TypeOK
  <2>5. /\ returned' \in Msgs \cup {NoMsg} /\ qWait' \subseteq Prios
        /\ UNCHANGED <<ready, ring, OSQIn, OSQOut, OSQEntries, semWait, OSEventCnt>>
    BY <1>3, <2>1 DEF QPendReturn, semVars, TypeOK
  <2> QED
    BY <2>4, <2>5, Zenon DEF TypeOK
<1>4. ASSUME NEW m \in Msgs, QPostGive(m) PROVE TypeOK'
  BY <1>4, EventTaskRdyType DEF QPostGive, semVars, TypeOK
<1>5. ASSUME NEW m \in Msgs, QPostStore(m) PROVE TypeOK'
  BY <1>5, NextSlotType DEF QPostStore, semVars, TypeOK
<1>6. ASSUME NEW t \in Prios, SemPendTake(t) PROVE TypeOK'
  BY <1>6 DEF SemPendTake, queueVars, TypeOK
<1>7. ASSUME NEW t \in Prios, NEW n \in Timeouts, SemPendWait(t, n) PROVE TypeOK'
  BY <1>7, EventTaskWaitType DEF SemPendWait, queueVars, TypeOK
<1>8. ASSUME NEW t \in Prios, SemPendReturn(t) PROVE TypeOK'
  <2>1. tcb[t] \in TCB
    BY DEF TypeOK
  <2>2. PICK b \in TCB : b = [tcb[t] EXCEPT !.pend = "RDY", !.susp = FALSE, !.statPend = "OK"]
    BY <2>1, FieldsType
  <2>3. tcb' = [tcb EXCEPT ![t] = b] /\ call' = [call EXCEPT ![t] = "none"]
    BY <1>8, <2>2 DEF SemPendReturn
  <2>4. tcb' \in [Prios -> TCB] /\ call' \in [Prios -> {"none", "OSQPend", "OSSemPend"}]
    BY <2>3 DEF TypeOK
  <2>5. /\ semWait' \subseteq Prios
        /\ UNCHANGED <<ready, ring, OSQIn, OSQOut, OSQEntries, qWait, returned, OSEventCnt>>
    BY <1>8 DEF SemPendReturn, queueVars, TypeOK
  <2> QED
    BY <2>4, <2>5, Zenon DEF TypeOK
<1>9. ASSUME SemPost PROVE TypeOK'
  <2>1. CASE semWait = {} /\ OSEventCnt < SemMax /\ OSEventCnt' = OSEventCnt + 1
             /\ UNCHANGED <<tcb, ready, semWait>>
    BY <1>9, <2>1 DEF SemPost, queueVars, TypeOK
  <2>2. ASSUME NEW h \in Prios, EventTaskRdy(h, NoMsg), semWait' = semWait \ {h},
               UNCHANGED OSEventCnt
        PROVE  TypeOK'
    <3>1. tcb' \in [Prios -> TCB] /\ ready' \subseteq Prios
      BY <2>2, EventTaskRdyType
    <3> QED
      BY <1>9, <2>2, <3>1 DEF SemPost, queueVars, TypeOK
  <2> QED
    BY <1>9, <2>1, <2>2 DEF SemPost
<1>10. ASSUME NEW t \in Prios, NEW p \in Prios, OSTaskSuspend(t, p) PROVE TypeOK'
  <2>1. PICK b \in TCB : b = [tcb[p] EXCEPT !.susp = TRUE]
    BY FieldsType DEF TypeOK
  <2>2. tcb' = [tcb EXCEPT ![p] = b] /\ ready' = ready \ {p}
        /\ UNCHANGED <<call, ring, OSQIn, OSQOut, OSQEntries, qWait, returned, semWait, OSEventCnt>>
    BY <1>10, <2>1 DEF OSTaskSuspend, queueVars, semVars
  <2>3. tcb' \in [Prios -> TCB] /\ ready' \subseteq Prios
    BY <2>2 DEF TypeOK
  <2> QED
    BY <2>2, <2>3, Zenon DEF TypeOK
<1>11. ASSUME NEW t \in Prios, NEW p \in Prios, OSTaskResume(t, p) PROVE TypeOK'
  <2>1. PICK b \in TCB : b = [tcb[p] EXCEPT !.susp = FALSE]
    BY FieldsType DEF TypeOK
  <2>2. tcb' = [tcb EXCEPT ![p] = b] /\ (ready' = ready \/ ready' = ready \cup {p})
        /\ UNCHANGED <<call, ring, OSQIn, OSQOut, OSQEntries, qWait, returned, semWait, OSEventCnt>>
    BY <1>11, <2>1 DEF OSTaskResume, queueVars, semVars
  <2>3. tcb' \in [Prios -> TCB] /\ ready' \subseteq Prios
    BY <2>2 DEF TypeOK
  <2> QED
    BY <2>2, <2>3, Zenon DEF TypeOK
<1>12. ASSUME NEW t \in Prios, NEW n \in Timeouts, OSTimeDly(t, n) PROVE TypeOK'
  <2>1. PICK b \in TCB : b = [tcb[t] EXCEPT !.dly = n]
    BY FieldsType DEF TypeOK
  <2>2. tcb' = [tcb EXCEPT ![t] = b] /\ ready' = ready \ {t}
        /\ UNCHANGED <<call, ring, OSQIn, OSQOut, OSQEntries, qWait, returned, semWait, OSEventCnt>>
    BY <1>12, <2>1 DEF OSTimeDly, queueVars, semVars
  <2>3. tcb' \in [Prios -> TCB] /\ ready' \subseteq Prios
    BY <2>2 DEF TypeOK
  <2> QED
    BY <2>2, <2>3, Zenon DEF TypeOK
<1>13. ASSUME OSTimeTick PROVE TypeOK'
  BY <1>13, TickedType DEF OSTimeTick, queueVars, semVars, TypeOK
<1>14. ASSUME UNCHANGED vars PROVE TypeOK'
  BY <1>14 DEF vars, queueVars, semVars, TypeOK
<1> QED
  BY <1>1, <1>2, <1>3, <1>4, <1>5, <1>6, <1>7, <1>8, <1>9, <1>10, <1>11, <1>12,
     <1>13, <1>14 DEF Next, Step

\* Whoever changes a control block changes the ready list with it.
LEMMA ReadyStep == IInv /\ [Next]_vars => ReadyListTrue'
<1> SUFFICES ASSUME IInv, [Next]_vars PROVE ReadyListTrue'
  OBVIOUS
<1> USE DEF IInv, Running, Free, ReadyListTrue, TypeOK, TCB, IsHighest
<1>1. ASSUME NEW t \in Prios, QPendTake(t) PROVE ReadyListTrue'
  BY <1>1 DEF QPendTake, semVars
<1>2. ASSUME NEW t \in Prios, NEW n \in Timeouts, QPendWait(t, n) PROVE ReadyListTrue'
  BY <1>2 DEF QPendWait, EventTaskWait, semVars
<1>3. ASSUME NEW t \in Prios, QPendReturn(t) PROVE ReadyListTrue'
  BY <1>3 DEF QPendReturn, semVars
<1>4. ASSUME NEW m \in Msgs, QPostGive(m) PROVE ReadyListTrue'
  BY <1>4 DEF QPostGive, EventTaskRdy, IsHighest, semVars
<1>5. ASSUME NEW m \in Msgs, QPostStore(m) PROVE ReadyListTrue'
  BY <1>5 DEF QPostStore, semVars
<1>6. ASSUME NEW t \in Prios, SemPendTake(t) PROVE ReadyListTrue'
  BY <1>6 DEF SemPendTake, queueVars
<1>7. ASSUME NEW t \in Prios, NEW n \in Timeouts, SemPendWait(t, n) PROVE ReadyListTrue'
  BY <1>7 DEF SemPendWait, EventTaskWait, queueVars
<1>8. ASSUME NEW t \in Prios, SemPendReturn(t) PROVE ReadyListTrue'
  BY <1>8 DEF SemPendReturn, queueVars
<1>9. ASSUME SemPost PROVE ReadyListTrue'
  <2>1. CASE semWait = {} /\ UNCHANGED <<tcb, ready, semWait>>
    BY <1>9, <2>1 DEF SemPost, queueVars
  <2>2. ASSUME NEW h \in Prios, h \in semWait, EventTaskRdy(h, NoMsg),
               semWait' = semWait \ {h}
        PROVE  ReadyListTrue'
    <3>1. UNCHANGED <<call, qWait>>
      BY <1>9 DEF SemPost, queueVars
    <3>2. tcb[h].susp \in BOOLEAN
      BY <2>2
    <3> HIDE DEF TCB, TypeOK, ReadyListTrue, CallsAccountedFor, NoIdleWait, RingTrue
    <3>3. /\ tcb'[h].dly = 0 /\ tcb'[h].pend = "RDY" /\ tcb'[h].susp = tcb[h].susp
          /\ \A u \in Prios : u # h => tcb'[u] = tcb[u] /\ (u \in ready' <=> u \in ready)
          /\ h \in ready' <=> h \in ready \/ ~tcb[h].susp
      BY <2>2, EventTaskRdyFields
    <3> QED
      BY <3>2, <3>3 DEF ReadyListTrue
  <2> QED
    BY <1>9, <2>1, <2>2 DEF SemPost, IsHighest
<1>10. ASSUME NEW t \in Prios, NEW p \in Prios, OSTaskSuspend(t, p) PROVE ReadyListTrue'
  BY <1>10 DEF OSTaskSuspend, queueVars, semVars
<1>11. ASSUME NEW t \in Prios, NEW p \in Prios, OSTaskResume(t, p) PROVE ReadyListTrue'
  BY <1>11 DEF OSTaskResume, queueVars, semVars
<1>12. ASSUME NEW t \in Prios, NEW n \in Timeouts, OSTimeDly(t, n) PROVE ReadyListTrue'
  BY <1>12 DEF OSTimeDly, queueVars, semVars
<1>13. ASSUME OSTimeTick PROVE ReadyListTrue'
  <2>1. TAKE u \in Prios
  <2>2. tcb'[u] = Ticked(tcb[u]) /\ tcb[u] \in TCB
    BY <1>13 DEF OSTimeTick
  <2>3. u \in ready' <=> u \in ready \/ (tcb[u].dly = 1 /\ ~tcb[u].susp)
    BY <1>13 DEF OSTimeTick
  <2>4. tcb[u].dly \in Nat
    BY <2>2
  <2> HIDE DEF TCB
  <2> QED
    BY <2>2, <2>3, <2>4, TickedFields
<1>14. ASSUME UNCHANGED vars PROVE ReadyListTrue'
  BY <1>14 DEF vars, queueVars, semVars
<1> QED
  BY <1>1, <1>2, <1>3, <1>4, <1>5, <1>6, <1>7, <1>8, <1>9, <1>10, <1>11, <1>12, <1>13, <1>14 DEF Next, Step

\* Who finds a message or a unit takes it; who posts looks for a waiter first.
LEMMA NoIdleStep == IInv /\ [Next]_vars => NoIdleWait'
<1> SUFFICES ASSUME IInv, [Next]_vars PROVE NoIdleWait'
  OBVIOUS
<1> USE DEF IInv, Running, Free, NoIdleWait, TypeOK
<1>1. ASSUME NEW t \in Prios, QPendTake(t) PROVE NoIdleWait'
  BY <1>1 DEF QPendTake, semVars
<1>2. ASSUME NEW t \in Prios, NEW n \in Timeouts, QPendWait(t, n) PROVE NoIdleWait'
  BY <1>2 DEF QPendWait, EventTaskWait, semVars
<1>3. ASSUME NEW t \in Prios, QPendReturn(t) PROVE NoIdleWait'
  BY <1>3 DEF QPendReturn, semVars
<1>4. ASSUME NEW m \in Msgs, QPostGive(m) PROVE NoIdleWait'
  BY <1>4 DEF QPostGive, EventTaskRdy, IsHighest, semVars
<1>5. ASSUME NEW m \in Msgs, QPostStore(m) PROVE NoIdleWait'
  BY <1>5 DEF QPostStore, semVars
<1>6. ASSUME NEW t \in Prios, SemPendTake(t) PROVE NoIdleWait'
  BY <1>6 DEF SemPendTake, queueVars
<1>7. ASSUME NEW t \in Prios, NEW n \in Timeouts, SemPendWait(t, n) PROVE NoIdleWait'
  BY <1>7 DEF SemPendWait, EventTaskWait, queueVars
<1>8. ASSUME NEW t \in Prios, SemPendReturn(t) PROVE NoIdleWait'
  BY <1>8 DEF SemPendReturn, queueVars
<1>9. ASSUME SemPost PROVE NoIdleWait'
  BY <1>9 DEF SemPost, EventTaskRdy, IsHighest, queueVars
<1>10. ASSUME NEW t \in Prios, NEW p \in Prios, OSTaskSuspend(t, p) PROVE NoIdleWait'
  BY <1>10 DEF OSTaskSuspend, queueVars, semVars
<1>11. ASSUME NEW t \in Prios, NEW p \in Prios, OSTaskResume(t, p) PROVE NoIdleWait'
  BY <1>11 DEF OSTaskResume, queueVars, semVars
<1>12. ASSUME NEW t \in Prios, NEW n \in Timeouts, OSTimeDly(t, n) PROVE NoIdleWait'
  BY <1>12 DEF OSTimeDly, queueVars, semVars
<1>13. ASSUME OSTimeTick PROVE NoIdleWait'
  BY <1>13 DEF OSTimeTick, Ticked, queueVars, semVars
<1>14. ASSUME UNCHANGED vars PROVE NoIdleWait'
  BY <1>14 DEF vars, queueVars, semVars
<1> QED
  BY <1>1, <1>2, <1>3, <1>4, <1>5, <1>6, <1>7, <1>8, <1>9, <1>10, <1>11, <1>12, <1>13, <1>14 DEF Next, Step

\* The two ring pointers stay as far apart as there are entries.
LEMMA RingStep == IInv /\ [Next]_vars => RingTrue'
<1> SUFFICES ASSUME IInv, [Next]_vars PROVE RingTrue'
  OBVIOUS
<1> USE DEF IInv, Running, Free, RingTrue, Slot, NextSlot, TypeOK
<1>1. ASSUME NEW t \in Prios, QPendTake(t) PROVE RingTrue'
  BY <1>1 DEF QPendTake, semVars
<1>2. ASSUME NEW t \in Prios, NEW n \in Timeouts, QPendWait(t, n) PROVE RingTrue'
  BY <1>2 DEF QPendWait, EventTaskWait, semVars
<1>3. ASSUME NEW t \in Prios, QPendReturn(t) PROVE RingTrue'
  BY <1>3 DEF QPendReturn, semVars
<1>4. ASSUME NEW m \in Msgs, QPostGive(m) PROVE RingTrue'
  BY <1>4 DEF QPostGive, EventTaskRdy, IsHighest, semVars
<1>5. ASSUME NEW m \in Msgs, QPostStore(m) PROVE RingTrue'
  BY <1>5 DEF QPostStore, semVars
<1>6. ASSUME NEW t \in Prios, SemPendTake(t) PROVE RingTrue'
  BY <1>6 DEF SemPendTake, queueVars
<1>7. ASSUME NEW t \in Prios, NEW n \in Timeouts, SemPendWait(t, n) PROVE RingTrue'
  BY <1>7 DEF SemPendWait, EventTaskWait, queueVars
<1>8. ASSUME NEW t \in Prios, SemPendReturn(t) PROVE RingTrue'
  BY <1>8 DEF SemPendReturn, queueVars
<1>9. ASSUME SemPost PROVE RingTrue'
  BY <1>9 DEF SemPost, EventTaskRdy, IsHighest, queueVars
<1>10. ASSUME NEW t \in Prios, NEW p \in Prios, OSTaskSuspend(t, p) PROVE RingTrue'
  BY <1>10 DEF OSTaskSuspend, queueVars, semVars
<1>11. ASSUME NEW t \in Prios, NEW p \in Prios, OSTaskResume(t, p) PROVE RingTrue'
  BY <1>11 DEF OSTaskResume, queueVars, semVars
<1>12. ASSUME NEW t \in Prios, NEW n \in Timeouts, OSTimeDly(t, n) PROVE RingTrue'
  BY <1>12 DEF OSTimeDly, queueVars, semVars
<1>13. ASSUME OSTimeTick PROVE RingTrue'
  BY <1>13 DEF OSTimeTick, Ticked, queueVars, semVars
<1>14. ASSUME UNCHANGED vars PROVE RingTrue'
  BY <1>14 DEF vars, queueVars, semVars
<1> QED
  BY <1>1, <1>2, <1>3, <1>4, <1>5, <1>6, <1>7, <1>8, <1>9, <1>10, <1>11, <1>12, <1>13, <1>14 DEF Next, Step

\* A call is resolved by the post, by the tick, or by its own return.
LEMMA CallsStep == IInv /\ [Next]_vars => CallsAccountedFor'
<1> SUFFICES ASSUME IInv, [Next]_vars PROVE CallsAccountedFor'
  OBVIOUS
<1> USE DEF IInv, Running, Free, CallsAccountedFor, AccountedFor, WaitState, ReadyListTrue,
       TypeOK, TCB, IsHighest
<1>1. ASSUME NEW t \in Prios, QPendTake(t) PROVE CallsAccountedFor'
  BY <1>1 DEF QPendTake, semVars
<1>2. ASSUME NEW t \in Prios, NEW n \in Timeouts, QPendWait(t, n) PROVE CallsAccountedFor'
  BY <1>2 DEF QPendWait, EventTaskWait, semVars
<1>3. ASSUME NEW t \in Prios, QPendReturn(t) PROVE CallsAccountedFor'
  BY <1>3 DEF QPendReturn, semVars
<1>4. ASSUME NEW m \in Msgs, QPostGive(m) PROVE CallsAccountedFor'
  BY <1>4 DEF QPostGive, EventTaskRdy, IsHighest, semVars
<1>5. ASSUME NEW m \in Msgs, QPostStore(m) PROVE CallsAccountedFor'
  BY <1>5 DEF QPostStore, semVars
<1>6. ASSUME NEW t \in Prios, SemPendTake(t) PROVE CallsAccountedFor'
  BY <1>6 DEF SemPendTake, queueVars
<1>7. ASSUME NEW t \in Prios, NEW n \in Timeouts, SemPendWait(t, n) PROVE CallsAccountedFor'
  BY <1>7 DEF SemPendWait, EventTaskWait, queueVars
<1>8. ASSUME NEW t \in Prios, SemPendReturn(t) PROVE CallsAccountedFor'
  BY <1>8 DEF SemPendReturn, queueVars
<1>9. ASSUME SemPost PROVE CallsAccountedFor'
  <2>1. CASE semWait = {} /\ UNCHANGED <<tcb, ready, semWait>>
    BY <1>9, <2>1 DEF SemPost, queueVars
  <2>2. ASSUME NEW h \in Prios, h \in semWait, EventTaskRdy(h, NoMsg),
               semWait' = semWait \ {h}
        PROVE  CallsAccountedFor'
    <3>1. UNCHANGED <<call, qWait>>
      BY <1>9 DEF SemPost, queueVars
    <3>2. /\ tcb'[h].dly = 0 /\ tcb'[h].msg = NoMsg /\ tcb'[h].pend = "RDY"
          /\ tcb'[h].statPend = "OK" /\ call[h] = "OSSemPend" /\ h \notin qWait
          /\ h \notin semWait'
      BY <2>2, EventTaskRdyFields
    <3>3. \A u \in Prios : u # h => tcb'[u] = tcb[u] /\ (u \in semWait' <=> u \in semWait)
      BY <2>2, EventTaskRdyFields
    <3>4. TAKE u \in Prios
    <3>5. CASE u = h
      <4> HIDE DEF TCB, TypeOK, ReadyListTrue, CallsAccountedFor
      <4> QED
        BY <3>1, <3>2, <3>5
    <3>6. CASE u # h
      <4>1. AccountedFor(u)
        OBVIOUS
      <4>2. /\ tcb'[u] = tcb[u] /\ call'[u] = call[u]
            /\ u \in semWait' <=> u \in semWait
            /\ u \in qWait' <=> u \in qWait
        BY <3>1, <3>3, <3>6
      <4> HIDE DEF IInv
      <4> QED
        BY <4>1, <4>2
    <3> QED
      BY <3>5, <3>6
  <2> QED
    BY <1>9, <2>1, <2>2 DEF SemPost, IsHighest
<1>10. ASSUME NEW t \in Prios, NEW p \in Prios, OSTaskSuspend(t, p) PROVE CallsAccountedFor'
  BY <1>10 DEF OSTaskSuspend, queueVars, semVars
<1>11. ASSUME NEW t \in Prios, NEW p \in Prios, OSTaskResume(t, p) PROVE CallsAccountedFor'
  BY <1>11 DEF OSTaskResume, queueVars, semVars
<1>12. ASSUME NEW t \in Prios, NEW n \in Timeouts, OSTimeDly(t, n) PROVE CallsAccountedFor'
  BY <1>12 DEF OSTimeDly, queueVars, semVars
<1>13. ASSUME OSTimeTick PROVE CallsAccountedFor'
  <2>1. TAKE u \in Prios
  <2>2. tcb'[u] = Ticked(tcb[u]) /\ tcb[u] \in TCB
    BY <1>13 DEF OSTimeTick
  <2>3. tcb[u].dly \in Nat
    BY <2>2
  <2>4. UNCHANGED <<call, qWait, semWait>>
    BY <1>13 DEF OSTimeTick, queueVars, semVars
  <2> HIDE DEF TCB
  <2>5. CASE tcb[u].dly = 0
    <3>1. tcb'[u] = tcb[u]
      BY <2>2, <2>5, TickedFields
    <3> QED
      BY <2>4, <3>1
  <2>6. CASE tcb[u].dly > 1
    BY <2>2, <2>4, <2>6, TickedFields
  <2>7. CASE tcb[u].dly = 1
    BY <2>2, <2>4, <2>7, TickedFields
  <2> QED
    BY <2>3, <2>5, <2>6, <2>7
<1>14. ASSUME UNCHANGED vars PROVE CallsAccountedFor'
  BY <1>14 DEF vars, queueVars, semVars
<1> QED
  BY <1>1, <1>2, <1>3, <1>4, <1>5, <1>6, <1>7, <1>8, <1>9, <1>10, <1>11, <1>12, <1>13, <1>14 DEF Next, Step

\* The invariant is inductive, and so holds for ever.
THEOREM Invariance == Spec => []IInv
<1>1. IInv /\ [Next]_vars => IInv'
  BY TypeStep, ReadyStep, NoIdleStep, RingStep, CallsStep DEF IInv
<1> QED
  BY InitInv, <1>1, PTL DEF Spec

\* Every variable of the kernel keeps its type; in particular no ring pointer leaves the
\* ring and no count passes its limit (OSQPost, OSQPend, OSSemPost).
THEOREM TypeCorrect == Spec => []TypeOK
<1>1. IInv => TypeOK
  BY DEF IInv
<1> QED
  BY Invariance, <1>1, PTL

\* The ready list and the control blocks never disagree: a task is schedulable exactly
\* when it waits for nothing (OS_EventTaskWait, OS_EventTaskRdy, OSTimeTick, OSTaskResume).
THEOREM ReadyListAlwaysTrue == Spec => []ReadyListTrue
<1>1. IInv => ReadyListTrue
  BY DEF IInv
<1> QED
  BY Invariance, <1>1, PTL

\* A call in progress is waiting, timed out and still listed, or served, and nothing else
\* (OSQPend and OSSemPend after OS_Sched).
THEOREM CallsAlwaysAccountedFor == Spec => []CallsAccountedFor
<1>1. IInv => CallsAccountedFor
  BY DEF IInv
<1> QED
  BY Invariance, <1>1, PTL

\* No task waits on a queue that holds a message or on a semaphore that is not zero
\* (OSQPend, OSQPost, OSSemPend, OSSemPost).
THEOREM NeverIdleWait == Spec => []NoIdleWait
<1>1. IInv => NoIdleWait
  BY DEF IInv
<1> QED
  BY Invariance, <1>1, PTL

-----------------------------------------------------------------------------
(* The ring read from OSQOut on is a sequence, and the two operations on   *)
(* the ring are the operations on that sequence.                           *)
LEMMA StoredSequence ==
  ASSUME TypeOK
  PROVE  /\ Stored \in Seq(Msgs \cup {NoMsg})
         /\ Len(Stored) = OSQEntries
         /\ \A i \in 1 .. OSQEntries : Stored[i] = ring[Slot(i - 1)]
<1>1. OSQEntries \in Nat
  BY DEF TypeOK
<1>2. \A i \in 1 .. OSQEntries : Slot(i - 1) \in 0 .. QSize - 1
  BY DEF TypeOK, Slot
<1>3. \A i \in 1 .. OSQEntries : ring[Slot(i - 1)] \in Msgs \cup {NoMsg}
  BY <1>2 DEF TypeOK
<1>4. Stored \in [1 .. OSQEntries -> Msgs \cup {NoMsg}]
  BY <1>3 DEF Stored
<1> QED
  BY <1>1, <1>4 DEF Stored

\* Storing at OSQIn appends to it.
LEMMA StoreAppends ==
  ASSUME IInv, NEW m \in Msgs, QPostStore(m), TypeOK'
  PROVE  Stored' = Append(Stored, m)
<1> DEFINE new == Append(Stored, m)
<1>1. /\ Stored \in Seq(Msgs \cup {NoMsg}) /\ Len(Stored) = OSQEntries
      /\ \A i \in 1 .. OSQEntries : Stored[i] = ring[Slot(i - 1)]
  BY StoredSequence DEF IInv
<1>2. /\ OSQEntries \in Nat /\ OSQEntries' = OSQEntries + 1 /\ OSQEntries < QSize
      /\ ring' = [ring EXCEPT ![OSQIn] = m] /\ OSQOut' = OSQOut
  BY DEF QPostStore, IInv, TypeOK
<1>3. \A i \in 1 .. OSQEntries + 1 : Slot(i - 1)' = Slot(i - 1)
  BY <1>2 DEF Slot
<1>4. \A i \in 1 .. OSQEntries : Slot(i - 1) # OSQIn
  BY <1>2 DEF IInv, RingTrue, Slot, TypeOK
<1>5. Slot(OSQEntries) = OSQIn /\ OSQIn \in DOMAIN ring
  BY DEF IInv, RingTrue, TypeOK
<1>6. \A i \in 1 .. OSQEntries + 1 : ring'[Slot(i - 1)'] = new[i]
  BY <1>1, <1>2, <1>3, <1>4, <1>5 DEF IInv, TypeOK
<1>7. new \in Seq(Msgs \cup {NoMsg}) /\ Len(new) = OSQEntries + 1
  BY <1>1, <1>2
<1>8. new = [i \in 1 .. OSQEntries + 1 |-> new[i]]
  <2>1. new \in [1 .. OSQEntries + 1 -> Msgs \cup {NoMsg}]
    BY <1>7, LenProperties
  <2> QED
    BY <2>1
<1> QED
  BY <1>2, <1>6, <1>8 DEF Stored

\* Taking at OSQOut removes its head.
LEMMA TakeRemoves ==
  ASSUME IInv, NEW t \in Prios, QPendTake(t)
  PROVE  Stored # << >> /\ ring[OSQOut] = Head(Stored) /\ Stored' = Tail(Stored)
<1> DEFINE new == Tail(Stored)
<1>1. /\ Stored \in Seq(Msgs \cup {NoMsg}) /\ Len(Stored) = OSQEntries
      /\ \A i \in 1 .. OSQEntries : Stored[i] = ring[Slot(i - 1)]
  BY StoredSequence DEF IInv
<1>2. /\ OSQEntries \in Nat /\ OSQEntries > 0 /\ OSQEntries' = OSQEntries - 1
      /\ OSQEntries <= QSize /\ ring' = ring /\ OSQOut' = NextSlot(OSQOut)
  BY DEF QPendTake, IInv, TypeOK
<1>3. \A i \in 1 .. OSQEntries - 1 : Slot(i - 1)' = Slot(i)
  BY <1>2 DEF Slot, NextSlot, IInv, TypeOK
<1>4. Stored # << >> /\ Head(Stored) = Stored[1]
  BY <1>1, <1>2
<1>5. Slot(1 - 1) = OSQOut
  BY <1>2 DEF Slot, IInv, TypeOK
<1>6. new \in Seq(Msgs \cup {NoMsg}) /\ Len(new) = OSQEntries - 1
  BY <1>1, <1>2, <1>4
<1>7. \A i \in 1 .. OSQEntries - 1 : new[i] = Stored[i + 1]
  BY <1>1, <1>2, <1>4
<1>8. \A i \in 1 .. OSQEntries - 1 : ring'[Slot(i - 1)'] = new[i]
  BY <1>1, <1>2, <1>3, <1>7
<1>9. new = [i \in 1 .. OSQEntries - 1 |-> new[i]]
  <2>1. new \in [1 .. OSQEntries - 1 -> Msgs \cup {NoMsg}]
    BY <1>6, LenProperties
  <2> QED
    BY <2>1
<1>10. ring[OSQOut] = Stored[1]
  BY <1>1, <1>2, <1>5
<1> QED
  BY <1>2, <1>4, <1>8, <1>9, <1>10 DEF Stored

Held == [t \in Prios |-> tcb[t].msg]

\* The empty ring is the empty sequence.
LEMMA PromiseInit == Init => Promise!Init
<1> SUFFICES ASSUME Init PROVE Promise!Init
  OBVIOUS
<1>1. Stored = << >>
  BY DEF Init, Stored
<1>2. Held = [t \in Prios |-> NoMsg]
  BY DEF Init, Held
<1> QED
  BY <1>1, <1>2 DEF Init, Promise!Init, Held

(* The steps that leave ring, wait list, messages and result alone.        *)
LEMMA StoredUnchanged ==
  ASSUME UNCHANGED <<ring, OSQOut, OSQEntries>>
  PROVE  Stored' = Stored
  BY DEF Stored, Slot

\* A step that leaves the queue alone is a stutter of the abstract one.
LEMMA Stutters ==
  ASSUME UNCHANGED queueVars, \A u \in Prios : tcb'[u].msg = tcb[u].msg
  PROVE  UNCHANGED Promise!vars
<1>1. Stored' = Stored
  BY StoredUnchanged DEF queueVars
<1>2. Held' = Held
  BY DEF Held
<1> QED
  BY <1>1, <1>2 DEF queueVars, Promise!vars, Held

\* The messages held, when one control block changes.
LEMMA HeldExcept ==
  ASSUME NEW h \in Prios, NEW m, tcb'[h].msg = m,
         \A u \in Prios : u # h => tcb'[u].msg = tcb[u].msg
  PROVE  Held' = [Held EXCEPT ![h] = m]
  BY DEF Held

\* Every step of the kernel is a step of the abstract queue, or a stutter.
LEMMA PromiseStep == IInv /\ TypeOK' /\ [Next]_vars => [Promise!Next]_(Promise!vars)
<1> SUFFICES ASSUME IInv, TypeOK', [Next]_vars
             PROVE  Promise!Next \/ UNCHANGED Promise!vars
  BY DEF Promise!vars
<1> USE DEF IInv
<1>1. ASSUME NEW t \in Prios, QPendTake(t) PROVE Promise!Take(t)
  <2>1. Stored # << >> /\ ring[OSQOut] = Head(Stored) /\ Stored' = Tail(Stored)
    BY <1>1, TakeRemoves
  <2>2. t \notin qWait /\ Held[t] = NoMsg /\ Held' = Held
    BY <1>1 DEF QPendTake, Free, CallsAccountedFor, AccountedFor, Held
  <2> QED
    BY <1>1, <2>1, <2>2 DEF QPendTake, Promise!Take, Held
<1>2. ASSUME NEW t \in Prios, NEW n \in Timeouts, QPendWait(t, n) PROVE Promise!Wait(t)
  <2>1. Stored' = Stored /\ Stored = << >>
    BY <1>2, StoredUnchanged DEF QPendWait, Stored
  <2>2. t \notin qWait /\ Held[t] = NoMsg
    BY <1>2 DEF QPendWait, Free, CallsAccountedFor, AccountedFor, Held
  <2>3. Held' = Held
    BY <1>2 DEF QPendWait, EventTaskWait, TypeOK, TCB, Held
  <2> QED
    BY <1>2, <2>1, <2>2, <2>3 DEF QPendWait, Promise!Wait, Held
<1>3. ASSUME NEW t \in Prios, QPendReturn(t) PROVE Promise!PickUp(t) \/ Promise!GiveUp(t)
  <2>1. Stored' = Stored
    BY <1>3, StoredUnchanged DEF QPendReturn
  <2>2. Held' = [Held EXCEPT ![t] = NoMsg]
    <3>1. tcb'[t].msg = NoMsg /\ \A u \in Prios : u # t => tcb'[u] = tcb[u]
      BY <1>3 DEF QPendReturn, TypeOK, TCB
    <3> QED
      BY <3>1, HeldExcept
  <2>3. WaitState(t, qWait, "Q") /\ tcb[t].pend = "RDY"
    BY <1>3 DEF QPendReturn, Running, IsHighest, CallsAccountedFor, AccountedFor, ReadyListTrue
  <2>4. CASE tcb[t].statPend = "OK"
    <3>1. Held[t] # NoMsg /\ returned' = Held[t] /\ qWait' = qWait
      BY <1>3, <2>3, <2>4 DEF QPendReturn, WaitState, Held
    <3> QED
      BY <2>1, <2>2, <3>1 DEF Promise!PickUp, Held
  <2>5. CASE tcb[t].statPend # "OK"
    <3>1. t \in qWait /\ Held[t] = NoMsg /\ returned' = NoMsg /\ qWait' = qWait \ {t}
      BY <1>3, <2>3, <2>5 DEF QPendReturn, WaitState, Held
    <3>2. Held' = Held
      BY <2>2, <3>1 DEF Held
    <3> QED
      BY <2>1, <3>1, <3>2 DEF Promise!GiveUp, Held
  <2> QED
    BY <2>4, <2>5
<1>4. ASSUME NEW m \in Msgs, QPostGive(m)
      PROVE  \E h \in Prios : Promise!Give(m, h)
  <2>1. PICK h \in Prios : h \in qWait /\ EventTaskRdy(h, m) /\ qWait' = qWait \ {h}
    BY <1>4 DEF QPostGive, IsHighest
  <2>2. Stored' = Stored /\ Stored = << >>
    BY <1>4, <2>1, StoredUnchanged DEF QPostGive, NoIdleWait, Stored
  <2>3. Held' = [Held EXCEPT ![h] = m]
    <3>1. tcb'[h].msg = m /\ \A u \in Prios : u # h => tcb'[u] = tcb[u]
      BY <2>1, EventTaskRdyFields
    <3> QED
      BY <3>1, HeldExcept
  <2> QED
    BY <1>4, <2>1, <2>2, <2>3 DEF QPostGive, Promise!Give, Held
<1>5. ASSUME NEW m \in Msgs, QPostStore(m) PROVE Promise!Store(m)
  <2>1. Stored' = Append(Stored, m) /\ Len(Stored) = OSQEntries
    BY <1>5, StoreAppends, StoredSequence
  <2>2. Held' = Held
    BY <1>5 DEF QPostStore, Held
  <2> QED
    BY <1>5, <2>1, <2>2 DEF QPostStore, Promise!Store, Held
<1>6. ASSUME NEW t \in Prios, SemPendTake(t) PROVE UNCHANGED Promise!vars
  BY <1>6, Stutters DEF SemPendTake
<1>7. ASSUME NEW t \in Prios, NEW n \in Timeouts, SemPendWait(t, n)
      PROVE  UNCHANGED Promise!vars
  <2>1. \A u \in Prios : tcb'[u].msg = tcb[u].msg
    BY <1>7 DEF SemPendWait, EventTaskWait, TypeOK, TCB
  <2> QED
    BY <1>7, <2>1, Stutters DEF SemPendWait
<1>8. ASSUME NEW t \in Prios, SemPendReturn(t) PROVE UNCHANGED Promise!vars
  <2>1. \A u \in Prios : tcb'[u].msg = tcb[u].msg
    BY <1>8 DEF SemPendReturn, TypeOK, TCB
  <2> QED
    BY <1>8, <2>1, Stutters DEF SemPendReturn
<1>9. ASSUME SemPost PROVE UNCHANGED Promise!vars
  <2>1. CASE UNCHANGED tcb
    BY <1>9, <2>1, Stutters DEF SemPost
  <2>2. ASSUME NEW h \in Prios, h \in semWait, EventTaskRdy(h, NoMsg)
        PROVE  \A u \in Prios : tcb'[u].msg = tcb[u].msg
    <3>1. tcb[h].msg = NoMsg
      BY <2>2 DEF CallsAccountedFor, AccountedFor, WaitState
    <3> QED
      BY <2>2, <3>1, EventTaskRdyFields
  <2> QED
    BY <1>9, <2>1, <2>2, Stutters DEF SemPost, IsHighest
<1>10. ASSUME NEW t \in Prios, NEW p \in Prios, OSTaskSuspend(t, p) \/ OSTaskResume(t, p)
       PROVE  UNCHANGED Promise!vars
  <2>1. \A u \in Prios : tcb'[u].msg = tcb[u].msg
    <3>1. PICK b \in BOOLEAN : tcb' = [tcb EXCEPT ![p] = [@ EXCEPT !.susp = b]]
      BY <1>10 DEF OSTaskSuspend, OSTaskResume
    <3>2. tcb'[p] = [tcb[p] EXCEPT !.susp = b] /\ \A u \in Prios : u # p => tcb'[u] = tcb[u]
      BY <3>1 DEF TypeOK
    <3>3. tcb[p] \in TCB
      BY DEF TypeOK
    <3>4. tcb'[p].msg = tcb[p].msg
      BY <3>2, <3>3 DEF TCB
    <3> QED
      BY <3>2, <3>4
  <2> QED
    BY <1>10, <2>1, Stutters DEF OSTaskSuspend, OSTaskResume
<1>11. ASSUME NEW t \in Prios, NEW n \in Timeouts, OSTimeDly(t, n)
       PROVE  UNCHANGED Promise!vars
  <2>1. \A u \in Prios : tcb'[u].msg = tcb[u].msg
    <3>1. tcb'[t] = [tcb[t] EXCEPT !.dly = n] /\ \A u \in Prios : u # t => tcb'[u] = tcb[u]
      BY <1>11 DEF OSTimeDly, TypeOK
    <3>2. tcb[t] \in TCB
      BY DEF TypeOK
    <3>3. tcb'[t].msg = tcb[t].msg
      BY <3>1, <3>2 DEF TCB
    <3> QED
      BY <3>1, <3>3
  <2> QED
    BY <1>11, <2>1, Stutters DEF OSTimeDly
<1>12. ASSUME OSTimeTick PROVE UNCHANGED Promise!vars
  <2>1. \A u \in Prios : tcb'[u].msg = tcb[u].msg
    <3>1. \A u \in Prios : tcb'[u] = Ticked(tcb[u]) /\ tcb[u] \in TCB
      BY <1>12 DEF OSTimeTick, TypeOK
    <3> QED
      BY <3>1, TickedFields
  <2> QED
    BY <1>12, <2>1, Stutters DEF OSTimeTick
<1>13. CASE UNCHANGED vars
  BY <1>13, Stutters DEF vars
<1> QED
  BY <1>1, <1>2, <1>3, <1>4, <1>5, <1>6, <1>7, <1>8, <1>9, <1>10, <1>11, <1>12,
     <1>13 DEF Next, Step, Promise!Next

\* The detailed queue implements the abstract one: OSQPend and OSQPost with timeouts,
\* suspension and direct hand-over are a bounded FIFO store that loses nothing.
THEOREM QueueKeepsPromise == Spec => KeepsPromise
<1>1. IInv /\ IInv' /\ [Next]_vars => [Promise!Next]_(Promise!vars)
  BY PromiseStep DEF IInv
<1> QED
  BY Invariance, PromiseInit, <1>1, PTL DEF Spec, KeepsPromise, Promise!Spec

-----------------------------------------------------------------------------
(* What can be proved of a bounded wait without fairness.                  *)
\* A call with an end: it was served or timed out, or it has a timeout that runs.
Bounded(t) == call[t] # "none" /\ (tcb[t].pend = "RDY" \/ tcb[t].dly > 0)

\* The ticks such a call can last at most.
TicksLeft(t) == IF tcb[t].pend = "RDY" THEN 0 ELSE tcb[t].dly

\* While the call lasts it keeps its end and comes no further from it, whatever is posted,
\* suspended or resumed meanwhile; and every tick brings it nearer.
RunsDown(t) ==
  Bounded(t) /\ call'[t] # "none" =>
    /\ Bounded(t)'
    /\ TicksLeft(t)' <= TicksLeft(t)
    /\ OSTimeTick /\ TicksLeft(t) > 0 => TicksLeft(t)' < TicksLeft(t)

WaitsRunDown == [][\A t \in Prios : RunsDown(t)]_vars

\* At its end the call of the task of the highest priority has the processor and can return.
EndedCallRuns ==
  \A t \in Prios :
    Top(t) /\ Bounded(t) /\ TicksLeft(t) = 0 /\ ~tcb[t].susp => Running(t)

\* What any step leaves of the control block of a task in the middle of a call.
LEMMA BlockInCall ==
  ASSUME IInv, [Next]_vars, NEW t \in Prios, call[t] # "none", call'[t] # "none"
  PROVE  \/ tcb'[t].pend = tcb[t].pend /\ tcb'[t].dly = tcb[t].dly
         \/ tcb'[t].pend = "RDY" /\ tcb'[t].dly = 0
         \/ OSTimeTick
<1> DEFINE Same == tcb'[t].pend = tcb[t].pend /\ tcb'[t].dly = tcb[t].dly
           Done == tcb'[t].pend = "RDY" /\ tcb'[t].dly = 0
<1> USE DEF IInv
<1>0. tcb \in [Prios -> TCB] /\ tcb[t] \in TCB
      /\ call \in [Prios -> {"none", "OSQPend", "OSSemPend"}]
  BY DEF TypeOK
<1>1. ASSUME NEW s \in Prios, QPendTake(s) \/ SemPendTake(s) PROVE Same
  BY <1>1 DEF QPendTake, SemPendTake
<1>2. ASSUME NEW s \in Prios, NEW n \in Timeouts, QPendWait(s, n) \/ SemPendWait(s, n) PROVE Same
  <2>1. s # t
    BY <1>2 DEF QPendWait, SemPendWait, Free
  <2>2. tcb'[t] = tcb[t]
    BY <1>0, <1>2, <2>1 DEF QPendWait, SemPendWait, EventTaskWait
  <2> QED
    BY <2>2
<1>3. ASSUME NEW s \in Prios, QPendReturn(s) \/ SemPendReturn(s) PROVE Same
  <2>1. s # t
    BY <1>0, <1>3 DEF QPendReturn, SemPendReturn
  <2>2. tcb'[t] = tcb[t]
    BY <1>0, <1>3, <2>1 DEF QPendReturn, SemPendReturn
  <2> QED
    BY <2>2
<1>4. ASSUME NEW h \in Prios, NEW m \in Msgs \cup {NoMsg}, EventTaskRdy(h, m) PROVE Same \/ Done
  <2>1. CASE h = t
    BY <1>4, <2>1, EventTaskRdyFields
  <2>2. CASE h # t
    <3>1. tcb'[t] = tcb[t]
      BY <1>4, <2>2, EventTaskRdyFields
    <3> QED
      BY <3>1
  <2> QED
    BY <2>1, <2>2
<1>5. ASSUME NEW m \in Msgs, QPostGive(m) \/ QPostStore(m)
      PROVE  Same \/ Done
  <2>1. CASE QPostGive(m)
    <3>1. PICK h \in Prios : EventTaskRdy(h, m)
      BY <2>1 DEF QPostGive
    <3>2. m \in Msgs \cup {NoMsg}
      OBVIOUS
    <3> QED
      BY <1>4, <3>1, <3>2
  <2>2. CASE QPostStore(m)
    BY <2>2 DEF QPostStore
  <2> QED
    BY <1>5, <2>1, <2>2
<1>6. ASSUME SemPost PROVE Same \/ Done
  <2>1. CASE UNCHANGED tcb
    BY <2>1
  <2>2. CASE \E h \in Prios : EventTaskRdy(h, NoMsg)
    BY <1>4, <2>2
  <2> QED
    BY <1>6, <2>1, <2>2 DEF SemPost
<1>7. ASSUME NEW s \in Prios, NEW p \in Prios, OSTaskSuspend(s, p) \/ OSTaskResume(s, p) PROVE Same
  <2>1. PICK b \in BOOLEAN : tcb' = [tcb EXCEPT ![p] = [@ EXCEPT !.susp = b]]
    BY <1>7 DEF OSTaskSuspend, OSTaskResume
  <2>2. tcb'[t] = tcb[t] \/ tcb'[t] = [tcb[t] EXCEPT !.susp = b]
    BY <1>0, <2>1
  <2> QED
    BY <1>0, <2>2 DEF TCB
<1>8. ASSUME NEW s \in Prios, NEW n \in Timeouts, OSTimeDly(s, n) PROVE Same
  <2>1. s # t
    BY <1>8 DEF OSTimeDly, Free
  <2>2. tcb'[t] = tcb[t]
    BY <1>0, <1>8, <2>1 DEF OSTimeDly
  <2> QED
    BY <2>2
<1>9. CASE UNCHANGED vars
  BY <1>9 DEF vars
<1> QED
  BY <1>1, <1>2, <1>3, <1>5, <1>6, <1>7, <1>8, <1>9 DEF Next, Step

\* A call with an end, step by step.
LEMMA RunsDownStep ==
  ASSUME IInv, [Next]_vars, NEW t \in Prios
  PROVE  RunsDown(t)
<1> SUFFICES ASSUME Bounded(t), call'[t] # "none"
             PROVE  /\ Bounded(t)'
                    /\ TicksLeft(t)' <= TicksLeft(t)
                    /\ OSTimeTick /\ TicksLeft(t) > 0 => TicksLeft(t)' < TicksLeft(t)
  BY DEF RunsDown
<1> DEFINE b == tcb[t]
<1>1. b \in TCB /\ call[t] # "none"
  BY DEF IInv, TypeOK, Bounded
<1>2. b.dly \in Nat /\ b.pend \in {"RDY", "Q", "SEM"}
  BY <1>1 DEF TCB
<1>3. b.pend = "RDY" => b.dly = 0
  BY <1>1 DEF IInv, TypeOK, CallsAccountedFor, AccountedFor, WaitState
<1>4. ASSUME OSTimeTick
      PROVE  Bounded(t)' /\ TicksLeft(t)' <= TicksLeft(t)
             /\ (TicksLeft(t) > 0 => TicksLeft(t)' < TicksLeft(t))
  <2>1. tcb'[t] = Ticked(b)
    BY <1>4 DEF OSTimeTick
  <2>2. CASE b.dly = 0
    <3>1. Ticked(b) = b
      BY <1>1, <2>2, TickedFields
    <3> QED
      BY <1>2, <2>1, <2>2, <3>1 DEF Bounded, TicksLeft
  <2>3. CASE b.dly > 1
    <3>1. Ticked(b).dly = b.dly - 1 /\ Ticked(b).pend = b.pend
      BY <1>1, <2>3, TickedFields
    <3> QED
      BY <1>2, <1>3, <2>1, <2>3, <3>1 DEF Bounded, TicksLeft
  <2>4. CASE b.dly = 1
    <3>1. Ticked(b).pend = "RDY"
      BY <1>1, <2>4, TickedFields
    <3> QED
      BY <1>2, <1>3, <2>1, <2>4, <3>1 DEF Bounded, TicksLeft
  <2> QED
    BY <1>2, <2>2, <2>3, <2>4
<1>5. ASSUME ~OSTimeTick PROVE Bounded(t)' /\ TicksLeft(t)' <= TicksLeft(t)
  <2>1. \/ tcb'[t].pend = b.pend /\ tcb'[t].dly = b.dly
        \/ tcb'[t].pend = "RDY" /\ tcb'[t].dly = 0
    BY <1>1, <1>5, BlockInCall
  <2> QED
    BY <1>2, <2>1 DEF Bounded, TicksLeft
<1> QED
  BY <1>4, <1>5

\* The safety half of BoundedWaitEnds, for every task, every timeout and whatever the others do:
\* OSQPend and OSSemPend with a timeout run down tick by tick, a served or timed-out call never
\* waits again, and at the end the task of the highest priority runs unless it is suspended.
THEOREM BoundedWaitRunsDown == Spec => []EndedCallRuns /\ WaitsRunDown
<1>1. IInv => EndedCallRuns
  <2> SUFFICES ASSUME IInv, NEW t \in Prios, Top(t), Bounded(t), TicksLeft(t) = 0, ~tcb[t].susp
               PROVE  Running(t)
    BY DEF EndedCallRuns
  <2>1. tcb[t].pend = "RDY"
    BY DEF Bounded, TicksLeft, IInv, TypeOK, TCB
  <2>2. tcb[t].dly = 0
    BY <2>1 DEF Bounded, IInv, TypeOK, CallsAccountedFor, AccountedFor, WaitState
  <2>3. t \in ready /\ ready \subseteq Prios
    BY <2>1, <2>2 DEF IInv, ReadyListTrue, TypeOK
  <2> QED
    BY <2>3 DEF Running, IsHighest, Top
<1>2. IInv /\ [Next]_vars => [\A t \in Prios : RunsDown(t)]_vars
  BY RunsDownStep
<1> QED
  BY Invariance, <1>1, <1>2, PTL DEF Spec, WaitsRunDown
=============================================================================
