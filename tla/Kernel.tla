------------------------------- MODULE Kernel -------------------------------
(***************************************************************************)
(* The uC/OS-II services the station's tasks and the lwIP port rest on:    *)
(* a message queue and a counting semaphore with timeouts (os_q.c,         *)
(* os_sem.c), suspension (os_task.c), delays and the tick (os_time.c,      *)
(* os_core.c) over the ready list, the events' wait lists and the task     *)
(* control blocks.  A task is its priority; the smaller number runs first. *)
(*                                                                         *)
(* A service call is one step up to the point where it blocks; when the    *)
(* task runs again the rest of the call is a second step (QPendReturn,     *)
(* SemPendReturn).  Between the two every other task and every interrupt   *)
(* may act.  Which services a task calls, and when, is left open.          *)
(***************************************************************************)
EXTENDS Naturals, Sequences

CONSTANTS
  Prios,      \* the priorities of the application's tasks
  Msgs,       \* what is posted; a message is never the NULL pointer
  NoMsg,      \* (void * )0
  QSize,      \* OSQSize, the number of slots of the ring
  SemMax,     \* the largest semaphore count (65535 in the code)
  Timeouts    \* the timeouts and delays in ticks that are asked for

ASSUME PriosAssumption == Prios \subseteq Nat
ASSUME MsgsAssumption == NoMsg \notin Msgs
ASSUME QSizeAssumption == QSize \in Nat \ {0}
ASSUME SemMaxAssumption == SemMax \in Nat \ {0}
ASSUME TimeoutsAssumption == Timeouts \subseteq Nat

VARIABLES
  tcb,        \* OS_TCB: status, suspension, pend status, delay, message
  ready,      \* OSRdyGrp / OSRdyTbl
  call,       \* the blocking call a task has not returned from
  ring, OSQIn, OSQOut, OSQEntries,   \* OS_Q
  qWait,      \* the queue's OSEventGrp / OSEventTbl
  semWait,    \* the semaphore's OSEventGrp / OSEventTbl
  OSEventCnt, \* the semaphore's count
  returned    \* what the last OSQPend that returned gave its caller

queueVars == <<ring, OSQIn, OSQOut, OSQEntries, qWait, returned>>
semVars   == <<semWait, OSEventCnt>>
vars      == <<tcb, ready, call, queueVars, semVars>>

TCB ==
  [pend: {"RDY", "Q", "SEM"}, susp: BOOLEAN, statPend: {"OK", "TO"},
   dly: Nat, msg: Msgs \cup {NoMsg}]

Init ==
  /\ tcb = [t \in Prios |-> [pend |-> "RDY", susp |-> FALSE, statPend |-> "OK",
                             dly |-> 0, msg |-> NoMsg]]
  /\ ready = Prios
  /\ call = [t \in Prios |-> "none"]
  /\ ring = [i \in 0 .. QSize - 1 |-> NoMsg]
  /\ OSQIn = 0 /\ OSQOut = 0 /\ OSQEntries = 0
  /\ qWait = {} /\ semWait = {}
  /\ OSEventCnt = 0
  /\ returned = NoMsg

-----------------------------------------------------------------------------
(* OS_SchedNew: the ready task of the highest priority has the processor.  *)
IsHighest(t, list) == t \in list /\ \A u \in list : t <= u

Running(t) == IsHighest(t, ready)

Free(t) == Running(t) /\ call[t] = "none"

(* A ring pointer steps to the next slot and wraps at OSQEnd.              *)
NextSlot(p) == IF p + 1 = QSize THEN 0 ELSE p + 1

(* OS_EventTaskWait, and the three TCB fields its callers set before it.   *)
EventTaskWait(t, event, timeout) ==
  /\ tcb' = [tcb EXCEPT ![t] = [@ EXCEPT !.pend = event, !.statPend = "OK",
                                         !.dly = timeout]]
  /\ ready' = ready \ {t}

\* Mutant of EventTaskRdy: the pend status is left as the tick set it.
EventTaskRdyKeepsStatus(t, m) ==
  /\ tcb' = [tcb EXCEPT ![t] = [@ EXCEPT !.dly = 0, !.msg = m, !.pend = "RDY"]]
  /\ ready' = IF tcb[t].susp THEN ready ELSE ready \cup {t}

(* OS_EventTaskRdy: the waiting task of the highest priority gets the      *)
(* message, even one whose timeout has expired and that has not run since. *)
EventTaskRdy(t, m) ==
  /\ tcb' = [tcb EXCEPT ![t] = [@ EXCEPT !.dly = 0, !.msg = m, !.pend = "RDY",
                                         !.statPend = "OK"]]
  /\ ready' = IF tcb[t].susp THEN ready ELSE ready \cup {t}

-----------------------------------------------------------------------------
QPendTake(t) ==
  /\ Free(t)
  /\ OSQEntries > 0
  /\ returned' = ring[OSQOut]
  /\ OSQOut' = NextSlot(OSQOut)
  /\ OSQEntries' = OSQEntries - 1
  /\ UNCHANGED <<tcb, ready, call, ring, OSQIn, qWait, semVars>>

QPendWait(t, timeout) ==
  /\ Free(t)
  /\ OSQEntries = 0
  /\ EventTaskWait(t, "Q", timeout)
  /\ qWait' = qWait \cup {t}
  /\ call' = [call EXCEPT ![t] = "OSQPend"]
  /\ UNCHANGED <<ring, OSQIn, OSQOut, OSQEntries, returned, semVars>>

\* Mutant of QPendReturn: OS_EventTaskRemove is forgotten after a timeout.
QPendReturnStaysListed(t) ==
  /\ Running(t)
  /\ call[t] = "OSQPend"
  /\ returned' = IF tcb[t].statPend = "OK" THEN tcb[t].msg ELSE NoMsg
  /\ tcb' = [tcb EXCEPT ![t] = [@ EXCEPT !.pend = "RDY", !.susp = FALSE,
                                         !.statPend = "OK", !.msg = NoMsg]]
  /\ call' = [call EXCEPT ![t] = "none"]
  /\ UNCHANGED <<ready, ring, OSQIn, OSQOut, OSQEntries, qWait, semVars>>

QPendReturn(t) ==
  /\ Running(t)
  /\ call[t] = "OSQPend"
  /\ IF tcb[t].statPend = "OK"
       THEN returned' = tcb[t].msg /\ UNCHANGED qWait
       ELSE returned' = NoMsg /\ qWait' = qWait \ {t}
  /\ tcb' = [tcb EXCEPT ![t] = [@ EXCEPT !.pend = "RDY", !.susp = FALSE,
                                         !.statPend = "OK", !.msg = NoMsg]]
  /\ call' = [call EXCEPT ![t] = "none"]
  /\ UNCHANGED <<ready, ring, OSQIn, OSQOut, OSQEntries, semVars>>

(* OSQPost, to a waiter or into the ring.  A task posts, or EXTI0's        *)
(* interrupt over whatever the tasks are doing: no caller is named.        *)
QPostGive(m) ==
  /\ \E h \in Prios : IsHighest(h, qWait) /\ EventTaskRdy(h, m) /\ qWait' = qWait \ {h}
  /\ UNCHANGED <<call, ring, OSQIn, OSQOut, OSQEntries, returned, semVars>>

QPostStore(m) ==
  /\ qWait = {}
  /\ OSQEntries < QSize
  /\ ring' = [ring EXCEPT ![OSQIn] = m]
  /\ OSQIn' = NextSlot(OSQIn)
  /\ OSQEntries' = OSQEntries + 1
  /\ UNCHANGED <<tcb, ready, call, OSQOut, qWait, returned, semVars>>

-----------------------------------------------------------------------------
SemPendTake(t) ==
  /\ Free(t)
  /\ OSEventCnt > 0
  /\ OSEventCnt' = OSEventCnt - 1
  /\ UNCHANGED <<tcb, ready, call, queueVars, semWait>>

SemPendWait(t, timeout) ==
  /\ Free(t)
  /\ OSEventCnt = 0
  /\ EventTaskWait(t, "SEM", timeout)
  /\ semWait' = semWait \cup {t}
  /\ call' = [call EXCEPT ![t] = "OSSemPend"]
  /\ UNCHANGED <<queueVars, OSEventCnt>>

SemPendReturn(t) ==
  /\ Running(t)
  /\ call[t] = "OSSemPend"
  /\ semWait' = IF tcb[t].statPend = "OK" THEN semWait ELSE semWait \ {t}
  /\ tcb' = [tcb EXCEPT ![t] = [@ EXCEPT !.pend = "RDY", !.susp = FALSE,
                                         !.statPend = "OK"]]
  /\ call' = [call EXCEPT ![t] = "none"]
  /\ UNCHANGED <<ready, queueVars, OSEventCnt>>

\* Mutant of SemPost: the wait list is not looked at before the count.
SemPostCounts ==
  /\ OSEventCnt < SemMax
  /\ OSEventCnt' = OSEventCnt + 1
  /\ UNCHANGED <<tcb, ready, semWait, call, queueVars>>

(* OSSemPost, from a task or from the network interrupt: no caller named.  *)
SemPost ==
  /\ \/ /\ \E h \in Prios : /\ IsHighest(h, semWait)
                            /\ EventTaskRdy(h, NoMsg)
                            /\ semWait' = semWait \ {h}
        /\ UNCHANGED OSEventCnt
     \/ /\ semWait = {}
        /\ OSEventCnt < SemMax
        /\ OSEventCnt' = OSEventCnt + 1
        /\ UNCHANGED <<tcb, ready, semWait>>
  /\ UNCHANGED <<call, queueVars>>

-----------------------------------------------------------------------------
OSTaskSuspend(t, p) ==
  /\ Free(t)
  /\ ready' = ready \ {p}
  /\ tcb' = [tcb EXCEPT ![p] = [@ EXCEPT !.susp = TRUE]]
  /\ UNCHANGED <<call, queueVars, semVars>>

\* Mutant of OSTaskResume: a delay that is still running is overlooked.
OSTaskResumeDelayed(t, p) ==
  /\ Free(t)
  /\ tcb[p].susp
  /\ tcb' = [tcb EXCEPT ![p] = [@ EXCEPT !.susp = FALSE]]
  /\ ready' = IF tcb[p].pend = "RDY" THEN ready \cup {p} ELSE ready
  /\ UNCHANGED <<call, queueVars, semVars>>

OSTaskResume(t, p) ==
  /\ Free(t)
  /\ tcb[p].susp
  /\ tcb' = [tcb EXCEPT ![p] = [@ EXCEPT !.susp = FALSE]]
  /\ ready' = IF tcb[p].pend = "RDY" /\ tcb[p].dly = 0 THEN ready \cup {p} ELSE ready
  /\ UNCHANGED <<call, queueVars, semVars>>

OSTimeDly(t, ticks) ==
  /\ Free(t)
  /\ ticks > 0
  /\ ready' = ready \ {t}
  /\ tcb' = [tcb EXCEPT ![t] = [@ EXCEPT !.dly = ticks]]
  /\ UNCHANGED <<call, queueVars, semVars>>

(* One tick: every delay counts down; the task whose delay is over leaves  *)
(* its event's status but not the event's wait list.                       *)
Ticked(b) ==
  IF b.dly = 0 THEN b
  ELSE IF b.dly > 1 THEN [b EXCEPT !.dly = @ - 1]
  ELSE [b EXCEPT !.dly = 0, !.pend = "RDY",
                 !.statPend = IF b.pend = "RDY" THEN "OK" ELSE "TO"]

\* Mutant of OSTimeTick: only tasks in OSTimeDly are made ready.
OSTimeTickDelaysOnly ==
  /\ tcb' = [t \in Prios |-> Ticked(tcb[t])]
  /\ ready' = ready \cup {t \in Prios : tcb[t].dly = 1 /\ ~tcb[t].susp /\ tcb[t].pend = "RDY"}
  /\ UNCHANGED <<call, queueVars, semVars>>

OSTimeTick ==
  /\ tcb' = [t \in Prios |-> Ticked(tcb[t])]
  /\ ready' = ready \cup {t \in Prios : tcb[t].dly = 1 /\ ~tcb[t].susp}
  /\ UNCHANGED <<call, queueVars, semVars>>

Step(t) ==
  \/ QPendTake(t) \/ QPendReturn(t) \/ SemPendTake(t) \/ SemPendReturn(t)
  \/ \E n \in Timeouts : QPendWait(t, n) \/ SemPendWait(t, n) \/ OSTimeDly(t, n)
  \/ \E p \in Prios : OSTaskSuspend(t, p) \/ OSTaskResume(t, p)

Next ==
  \/ \E t \in Prios : Step(t)
  \/ \E m \in Msgs : QPostGive(m) \/ QPostStore(m)
  \/ SemPost
  \/ OSTimeTick

(* The tick interrupt keeps coming, and a task that has the processor goes *)
(* on with the call it is in.                                              *)
Fairness ==
  /\ WF_vars(OSTimeTick)
  /\ \A t \in Prios : WF_vars(QPendReturn(t)) /\ WF_vars(SemPendReturn(t))

Spec == Init /\ [][Next]_vars

FairSpec == Spec /\ Fairness
-----------------------------------------------------------------------------
TypeOK ==
  /\ tcb \in [Prios -> TCB]
  /\ ready \subseteq Prios
  /\ call \in [Prios -> {"none", "OSQPend", "OSSemPend"}]
  /\ ring \in [0 .. QSize - 1 -> Msgs \cup {NoMsg}]
  /\ OSQIn \in 0 .. QSize - 1 /\ OSQOut \in 0 .. QSize - 1
  /\ OSQEntries \in 0 .. QSize
  /\ qWait \subseteq Prios /\ semWait \subseteq Prios
  /\ OSEventCnt \in 0 .. SemMax
  /\ returned \in Msgs \cup {NoMsg}

(* The ready list says of every task what its control block says: a task   *)
(* can be scheduled exactly when it waits for no event, no delay and no    *)
(* resume.  The list is updated in OS_EventTaskWait, OS_EventTaskRdy,      *)
(* OSTimeTick, OSTimeDly, OSTaskSuspend and OSTaskResume, each under its   *)
(* own condition; one update too few stops a task for good.                *)
ReadyListTrue ==
  \A t \in Prios : t \in ready <=> /\ tcb[t].pend = "RDY"
                                  /\ tcb[t].dly = 0
                                  /\ ~tcb[t].susp

(* A call in progress is in one of three states: still waiting; timed out, *)
(* but still in the event's wait list until the task runs again; or served *)
(* and in no list.  A message is in the control block only when served.    *)
WaitState(t, list, event) ==
  \/ t \in list /\ tcb[t].pend = event /\ tcb[t].statPend = "OK" /\ tcb[t].msg = NoMsg
  \/ /\ t \in list /\ tcb[t].pend = "RDY" /\ tcb[t].statPend = "TO"
     /\ tcb[t].dly = 0 /\ tcb[t].msg = NoMsg
  \/ /\ t \notin list /\ tcb[t].pend = "RDY" /\ tcb[t].statPend = "OK"
     /\ tcb[t].dly = 0 /\ (tcb[t].msg # NoMsg <=> event = "Q")

AccountedFor(t) ==
  /\ call[t] = "OSQPend" => WaitState(t, qWait, "Q")
  /\ call[t] = "OSSemPend" => WaitState(t, semWait, "SEM")
  /\ call[t] = "none" => tcb[t].pend = "RDY" /\ tcb[t].statPend = "OK" /\ tcb[t].msg = NoMsg
  /\ t \in qWait => call[t] = "OSQPend"
  /\ t \in semWait => call[t] = "OSSemPend"

CallsAccountedFor == \A t \in Prios : AccountedFor(t)

(* No task waits beside what it waits for: while a task is in the queue's  *)
(* wait list the ring is empty, and while one is in the semaphore's the    *)
(* count is zero.  OSQPend looks at the entries once, before it waits, and *)
(* OSQPost looks at the wait list before the ring.                         *)
NoIdleWait ==
  /\ qWait # {} => OSQEntries = 0
  /\ semWait # {} => OSEventCnt = 0

(* The i-th slot of the ring from OSQOut on, and the messages stored.      *)
Slot(i) == IF OSQOut + i < QSize THEN OSQOut + i ELSE OSQOut + i - QSize

Stored == [i \in 1 .. OSQEntries |-> ring[Slot(i - 1)]]

(* The queue keeps its promise: with the ring read from OSQOut on, the     *)
(* wait list and the messages in the control blocks, every step is a step  *)
(* of MessageQueue.  So no accepted message is lost or received twice,     *)
(* whatever timeouts, suspensions and ticks come between a post and the    *)
(* moment the receiver runs; a task given a message never reports timeout. *)
Promise ==
  INSTANCE MessageQueue
    WITH Tasks <- Prios, Capacity <- QSize, queue <- Stored, waiting <- qWait,
         held <- [t \in Prios |-> tcb[t].msg], returned <- returned

KeepsPromise == Promise!Spec

(* The task of the highest priority never hangs in a call with a timeout,  *)
(* or in a call that was served: it comes back, or it is suspended.  The   *)
(* semaphore's and the queue's wait and the tick all have a part in it.    *)
Top(t) == IsHighest(t, Prios)

BoundedWaitEnds ==
  \A t \in Prios :
    (Top(t) /\ call[t] # "none" /\ (tcb[t].dly > 0 \/ tcb[t].pend = "RDY"))
      ~> (call[t] = "none" \/ tcb[t].susp)
=============================================================================
