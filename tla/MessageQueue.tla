---------------------------- MODULE MessageQueue ----------------------------
(***************************************************************************)
(* What a uC/OS-II message queue promises to the tasks that use it: a      *)
(* bounded first-in first-out store.  A message that was accepted reaches  *)
(* exactly one task; a task that gives up waiting leaves nothing behind;   *)
(* nobody waits while a message is there to be had.  How the kernel keeps  *)
(* the promise (ring, wait list, task control blocks, ticks, suspension)   *)
(* is the business of module Kernel, which implements this one.            *)
(***************************************************************************)
EXTENDS Naturals, Sequences

CONSTANTS Tasks, Msgs, NoMsg, Capacity

VARIABLES
  queue,      \* accepted and not yet given to a task, oldest first
  waiting,    \* the tasks a message may be given to
  held,       \* the message given to a task that has not picked it up yet
  returned    \* what the last receive that came to an end gave its caller

vars == <<queue, waiting, held, returned>>

Init ==
  /\ queue = << >>
  /\ waiting = {}
  /\ held = [t \in Tasks |-> NoMsg]
  /\ returned = NoMsg

(* A message is accepted: it is stored, or given to a task that waits.     *)
Store(m) ==
  /\ waiting = {}
  /\ Len(queue) < Capacity
  /\ queue' = Append(queue, m)
  /\ UNCHANGED <<waiting, held, returned>>

Give(m, t) ==
  /\ t \in waiting
  /\ queue = << >>
  /\ waiting' = waiting \ {t}
  /\ held' = [held EXCEPT ![t] = m]
  /\ UNCHANGED <<queue, returned>>

(* A receive takes the oldest message, or waits when there is none.        *)
Take(t) ==
  /\ t \notin waiting
  /\ held[t] = NoMsg
  /\ queue # << >>
  /\ returned' = Head(queue)
  /\ queue' = Tail(queue)
  /\ UNCHANGED <<waiting, held>>

Wait(t) ==
  /\ t \notin waiting
  /\ held[t] = NoMsg
  /\ queue = << >>
  /\ waiting' = waiting \cup {t}
  /\ UNCHANGED <<queue, held, returned>>

(* A wait ends with the message that was given, or with none.              *)
PickUp(t) ==
  /\ held[t] # NoMsg
  /\ returned' = held[t]
  /\ held' = [held EXCEPT ![t] = NoMsg]
  /\ UNCHANGED <<queue, waiting>>

GiveUp(t) ==
  /\ t \in waiting
  /\ waiting' = waiting \ {t}
  /\ returned' = NoMsg
  /\ UNCHANGED <<queue, held>>

Next ==
  \/ \E m \in Msgs : Store(m) \/ \E t \in Tasks : Give(m, t)
  \/ \E t \in Tasks : Take(t) \/ Wait(t) \/ PickUp(t) \/ GiveUp(t)

Spec == Init /\ [][Next]_vars
=============================================================================
