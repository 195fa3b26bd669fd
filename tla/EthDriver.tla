----------------------------- MODULE EthDriver -----------------------------
(***************************************************************************)
(* The DM9000 driver (HARDWARE/DM9000/dm9000.c) between lwIP's two tasks   *)
(* and the station's stop mode.  tcpip_thread (priority 5) sends, the      *)
(* input task (6, netif/ethernetif.c) receives; both take the mutex        *)
(* dm9000lock.  The interrupt posts the semaphore dm9000input, and is      *)
(* masked while a frame is sent.  The stop task (17) suspends both tasks   *)
(* where they stand, and resets the chip at the wake-up; the FTP task      *)
(* switches the PHY off without taking the lock.                           *)
(*                                                                         *)
(* A task runs only while those of higher priority are blocked, and the    *)
(* interrupt comes before any of them.  The chip is external: it is        *)
(* modelled from the registers the driver reads and writes.                *)
(***************************************************************************)
EXTENDS Integers

CONSTANTS
  FifoSize,   \* frames the receive buffer of the chip holds
  SemMax,     \* where OSSemPost stops counting (65535)
  MaxFaults,  \* bound on frames that cannot be taken as they come
  None        \* nobody has the lock

ASSUME BoundsAssumption == FifoSize \in Nat \ {0} /\ SemMax \in Nat \ {0} /\ MaxFaults \in Nat
ASSUME NoneAssumption == None \notin {"tcpip", "input"}

VARIABLES
  fifo, prs, pts,   \* frames received; the ISR's receive and transmit flags
  imr, rcr,         \* receive interrupt unmasked; receiver enabled
  tx, phy,          \* a frame is being transmitted; the PHY has power
  irq,              \* falling edge of the interrupt line, latched by the EXTI
  lock, sem,        \* owner of dm9000lock, count of dm9000input
  pcT, pcI, pcS,    \* tcpip_thread, the input task, the stop task
  susp,             \* suspended tasks
  faults,
  shed,             \* ghost: input left off because there was no pbuf
  cut               \* ghost: the chip was reset under a send

chip == <<fifo, prs, pts, imr, rcr, tx, phy, irq>>
ghosts == <<faults, shed, cut>>
vars == <<chip, lock, sem, pcT, pcI, pcS, susp, ghosts>>

TypeOK ==
  /\ fifo \in 0..FifoSize /\ sem \in 0..SemMax /\ faults \in 0..MaxFaults
  /\ {prs, pts, imr, rcr, tx, phy, irq, shed, cut} \subseteq BOOLEAN
  /\ lock \in {None, "tcpip", "input"}
  /\ pcT \in {"idle", "wait", "start", "poll", "phywait"}
  /\ pcI \in {"pend", "try", "wait", "read", "settle", "enable", "drain"}
  /\ pcS \in {"awake", "suspend6", "halt", "stopped", "init", "unmask", "resume5", "resume6"}
  /\ susp \subseteq {"tcpip", "input"}

\* After DM9000_Init at the boot, lwip_comm.c.
Init ==
  /\ fifo = 0 /\ prs = FALSE /\ pts = FALSE /\ imr = TRUE /\ rcr = TRUE
  /\ tx = FALSE /\ phy = TRUE /\ irq = FALSE
  /\ lock = None /\ sem = 0
  /\ pcT = "idle" /\ pcI = "pend" /\ pcS = "awake" /\ susp = {}
  /\ faults = 0 /\ shed = FALSE /\ cut = FALSE

(***************************************************************************)
(* The chip.                                                               *)
(***************************************************************************)
\* The line falls when an unmasked flag goes up, or the mask is lifted from one that is up.
Edge(flagNow, maskNow) == irq' = (irq \/ (flagNow /\ maskNow /\ ~(prs /\ imr)))

FrameArrives ==
  /\ rcr /\ phy /\ fifo < FifoSize
  /\ fifo' = fifo + 1 /\ prs' = TRUE
  /\ Edge(TRUE, imr)
  /\ UNCHANGED <<pts, imr, rcr, tx, phy, lock, sem, pcT, pcI, pcS, susp, ghosts>>

TxDone ==
  /\ tx /\ phy
  /\ tx' = FALSE /\ pts' = TRUE
  /\ UNCHANGED <<fifo, prs, imr, rcr, phy, irq, lock, sem, pcT, pcI, pcS, susp, ghosts>>

\* EXTI9_5_IRQHandler: the latch is cleared, then DMA9000_ISRHandler while the line is low.
EXTI9_5_IRQHandler ==
  /\ irq
  /\ irq' = FALSE
  /\ IF prs /\ imr
       THEN /\ prs' = FALSE /\ pts' = FALSE
            /\ sem' = IF sem < SemMax THEN sem + 1 ELSE sem
       ELSE UNCHANGED <<prs, pts, sem>>
  /\ UNCHANGED <<fifo, imr, rcr, tx, phy, lock, pcT, pcI, pcS, susp, ghosts>>

(***************************************************************************)
(* Who can run.                                                            *)
(***************************************************************************)
TcpipBlocked == "tcpip" \in susp \/ pcT \in {"idle", "wait", "phywait"}
InputBlocked == "input" \in susp \/ (pcI = "pend" /\ sem = 0) \/ pcI \in {"wait", "settle"}

TcpipRuns == ~irq /\ "tcpip" \notin susp
InputRuns == ~irq /\ "input" \notin susp /\ TcpipBlocked
LowerRuns == ~irq /\ TcpipBlocked /\ InputBlocked

\* OSMutexPost hands the lock to a task that waits for it, suspended or not.
HandToInput ==
  IF pcI = "wait" THEN lock' = "input" /\ pcI' = "read" ELSE lock' = None /\ UNCHANGED pcI
HandToTcpip ==
  IF pcT = "wait" THEN lock' = "tcpip" /\ pcT' = "start" ELSE lock' = None /\ UNCHANGED pcT

(***************************************************************************)
(* DM9000_SendPacket, in tcpip_thread.                                     *)
(***************************************************************************)
SendPacket ==
  /\ TcpipRuns /\ pcT = "idle"
  /\ IF lock = None THEN lock' = "tcpip" /\ pcT' = "start" ELSE pcT' = "wait" /\ UNCHANGED lock
  /\ UNCHANGED <<chip, sem, pcI, pcS, susp, ghosts>>

\* The interrupt masked, the frame copied, the transmission started.
StartTransmit ==
  /\ TcpipRuns /\ pcT = "start"
  /\ imr' = FALSE /\ tx' = TRUE /\ pcT' = "poll"
  /\ UNCHANGED <<fifo, prs, pts, rcr, phy, irq, lock, sem, pcI, pcS, susp, ghosts>>

\* Mutant of FinishSend: every flag is cleared, not only that of the transmission.
FinishSendClearsAll ==
  /\ pts' = FALSE /\ prs' = FALSE /\ imr' = TRUE /\ UNCHANGED irq
  /\ pcT' = "idle" /\ HandToInput
  /\ UNCHANGED <<fifo, rcr, tx, phy, sem, pcS, susp, ghosts>>

\* The end of the send: flag cleared, interrupt unmasked, lock handed on.
FinishSend ==
  /\ pts' = FALSE /\ imr' = TRUE /\ Edge(prs, TRUE)
  /\ pcT' = "idle" /\ HandToInput
  /\ UNCHANGED <<fifo, prs, rcr, tx, phy, sem, pcS, susp, ghosts>>

\* The flag looked at; while it is down, Get_PhyPower, which waits 10 ms for the PHY.
PollTransmit ==
  /\ TcpipRuns /\ pcT = "poll"
  /\ IF pts THEN FinishSend
     ELSE pcT' = "phywait" /\ UNCHANGED <<chip, lock, sem, pcI, pcS, susp, ghosts>>

\* Mutant of PhyRead: the send waits on, whether or not the PHY has power.
PhyReadIgnored ==
  /\ TcpipRuns /\ pcT = "phywait"
  /\ pcT' = "poll" /\ UNCHANGED <<chip, lock, sem, pcI, pcS, susp, ghosts>>

PhyRead ==
  /\ TcpipRuns /\ pcT = "phywait"
  /\ IF phy THEN pcT' = "poll" /\ UNCHANGED <<chip, lock, sem, pcI, pcS, susp, ghosts>>
     ELSE FinishSend

Tcpip == SendPacket \/ StartTransmit \/ PollTransmit \/ PhyRead

(***************************************************************************)
(* ethernetif_input and DM9000_Receive_Packet, in the input task.          *)
(***************************************************************************)
TakeSemaphore ==
  /\ InputRuns /\ pcI = "pend" /\ sem > 0
  /\ sem' = sem - 1 /\ pcI' = "try" /\ shed' = FALSE
  /\ UNCHANGED <<chip, lock, pcT, pcS, susp, faults, cut>>

ReceivePacket ==
  /\ InputRuns /\ pcI = "try"
  /\ IF lock = None THEN lock' = "input" /\ pcI' = "read" ELSE pcI' = "wait" /\ UNCHANGED lock
  /\ UNCHANGED <<chip, sem, pcT, pcS, susp, ghosts>>

Reading == InputRuns /\ pcI = "read"

\* A good frame is handed to tcpip_thread, and the next one asked for.
TakeFrame ==
  /\ Reading /\ fifo > 0
  /\ fifo' = fifo - 1
  /\ pcI' = "try" /\ HandToTcpip
  /\ UNCHANGED <<prs, pts, imr, rcr, tx, phy, irq, sem, pcS, susp, ghosts>>

Fault == Reading /\ fifo > 0 /\ faults < MaxFaults /\ faults' = faults + 1

\* A frame with an error is read and dropped: __error_retry.
DropFrame ==
  /\ Fault
  /\ fifo' = fifo - 1
  /\ UNCHANGED <<prs, pts, imr, rcr, tx, phy, irq, lock, sem, pcT, pcI, pcS, susp, shed, cut>>

\* A length no frame has: the chip is reset by its own register, which stops its receiver
\* and masks its interrupt, and the next frame looked for after 5 ms.
FrameTooLong ==
  /\ Fault
  /\ fifo' = 0 /\ prs' = FALSE /\ pts' = FALSE /\ imr' = FALSE /\ rcr' = FALSE
  /\ pcI' = "settle"
  /\ UNCHANGED <<tx, phy, irq, lock, sem, pcT, pcS, susp, shed, cut>>

Settled ==
  /\ InputRuns /\ pcI = "settle"
  /\ pcI' = "read"
  /\ UNCHANGED <<chip, lock, sem, pcT, pcS, susp, ghosts>>

\* No pbuf: the frame is read away, two bytes at a time until none is left, which for an odd
\* length never comes; otherwise the caller is told that nothing was received.
NoPbuf ==
  /\ Fault
  /\ fifo' = fifo - 1
  /\ \/ pcI' = "drain" /\ UNCHANGED <<lock, pcT, shed>>
     \/ pcI' = "pend" /\ HandToTcpip /\ shed' = TRUE
  /\ UNCHANGED <<prs, pts, imr, rcr, tx, phy, irq, sem, pcS, susp, cut>>

\* A header that is neither 0 nor 1: the receiver is stopped and the lock kept.
BadHeader ==
  /\ Fault
  /\ rcr' = FALSE /\ pcI' = "pend"
  /\ UNCHANGED <<fifo, prs, pts, imr, tx, phy, irq, lock, sem, pcT, pcS, susp, shed, cut>>

NothingReceived ==
  /\ Reading /\ fifo = 0
  /\ pcI' = "enable"
  /\ UNCHANGED <<chip, lock, sem, pcT, pcS, susp, ghosts>>

\* The transmit flag is cleared and the receive interrupt enabled: back to the semaphore.
EnableReceive ==
  /\ InputRuns /\ pcI = "enable"
  /\ pts' = FALSE /\ imr' = TRUE /\ Edge(prs, TRUE)
  /\ pcI' = "pend" /\ HandToTcpip
  /\ UNCHANGED <<fifo, prs, rcr, tx, phy, sem, pcS, susp, ghosts>>

Input ==
  \/ TakeSemaphore \/ ReceivePacket \/ TakeFrame \/ DropFrame \/ FrameTooLong \/ Settled
  \/ NoPbuf \/ BadHeader \/ NothingReceived \/ EnableReceive

(***************************************************************************)
(* The tasks of lower priority.                                            *)
(***************************************************************************)
\* DM9000_Set_PhyPower(0) of the FTP task, which need not be over when the stop begins.
PhyOff ==
  /\ LowerRuns /\ pcS \in {"awake", "suspend6"}
  /\ phy /\ phy' = FALSE
  /\ UNCHANGED <<fifo, prs, pts, imr, rcr, tx, irq, lock, sem, pcT, pcI, pcS, susp, ghosts>>

Stop(from, to) == LowerRuns /\ pcS = from /\ pcS' = to /\ UNCHANGED <<lock, sem, pcT, pcI, faults, shed>>

SuspendTcpip == Stop("awake", "suspend6") /\ susp' = susp \cup {"tcpip"} /\ UNCHANGED <<chip, cut>>
SuspendInput == Stop("suspend6", "halt") /\ susp' = susp \cup {"input"} /\ UNCHANGED <<chip, cut>>

ChipCleared ==
  /\ fifo' = 0 /\ prs' = FALSE /\ pts' = FALSE /\ imr' = FALSE /\ rcr' = FALSE
  /\ tx' = FALSE /\ irq' = FALSE

\* enter_stop_mode: the interrupt disabled and the power of the chip switched off.
EnterStop == Stop("halt", "stopped") /\ ChipCleared /\ phy' = FALSE /\ UNCHANGED <<susp, cut>>

\* DM9000_Init at the wake-up, to the receiver's start: no lock is taken.
ResetChip ==
  /\ Stop("stopped", "init") /\ ChipCleared /\ phy' = TRUE
  /\ cut' = (cut \/ pcT = "phywait")
  /\ UNCHANGED susp

WrongId == Stop("init", "resume5") /\ UNCHANGED <<chip, susp, cut>>

EnableReceiver ==
  /\ Stop("init", "unmask") /\ rcr' = TRUE
  /\ UNCHANGED <<fifo, prs, pts, imr, tx, phy, irq, susp, cut>>

UnmaskInterrupt ==
  /\ Stop("unmask", "resume5") /\ imr' = TRUE /\ Edge(prs, TRUE)
  /\ UNCHANGED <<fifo, prs, pts, rcr, tx, phy, susp, cut>>

ResumeTcpip == Stop("resume5", "resume6") /\ susp' = susp \ {"tcpip"} /\ UNCHANGED <<chip, cut>>
ResumeInput == Stop("resume6", "awake") /\ susp' = susp \ {"input"} /\ UNCHANGED <<chip, cut>>

StopGoesOn ==
  \/ SuspendInput \/ EnterStop \/ ResetChip \/ WrongId \/ EnableReceiver \/ UnmaskInterrupt
  \/ ResumeTcpip \/ ResumeInput

Next ==
  \/ FrameArrives \/ TxDone \/ EXTI9_5_IRQHandler
  \/ Tcpip \/ Input
  \/ PhyOff \/ SuspendTcpip \/ StopGoesOn

\* An edge raises its interrupt, a transmission with power comes to its end, a stop once begun
\* goes on to the wake-up.  Strong fairness of the two tasks: a stop leaves them at least 20 s
\* (thread.c:293), so one that can run, or whose delay of some ms is over, does run between two
\* stops.  Nothing makes a frame arrive, a send or a stop begin.
Fairness ==
  /\ WF_vars(TxDone) /\ WF_vars(EXTI9_5_IRQHandler)
  /\ SF_vars(StartTransmit \/ PollTransmit \/ PhyRead) /\ SF_vars(Input) /\ WF_vars(StopGoesOn)

Spec == Init /\ [][Next]_vars
FairSpec == Spec /\ Fairness

(***************************************************************************)
(* Properties.                                                             *)
(***************************************************************************)

\* While the input task sleeps on its semaphore, a frame in a receiving chip will wake it: its
\* interrupt is latched, or its flag is up and the one who masked it will lift the mask (the
\* sender, or the stop task in DM9000_Init).  Left out: a frame that no pbuf could be had for
\* makes the task leave off, and what is behind it waits for the next one (dm9000.c:585-591,
\* 489-490 and the interrupt at 602; ethernetif.c:57-77).
NoFrameStranded ==
  rcr /\ fifo > 0 /\ pcI = "pend" /\ sem = 0 /\ ~shed =>
    irq \/ (prs /\ ~imr /\ (pcT \in {"poll", "phywait"} \/ pcS = "unmask"))

\* Why no frame is stranded: while the line is low its edge is latched; the interrupt is
\* masked in a receiving chip only by one who will unmask it; and frames whose flag was taken
\* down have a count on the semaphore, or the input task on its way to them. A chip without
\* power, or just reset, holds none.
LowLineLatched == prs /\ imr => irq
MaskedForATime == rcr /\ ~imr => pcT \in {"poll", "phywait"} \/ pcS = "unmask"
FramesAnnounced ==
  rcr /\ fifo > 0 /\ ~prs => sem > 0 \/ pcI \in {"try", "wait", "read", "drain"} \/ shed
StoppedEmpty == pcS \in {"stopped", "init"} => fifo = 0 /\ ~rcr

\* The input task keeps the lock for ever: after a bad header, or reading an odd frame away.
Wedged == pcI = "drain" \/ (lock = "input" /\ pcI \in {"pend", "wait"})

\* Every send comes to its end, also when the PHY is switched off under it or the station stops
\* between, unless the chip was reset under one or the input task keeps the lock
\* (dm9000.c:487, the wait for the end of the transmission or of the PHY's power).
SendEnds == (pcT # "idle") ~> (pcT = "idle" \/ cut \/ Wedged)

\* dm9000.c:487, 'wait for the send to complete': a send once begun is completed or given up.
SendCompletes == (pcT = "poll") ~> (pcT = "idle")
=============================================================================
