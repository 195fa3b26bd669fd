-------------------------- MODULE EthDriverProofs --------------------------
(***************************************************************************)
(* Proofs that the driver strands no frame, and that its lock keeps the    *)
(* two tasks apart at the chip, for every size of the receive buffer,      *)
(* every limit of the semaphore and any number of faults.                  *)
(***************************************************************************)
EXTENDS EthDriver, TLAPS

\* The part of the type invariant the argument needs.
Types ==
  /\ fifo \in Nat /\ sem \in Nat
  /\ prs \in BOOLEAN /\ imr \in BOOLEAN /\ rcr \in BOOLEAN /\ irq \in BOOLEAN /\ shed \in BOOLEAN

IInv == Types /\ LowLineLatched /\ MaskedForATime /\ FramesAnnounced /\ StoppedEmpty

\* The chip starts with an empty buffer and its interrupt unmasked.
LEMMA InitIInv == Init => IInv
<1> SUFFICES ASSUME Init PROVE IInv
    OBVIOUS
<1>1. Types BY DEF Init, Types
<1>2. LowLineLatched BY Zenon DEF Init, LowLineLatched
<1>3. MaskedForATime BY Zenon DEF Init, MaskedForATime
<1>4. FramesAnnounced BY DEF Init, FramesAnnounced
<1>5. StoppedEmpty BY DEF Init, StoppedEmpty
<1> QED BY <1>1, <1>2, <1>3, <1>4, <1>5 DEF IInv

\* What the chip and the interrupt do by themselves.
LEMMA ChipKeepsIInv ==
  ASSUME IInv, FrameArrives \/ TxDone \/ EXTI9_5_IRQHandler
  PROVE  IInv'
<1> USE BoundsAssumption DEF IInv, Types, LowLineLatched, MaskedForATime, FramesAnnounced, StoppedEmpty, ghosts
<1>1. CASE FrameArrives BY <1>1 DEF FrameArrives, Edge
<1>2. CASE TxDone BY <1>2 DEF TxDone
<1>3. CASE EXTI9_5_IRQHandler
  <2> USE <1>3 DEF EXTI9_5_IRQHandler
  <2>1. Types'
    <3>1. fifo' \in Nat /\ sem' \in Nat OBVIOUS
    <3>2. prs' \in BOOLEAN /\ imr' \in BOOLEAN /\ rcr' \in BOOLEAN BY Zenon
    <3>3. irq' \in BOOLEAN /\ shed' \in BOOLEAN BY Zenon
    <3> QED BY <3>1, <3>2, <3>3
  <2>2. LowLineLatched' OBVIOUS
  <2>3. MaskedForATime' OBVIOUS
  <2>4. FramesAnnounced' OBVIOUS
  <2>5. StoppedEmpty' OBVIOUS
  <2> QED BY <2>1, <2>2, <2>3, <2>4, <2>5
<1> QED BY <1>1, <1>2, <1>3

\* A send masks the interrupt, and unmasks it at its end.
LEMMA TcpipKeepsIInv ==
  ASSUME IInv, Tcpip
  PROVE  IInv'
<1> USE DEF IInv, Types, LowLineLatched, MaskedForATime, FramesAnnounced, StoppedEmpty, ghosts, chip
<1>1. CASE SendPacket BY <1>1 DEF SendPacket
<1>2. CASE StartTransmit BY <1>2 DEF StartTransmit
<1>3. ASSUME FinishSend, pcT \in {"poll", "phywait"} PROVE IInv'
      BY <1>3 DEF FinishSend, HandToInput, Edge
<1>4. CASE PollTransmit BY <1>3, <1>4 DEF PollTransmit
<1>5. CASE PhyRead BY <1>3, <1>5 DEF PhyRead
<1> QED BY <1>1, <1>2, <1>4, <1>5 DEF Tcpip

\* The input task leaves its loop only when the buffer is empty, or for want of a pbuf.
LEMMA InputKeepsIInv ==
  ASSUME IInv, Input
  PROVE  IInv'
<1> USE DEF IInv, Types, LowLineLatched, MaskedForATime, FramesAnnounced, StoppedEmpty, ghosts, chip, HandToTcpip
<1>1. CASE TakeSemaphore
  <2> USE <1>1 DEF TakeSemaphore
  <2>1. Types'
    <3>1. fifo' \in Nat /\ sem' \in Nat OBVIOUS
    <3>2. prs' \in BOOLEAN /\ imr' \in BOOLEAN /\ rcr' \in BOOLEAN BY Zenon
    <3>3. irq' \in BOOLEAN /\ shed' \in BOOLEAN BY Zenon
    <3> QED BY <3>1, <3>2, <3>3
  <2>2. LowLineLatched' OBVIOUS
  <2>3. MaskedForATime' OBVIOUS
  <2>4. FramesAnnounced' OBVIOUS
  <2>5. StoppedEmpty' OBVIOUS
  <2> QED BY <2>1, <2>2, <2>3, <2>4, <2>5
<1>2. CASE ReceivePacket BY <1>2 DEF ReceivePacket
<1>3. CASE TakeFrame BY <1>3 DEF TakeFrame, Reading
<1>4. CASE DropFrame BY <1>4 DEF DropFrame, Fault, Reading
<1>5. CASE FrameTooLong BY <1>5 DEF FrameTooLong, Fault, Reading
<1>6. CASE Settled BY <1>6 DEF Settled
<1>7. CASE NoPbuf
  <2> USE <1>7 DEF NoPbuf, Fault, Reading
  <2>1. Types'
    <3>1. fifo' \in Nat /\ sem' \in Nat OBVIOUS
    <3>2. prs' \in BOOLEAN /\ imr' \in BOOLEAN /\ rcr' \in BOOLEAN BY Zenon
    <3>3. irq' \in BOOLEAN /\ shed' \in BOOLEAN BY Zenon
    <3> QED BY <3>1, <3>2, <3>3
  <2>2. LowLineLatched' OBVIOUS
  <2>3. MaskedForATime' OBVIOUS
  <2>4. FramesAnnounced' OBVIOUS
  <2>5. StoppedEmpty' OBVIOUS
  <2> QED BY <2>1, <2>2, <2>3, <2>4, <2>5
<1>8. CASE BadHeader BY <1>8 DEF BadHeader, Fault, Reading
<1>9. CASE NothingReceived BY <1>9 DEF NothingReceived, Reading
<1>10. CASE EnableReceive BY <1>10 DEF EnableReceive, Edge
<1> QED BY <1>1, <1>2, <1>3, <1>4, <1>5, <1>6, <1>7, <1>8, <1>9, <1>10 DEF Input

\* The FTP task and the stop task, whatever they interrupt.
LEMMA LowerKeepsIInv ==
  ASSUME IInv, PhyOff \/ SuspendTcpip \/ StopGoesOn
  PROVE  IInv'
<1> USE DEF IInv, Types, LowLineLatched, MaskedForATime, FramesAnnounced, StoppedEmpty, ghosts, chip, Stop, ChipCleared
<1>1. CASE PhyOff BY <1>1 DEF PhyOff
<1>2. CASE SuspendTcpip BY <1>2 DEF SuspendTcpip
<1>3. CASE SuspendInput BY <1>3 DEF SuspendInput
<1>4. CASE EnterStop BY <1>4 DEF EnterStop
<1>5. CASE ResetChip BY <1>5 DEF ResetChip
<1>6. CASE WrongId BY <1>6 DEF WrongId
<1>7. CASE EnableReceiver
  <2> USE <1>7 DEF EnableReceiver
  <2>1. Types'
    <3>1. fifo' \in Nat /\ sem' \in Nat OBVIOUS
    <3>2. prs' \in BOOLEAN /\ imr' \in BOOLEAN /\ rcr' \in BOOLEAN BY Zenon
    <3>3. irq' \in BOOLEAN /\ shed' \in BOOLEAN BY Zenon
    <3> QED BY <3>1, <3>2, <3>3
  <2>2. LowLineLatched' OBVIOUS
  <2>3. MaskedForATime' OBVIOUS
  <2>4. FramesAnnounced' OBVIOUS
  <2>5. StoppedEmpty' OBVIOUS
  <2> QED BY <2>1, <2>2, <2>3, <2>4, <2>5
<1>8. CASE UnmaskInterrupt BY <1>8 DEF UnmaskInterrupt, Edge
<1>9. CASE ResumeTcpip BY <1>9 DEF ResumeTcpip
<1>10. CASE ResumeInput BY <1>10 DEF ResumeInput
<1> QED BY <1>1, <1>2, <1>3, <1>4, <1>5, <1>6, <1>7, <1>8, <1>9, <1>10 DEF StopGoesOn

\* The three parts of the argument hold for ever.
LEMMA Invariance == Spec => []IInv
<1>1. IInv /\ [Next]_vars => IInv'
  <2> SUFFICES ASSUME IInv, [Next]_vars PROVE IInv'
      OBVIOUS
  <2>1. CASE UNCHANGED vars
        BY <2>1 DEF vars, chip, ghosts, IInv, Types, LowLineLatched, MaskedForATime, FramesAnnounced, StoppedEmpty
  <2>2. CASE Next
        BY <2>2, ChipKeepsIInv, TcpipKeepsIInv, InputKeepsIInv, LowerKeepsIInv DEF Next
  <2> QED BY <2>1, <2>2
<1> QED BY InitIInv, <1>1, PTL DEF Spec

\* No frame waits in a receiving chip while the input task sleeps and nothing will wake it,
\* whatever the interrupt falls between in the sender, the receiver and the stop task.
THEOREM NoFrameStrandedAlways == Spec => []NoFrameStranded
<1>1. IInv => NoFrameStranded
      BY DEF IInv, Types, LowLineLatched, MaskedForATime, FramesAnnounced, NoFrameStranded
<1> QED BY Invariance, <1>1, PTL

(***************************************************************************)
(* Types, and the lock of the driver.                                      *)
(***************************************************************************)
AtChipT == pcT \in {"start", "poll", "phywait"}
AtChipI == pcI \in {"read", "settle", "enable", "drain"}

\* What the lock is worth: the two tasks are at the chip's registers only as its owner, so never
\* together, and no task waits for a lock that is free.
ChipLocked ==
  /\ AtChipT <=> lock = "tcpip"
  /\ AtChipI => lock = "input"
  /\ pcT = "wait" => lock = "input"
  /\ pcI = "wait" => lock # None

\* The flags of the chip and the two that are remembered, one by one.
FlagsTyped ==
  /\ prs \in BOOLEAN /\ pts \in BOOLEAN /\ imr \in BOOLEAN /\ rcr \in BOOLEAN /\ tx \in BOOLEAN
  /\ phy \in BOOLEAN /\ irq \in BOOLEAN /\ shed \in BOOLEAN /\ cut \in BOOLEAN

\* The rest of the types: places, counts and the owner.
CountsTyped == fifo \in 0..FifoSize /\ sem \in 0..SemMax /\ faults \in 0..MaxFaults
PlacesTyped ==
  /\ lock \in {None, "tcpip", "input"}
  /\ pcT \in {"idle", "wait", "start", "poll", "phywait"}
  /\ pcI \in {"pend", "try", "wait", "read", "settle", "enable", "drain"}
  /\ pcS \in {"awake", "suspend6", "halt", "stopped", "init", "unmask", "resume5", "resume6"}
  /\ susp \subseteq {"tcpip", "input"}

\* The type invariant is these three; the provers take them one at a time.
LEMMA TypesInParts == TypeOK <=> FlagsTyped /\ CountsTyped /\ PlacesTyped
BY Zenon DEF TypeOK, FlagsTyped, CountsTyped, PlacesTyped

\* No step makes a flag anything but a truth value.
LEMMA FlagsStayTyped == ASSUME FlagsTyped, [Next]_vars PROVE FlagsTyped'
<1> USE DEF FlagsTyped, vars, chip, ghosts
<1>1. CASE UNCHANGED vars BY <1>1, Zenon
<1>2. CASE FrameArrives \/ TxDone \/ EXTI9_5_IRQHandler
      BY <1>2, Zenon DEF FrameArrives, TxDone, EXTI9_5_IRQHandler, Edge
<1>3. CASE Tcpip
  <2>1. CASE SendPacket \/ StartTransmit BY <2>1, Zenon DEF SendPacket, StartTransmit
  <2>2. ASSUME FinishSend PROVE FlagsTyped' BY <2>2, Zenon DEF FinishSend, Edge
  <2>3. CASE PollTransmit \/ PhyRead BY <2>2, <2>3, Zenon DEF PollTransmit, PhyRead
  <2> QED BY <1>3, <2>1, <2>2, <2>3, Zenon DEF Tcpip
<1>4. CASE Input
  <2>1. CASE TakeSemaphore \/ ReceivePacket \/ TakeFrame \/ DropFrame \/ Settled
    <3>1. CASE TakeSemaphore BY <3>1, Zenon DEF TakeSemaphore
    <3>2. CASE ReceivePacket \/ Settled BY <3>2, Zenon DEF ReceivePacket, Settled
    <3>3. CASE TakeFrame \/ DropFrame BY <3>3, Zenon DEF TakeFrame, DropFrame
    <3> QED BY <2>1, <3>1, <3>2, <3>3, Zenon
  <2>2. CASE FrameTooLong \/ NoPbuf \/ BadHeader \/ NothingReceived \/ EnableReceive
    <3>1. CASE FrameTooLong \/ BadHeader \/ NothingReceived
          BY <3>1, Zenon DEF FrameTooLong, BadHeader, NothingReceived
    <3>2. CASE NoPbuf BY <3>2, Zenon DEF NoPbuf
    <3>3. CASE EnableReceive BY <3>3, Zenon DEF EnableReceive, Edge
    <3> QED BY <2>2, <3>1, <3>2, <3>3, Zenon
  <2> QED BY <1>4, <2>1, <2>2, Zenon DEF Input
<1>5. CASE PhyOff \/ SuspendTcpip
      BY <1>5, Zenon DEF PhyOff, SuspendTcpip, Stop
<1>6. CASE StopGoesOn
  <2>1. CASE SuspendInput \/ WrongId \/ ResumeTcpip \/ ResumeInput
    <3>1. UNCHANGED <<prs, pts, imr, rcr, tx, phy, irq, shed, cut>>
          BY <2>1, Zenon DEF SuspendInput, WrongId, ResumeTcpip, ResumeInput, Stop
    <3> QED BY <3>1, Zenon
  <2>2. CASE EnterStop BY <2>2, Zenon DEF EnterStop, ChipCleared, Stop
  <2>3. CASE ResetChip BY <2>3, Zenon DEF ResetChip, ChipCleared, Stop
  <2>4. CASE EnableReceiver BY <2>4, Zenon DEF EnableReceiver, Stop
  <2>5. CASE UnmaskInterrupt BY <2>5, Zenon DEF UnmaskInterrupt, Edge, Stop
  <2> QED BY <1>6, <2>1, <2>2, <2>3, <2>4, <2>5, Zenon DEF StopGoesOn
<1> QED BY <1>1, <1>2, <1>3, <1>4, <1>5, <1>6, Zenon DEF Next

\* The buffer and the semaphore stay within their limits.
LEMMA CountsStayTyped == ASSUME CountsTyped, [Next]_vars PROVE CountsTyped'
<1> USE BoundsAssumption DEF CountsTyped, vars, chip, ghosts
<1>1. CASE UNCHANGED vars BY <1>1
<1>2. CASE FrameArrives \/ TxDone \/ EXTI9_5_IRQHandler
  <2>1. CASE FrameArrives BY <2>1 DEF FrameArrives
  <2>2. CASE TxDone BY <2>2 DEF TxDone
  <2>3. CASE EXTI9_5_IRQHandler
    <3>1. sem' = sem \/ (sem < SemMax /\ sem' = sem + 1)
          BY <2>3, Zenon DEF EXTI9_5_IRQHandler
    <3>2. fifo' = fifo /\ faults' = faults BY <2>3, Zenon DEF EXTI9_5_IRQHandler
    <3> QED BY <3>1, <3>2
  <2> QED BY <1>2, <2>1, <2>2, <2>3
<1>3. CASE Tcpip
  <2>1. fifo' = fifo /\ sem' = sem /\ faults' = faults
        BY <1>3, Zenon DEF Tcpip, SendPacket, StartTransmit, PollTransmit, PhyRead, FinishSend
  <2> QED BY <2>1
<1>4. CASE Input
  <2>1. CASE TakeSemaphore
    <3>1. sem > 0 /\ sem' = sem - 1 /\ fifo' = fifo /\ faults' = faults
          BY <2>1, Zenon DEF TakeSemaphore
    <3> QED BY <3>1
  <2>2. CASE ReceivePacket \/ Settled \/ NothingReceived \/ EnableReceive
    <3>1. fifo' = fifo /\ sem' = sem /\ faults' = faults
          BY <2>2, Zenon DEF ReceivePacket, Settled, NothingReceived, EnableReceive
    <3> QED BY <3>1
  <2>3. CASE TakeFrame
    <3>1. fifo > 0 /\ fifo' = fifo - 1 /\ sem' = sem /\ faults' = faults
          BY <2>3, Zenon DEF TakeFrame, Reading
    <3> QED BY <3>1
  <2>4. CASE DropFrame \/ FrameTooLong \/ NoPbuf \/ BadHeader
    <3>1. /\ fifo > 0 /\ faults < MaxFaults /\ faults' = faults + 1 /\ sem' = sem
          /\ fifo' = fifo \/ fifo' = fifo - 1 \/ fifo' = 0
          BY <2>4, Zenon DEF DropFrame, FrameTooLong, NoPbuf, BadHeader, Fault
    <3> QED BY <3>1
  <2> QED BY <1>4, <2>1, <2>2, <2>3, <2>4 DEF Input
<1>5. CASE PhyOff \/ SuspendTcpip \/ StopGoesOn
  <2>1. sem' = sem /\ faults' = faults /\ (fifo' = fifo \/ fifo' = 0)
        BY <1>5, Zenon DEF PhyOff, SuspendTcpip, StopGoesOn, SuspendInput, EnterStop, ResetChip, WrongId,
           EnableReceiver, UnmaskInterrupt, ResumeTcpip, ResumeInput, Stop, ChipCleared
  <2> QED BY <2>1
<1> QED BY <1>1, <1>2, <1>3, <1>4, <1>5 DEF Next

LockedPlaces == PlacesTyped /\ ChipLocked

\* The lock is taken free, or handed over by its owner; the stop task and the FTP task leave it alone.
LEMMA LockStaysTrue == ASSUME LockedPlaces, [Next]_vars PROVE LockedPlaces'
<1> USE NoneAssumption DEF LockedPlaces, PlacesTyped, ChipLocked, AtChipT, AtChipI, vars, ghosts
<1>1. CASE UNCHANGED vars BY <1>1
<1>2. CASE FrameArrives \/ TxDone \/ EXTI9_5_IRQHandler
      BY <1>2 DEF FrameArrives, TxDone, EXTI9_5_IRQHandler
<1>3. CASE Tcpip
  <2>1. CASE SendPacket BY <2>1 DEF SendPacket
  <2>2. CASE StartTransmit BY <2>2 DEF StartTransmit
  <2>3. ASSUME FinishSend, pcT \in {"poll", "phywait"} PROVE LockedPlaces'
        BY <2>3 DEF FinishSend, HandToInput
  <2>4. CASE PollTransmit BY <2>3, <2>4 DEF PollTransmit
  <2>5. CASE PhyRead BY <2>3, <2>5 DEF PhyRead
  <2> QED BY <1>3, <2>1, <2>2, <2>4, <2>5 DEF Tcpip
<1>4. CASE Input
  <2>1. CASE TakeSemaphore \/ ReceivePacket BY <2>1 DEF TakeSemaphore, ReceivePacket
  <2>2. CASE TakeFrame BY <2>2 DEF TakeFrame, Reading, HandToTcpip
  <2>3. CASE DropFrame \/ FrameTooLong \/ Settled
        BY <2>3 DEF DropFrame, FrameTooLong, Settled, Fault, Reading
  <2>4. CASE NoPbuf BY <2>4 DEF NoPbuf, Fault, Reading, HandToTcpip
  <2>5. CASE BadHeader \/ NothingReceived BY <2>5 DEF BadHeader, NothingReceived, Fault, Reading
  <2>6. CASE EnableReceive BY <2>6 DEF EnableReceive, HandToTcpip
  <2> QED BY <1>4, <2>1, <2>2, <2>3, <2>4, <2>5, <2>6 DEF Input
<1>5. CASE PhyOff \/ SuspendTcpip
      BY <1>5 DEF PhyOff, SuspendTcpip, Stop
<1>6. CASE StopGoesOn
      BY <1>6 DEF StopGoesOn, SuspendInput, EnterStop, ResetChip, WrongId, EnableReceiver,
         UnmaskInterrupt, ResumeTcpip, ResumeInput, Stop
<1> QED BY <1>1, <1>2, <1>3, <1>4, <1>5, <1>6 DEF Next

\* Types and lock together.
LEMMA LockInvariance == Spec => [](TypeOK /\ ChipLocked)
<1> DEFINE Inv == FlagsTyped /\ CountsTyped /\ LockedPlaces
<1>1. Init => Inv
  <2> SUFFICES ASSUME Init PROVE Inv
      OBVIOUS
  <2>1. FlagsTyped BY Zenon DEF Init, FlagsTyped
  <2>2. CountsTyped BY BoundsAssumption DEF Init, CountsTyped
  <2>3. LockedPlaces
        BY NoneAssumption DEF Init, LockedPlaces, PlacesTyped, ChipLocked, AtChipT, AtChipI
  <2> QED BY <2>1, <2>2, <2>3
<1>2. Inv /\ [Next]_vars => Inv'
      BY FlagsStayTyped, CountsStayTyped, LockStaysTrue
<1>3. Inv => TypeOK /\ ChipLocked
      BY TypesInParts, Zenon DEF LockedPlaces
<1> QED BY <1>1, <1>2, <1>3, PTL DEF Spec

\* The driver's variables keep their types: the buffer and the semaphore never pass their limits.
THEOREM DriverTypeCorrect == Spec => []TypeOK
<1> QED BY LockInvariance, PTL

\* dm9000lock does what it is for, whatever the stop task suspends: sender and receiver are at the chip
\* only as its owner, and neither is left waiting for a lock that is free.
THEOREM ChipLockedAlways == Spec => []ChipLocked
<1> QED BY LockInvariance, PTL

(***************************************************************************)
(* What can be proved of the end of a send without fairness: while it      *)
(* lasts something is still coming that ends it, and nothing takes that    *)
(* away.                                                                   *)
(***************************************************************************)
Sending == pcT \in {"poll", "phywait"}
StoppedT == pcS \in {"suspend6", "halt", "stopped", "init", "unmask", "resume5"}

\* How far the sender in its loop is from the end: 3 while neither the flag is up nor the power
\* off, 2 when the next look at the other of the two is still to come, 1 when this look ends it.
SendRank ==
  IF ~Sending THEN 0
  ELSE IF ~pts /\ phy THEN 3
  ELSE IF IF pcT = "poll" THEN pts ELSE ~phy THEN 1
  ELSE 2

\* A sender whose flag is down at a PHY with power has its frame on the way, unless the chip was
\* reset under it.
SenderServed == SendRank = 3 /\ ~cut => tx

\* The tasks are suspended between two looks at the flag, never before one; a reset that finds
\* the sender in its loop is remembered; and until then its interrupt stays masked, so neither
\* the handler nor the input task takes its flag down.
SenderInv ==
  /\ "tcpip" \in susp <=> StoppedT
  /\ "tcpip" \in susp => pcT # "poll"
  /\ pcS \in {"init", "unmask"} /\ pcT = "phywait" => cut
  /\ Sending /\ ~cut => ~imr /\ (pts \/ ~phy \/ tx)

\* The order of suspensions and resets around the sender, by every step.
LEMMA SenderStaysServed ==
  ASSUME TypeOK, ChipLocked, SenderInv, [Next]_vars
  PROVE  SenderInv'
<1> USE DEF SenderInv, Sending, StoppedT, vars, chip, ghosts
<1>0. FlagsTyped /\ PlacesTyped /\ ChipLocked BY TypesInParts
<1>1. CASE UNCHANGED vars BY <1>1
<1>2. CASE FrameArrives BY <1>2 DEF FrameArrives
<1>3. CASE TxDone BY <1>3 DEF TxDone
<1>4. CASE EXTI9_5_IRQHandler BY <1>4 DEF EXTI9_5_IRQHandler
<1>5. CASE Tcpip
  <2>1. CASE SendPacket BY <2>1 DEF SendPacket
  <2>2. CASE StartTransmit BY <2>2 DEF StartTransmit, TcpipRuns
  <2>3. ASSUME FinishSend PROVE SenderInv' BY <2>3 DEF FinishSend
  <2>4. CASE PollTransmit BY <2>3, <2>4 DEF PollTransmit
  <2>5. CASE PhyRead BY <2>3, <2>5 DEF PhyRead, TcpipRuns
  <2> QED BY <1>5, <2>1, <2>2, <2>4, <2>5 DEF Tcpip
<1>6. CASE Input
  <2>1. CASE TakeSemaphore \/ ReceivePacket \/ Settled \/ NothingReceived
        BY <2>1 DEF TakeSemaphore, ReceivePacket, Settled, NothingReceived
  <2>2. CASE TakeFrame \/ DropFrame \/ NoPbuf \/ BadHeader
    <3>1. pcT' = pcT \/ (pcT = "wait" /\ pcT' \in {"start"})
          BY <2>2, Zenon DEF TakeFrame, DropFrame, NoPbuf, BadHeader, HandToTcpip
    <3>2. UNCHANGED <<susp, pcS, cut, imr, pts, phy, tx>>
          BY <2>2, Zenon DEF TakeFrame, DropFrame, NoPbuf, BadHeader
    <3> QED BY <3>1, <3>2
  <2>3. CASE FrameTooLong
    <3>1. ~Sending /\ pcT' = pcT
          BY <1>0, <2>3, NoneAssumption DEF ChipLocked, AtChipI, AtChipT, FrameTooLong, Fault, Reading
    <3> QED BY <2>3, <3>1 DEF FrameTooLong
  <2>4. CASE EnableReceive
    <3>1. ~Sending
          BY <1>0, <2>4, NoneAssumption DEF ChipLocked, AtChipI, AtChipT, EnableReceive
    <3>2. pcT' = pcT \/ (pcT = "wait" /\ pcT' \in {"start"})
          BY <2>4, Zenon DEF EnableReceive, HandToTcpip
    <3> QED BY <2>4, <3>1, <3>2 DEF EnableReceive
  <2> QED BY <1>6, <2>1, <2>2, <2>3, <2>4 DEF Input
<1>7. CASE PhyOff BY <1>7 DEF PhyOff
<1>8. CASE SuspendTcpip BY <1>8 DEF SuspendTcpip, Stop, LowerRuns, TcpipBlocked
<1>9. CASE StopGoesOn
  <2> USE DEF Stop, ChipCleared
  <2>1. CASE SuspendInput BY <2>1 DEF SuspendInput
  <2>2. CASE EnterStop BY <2>2 DEF EnterStop
  <2>3. CASE ResetChip BY <2>3 DEF ResetChip
  <2>4. CASE WrongId BY <2>4 DEF WrongId
  <2>5. CASE EnableReceiver BY <2>5 DEF EnableReceiver
  <2>6. CASE UnmaskInterrupt BY <2>6 DEF UnmaskInterrupt
  <2>7. CASE ResumeTcpip BY <2>7 DEF ResumeTcpip
  <2>8. CASE ResumeInput BY <2>8 DEF ResumeInput
  <2> QED BY <1>9, <2>1, <2>2, <2>3, <2>4, <2>5, <2>6, <2>7, <2>8 DEF StopGoesOn
<1> QED BY <1>1, <1>2, <1>3, <1>4, <1>5, <1>6, <1>7, <1>8, <1>9 DEF Next

\* The sender's own argument, beside the lock's.
LEMMA SenderInvariance == Spec => []SenderInv
<1>1. Init => SenderInv
      BY DEF Init, SenderInv, Sending, StoppedT
<1>2. TypeOK /\ ChipLocked /\ SenderInv /\ [Next]_vars => SenderInv'
      BY SenderStaysServed
<1> QED BY LockInvariance, <1>1, <1>2, PTL DEF Spec

\* The input task stays where a bad header or an odd frame leaves it, with the lock.
Kept == lock = "input" /\ pcI \notin {"settle", "read", "enable"}

\* How far the input task, at the chip, is from handing the lock on.
HandOver == IF pcI = "settle" THEN 3 ELSE IF pcI = "read" THEN 2 ELSE IF pcI = "enable" THEN 1 ELSE 0

\* In the loop no step takes the sender further from the end; the end of the transmission brings
\* it nearer, and once that is over (or the power off) every look of its own does.
LoopRunsDown ==
  Sending /\ ~cut' =>
    /\ SendRank' =< SendRank
    /\ SendRank = 3 /\ TxDone => SendRank' < SendRank
    /\ SendRank < 3 /\ (PollTransmit \/ PhyRead) => SendRank' < SendRank

\* Before it, waiting for the lock, every step of the input task hands the lock on, uses up one
\* of the faults, comes nearer the hand-over, or leaves the lock taken for ever; no other step
\* matters.
WaitRunsDown ==
  pcT = "wait" /\ ~Kept =>
    IF Input
      THEN \/ pcT' = "start" \/ Kept' \/ faults' > faults
           \/ faults' = faults /\ HandOver' < HandOver
      ELSE UNCHANGED <<pcT, pcI, faults>>

SendAdvances == [][LoopRunsDown /\ WaitRunsDown]_vars

\* The loop, step by step: only its own looks, the end of the transmission and a loss of power
\* touch what the sender waits for.
LEMMA LoopStep ==
  ASSUME TypeOK, ChipLocked, SenderInv, [Next]_vars
  PROVE  LoopRunsDown
<1> SUFFICES ASSUME Sending, ~cut'
             PROVE  /\ SendRank' =< SendRank
                    /\ SendRank = 3 /\ TxDone => SendRank' < SendRank
                    /\ SendRank < 3 /\ (PollTransmit \/ PhyRead) => SendRank' < SendRank
    BY DEF LoopRunsDown
<1> DEFINE Quiet == UNCHANGED <<pcT, pts, phy>>
<1>0. FlagsTyped /\ PlacesTyped /\ SendRank \in 1..3 /\ SendRank' \in 0..3
      BY TypesInParts DEF SendRank
<1>1. ASSUME PollTransmit \/ PhyRead
      PROVE  SendRank' =< SendRank /\ (SendRank < 3 => SendRank' < SendRank) /\ ~TxDone
  <2>1. CASE FinishSend
    <3>1. pcT' = "idle" /\ pts' = FALSE BY <2>1 DEF FinishSend
    <3>2. SendRank' = 0 BY <3>1 DEF SendRank, Sending
    <3>3. ~TxDone BY <3>1 DEF TxDone
    <3> QED BY <1>0, <3>2, <3>3
  <2>2. CASE ~FinishSend /\ PollTransmit
    <3>1. pcT = "poll" /\ ~pts /\ pcT' = "phywait" /\ pts' = pts /\ phy' = phy
          BY <2>2, Zenon DEF PollTransmit, chip
    <3>2. ~TxDone BY <3>1 DEF TxDone
    <3> QED BY <3>1, <3>2 DEF SendRank, Sending
  <2>3. CASE ~FinishSend /\ PhyRead
    <3>1. pcT = "phywait" /\ phy /\ pcT' = "poll" /\ pts' = pts /\ phy' = phy
          BY <2>3, Zenon DEF PhyRead, chip
    <3>2. ~TxDone BY <3>1 DEF TxDone
    <3> QED BY <3>1, <3>2 DEF SendRank, Sending
  <2> QED BY <1>1, <2>1, <2>2, <2>3
<1>2. ASSUME TxDone PROVE SendRank' =< SendRank /\ (SendRank = 3 => SendRank' < SendRank)
      BY <1>2 DEF TxDone, SendRank, Sending
<1>3. ASSUME Quiet PROVE SendRank' = SendRank BY <1>3 DEF SendRank, Sending
<1>4. ASSUME ~TxDone, ~PollTransmit, ~PhyRead PROVE SendRank' =< SendRank
  <2>1. CASE UNCHANGED vars BY <1>3, <2>1, <1>0 DEF vars, chip
  <2>2. CASE FrameArrives BY <1>3, <2>2, <1>0 DEF FrameArrives
  <2>3. CASE EXTI9_5_IRQHandler
    <3>1. ~imr \/ cut BY DEF SenderInv
    <3>2. Quiet BY <2>3, <3>1 DEF EXTI9_5_IRQHandler, ghosts
    <3> QED BY <1>3, <3>2, <1>0
  <2>4. CASE Tcpip BY <1>4, <2>4 DEF Tcpip, SendPacket, StartTransmit, Sending
  <2>5. CASE Input
    <3>1. ~(FrameTooLong \/ EnableReceive)
          BY NoneAssumption DEF ChipLocked, AtChipI, AtChipT, Sending, FrameTooLong, Fault, Reading, EnableReceive
    <3>2. pts' = pts /\ phy' = phy
          BY <2>5, <3>1, Zenon DEF Input, TakeSemaphore, ReceivePacket, TakeFrame, DropFrame, Settled, NoPbuf,
             BadHeader, NothingReceived, chip
    <3>3. pcT' = pcT
      <4>1. pcT # "wait" BY DEF Sending
      <4>2. ASSUME HandToTcpip PROVE pcT' = pcT BY <4>1, <4>2 DEF HandToTcpip
      <4> QED BY <2>5, <3>1, <4>2, Zenon DEF Input, TakeSemaphore, ReceivePacket, TakeFrame, DropFrame,
              Settled, NoPbuf, BadHeader, NothingReceived
    <3> QED BY <1>3, <3>2, <3>3, <1>0
  <2>6. CASE PhyOff BY <2>6 DEF PhyOff, SendRank, Sending
  <2>7. CASE SuspendTcpip BY <1>3, <2>7, <1>0 DEF SuspendTcpip, Stop, chip
  <2>8. CASE StopGoesOn
    <3> USE DEF Stop, ChipCleared
    <3>1. pcT' = pcT
          BY <2>8, Zenon DEF StopGoesOn, SuspendInput, EnterStop, ResetChip, WrongId, EnableReceiver,
             UnmaskInterrupt, ResumeTcpip, ResumeInput
    <3>2. CASE EnterStop
      <4>1. pcT = "phywait" BY <3>2 DEF EnterStop, SenderInv, StoppedT, Sending
      <4>2. phy' = FALSE /\ pts' = FALSE BY <3>2 DEF EnterStop
      <4>3. SendRank' = 1 BY <3>1, <4>1, <4>2 DEF SendRank, Sending
      <4> QED BY <1>0, <4>3
    <3>3. CASE ResetChip
      <4>1. pcT = "phywait" /\ (cut' \/ pcT # "phywait") BY <3>3 DEF ResetChip, SenderInv, StoppedT, Sending
      <4> QED BY <4>1
    <3>4. CASE ~EnterStop /\ ~ResetChip
      <4>1. Quiet
            BY <2>8, <3>1, <3>4, Zenon DEF StopGoesOn, SuspendInput, WrongId, EnableReceiver, UnmaskInterrupt,
               ResumeTcpip, ResumeInput, chip
      <4> QED BY <1>3, <4>1, <1>0
    <3> QED BY <3>2, <3>3, <3>4
  <2> QED BY <1>4, <2>1, <2>2, <2>3, <2>4, <2>5, <2>6, <2>7, <2>8 DEF Next, Tcpip
<1> QED BY <1>0, <1>1, <1>2, <1>4

\* The wait before it, step by step.
LEMMA WaitStep ==
  ASSUME TypeOK, ChipLocked, [Next]_vars
  PROVE  WaitRunsDown
<1> SUFFICES ASSUME pcT = "wait", ~Kept PROVE WaitRunsDown
    BY DEF WaitRunsDown
<1>1. lock = "input" /\ pcI \in {"settle", "read", "enable"} BY DEF ChipLocked, Kept
<1>2. ASSUME Input
      PROVE \/ pcT' = "start" \/ Kept' \/ faults' > faults
            \/ faults' = faults /\ HandOver' < HandOver
  <2> USE <1>1
  <2>1. ~TakeSemaphore /\ ~ReceivePacket BY DEF TakeSemaphore, ReceivePacket
  <2>2. ASSUME HandToTcpip PROVE pcT' = "start" BY <2>2 DEF HandToTcpip
  <2>3. ASSUME Fault PROVE faults' > faults
        BY <2>3, TypesInParts DEF CountsTyped, Fault
  <2>4. CASE TakeFrame BY <2>2, <2>4 DEF TakeFrame
  <2>5. CASE DropFrame \/ FrameTooLong \/ NoPbuf \/ BadHeader
        BY <2>3, <2>5 DEF DropFrame, FrameTooLong, NoPbuf, BadHeader
  <2>6. CASE Settled BY <2>6 DEF Settled, HandOver, ghosts
  <2>7. CASE NothingReceived BY <2>7 DEF NothingReceived, HandOver, Reading, ghosts
  <2>8. CASE EnableReceive BY <2>2, <2>8 DEF EnableReceive
  <2> QED BY <1>2, <2>1, <2>4, <2>5, <2>6, <2>7, <2>8 DEF Input
<1>3. ASSUME ~Input PROVE UNCHANGED <<pcT, pcI, faults>>
  <2> USE DEF ghosts
  <2>1. CASE UNCHANGED vars BY <2>1 DEF vars
  <2>2. CASE FrameArrives \/ TxDone \/ EXTI9_5_IRQHandler
        BY <2>2, Zenon DEF FrameArrives, TxDone, EXTI9_5_IRQHandler
  <2>3. ~Tcpip BY DEF Tcpip, SendPacket, StartTransmit, PollTransmit, PhyRead
  <2>4. CASE PhyOff \/ SuspendTcpip BY <2>4, Zenon DEF PhyOff, SuspendTcpip, Stop
  <2>5. CASE StopGoesOn
        BY <2>5, Zenon DEF StopGoesOn, SuspendInput, EnterStop, ResetChip, WrongId, EnableReceiver,
           UnmaskInterrupt, ResumeTcpip, ResumeInput, Stop
  <2> QED BY <1>3, <2>1, <2>2, <2>3, <2>4, <2>5 DEF Next
<1> QED BY <1>2, <1>3 DEF WaitRunsDown

\* The safety half of the wait in dm9000.c:487, for every size, limit and number of faults: a send
\* whose chip is not reset under it always has its end coming, nothing takes it further from it, and
\* what the tasks do brings it nearer. That they do it is what the fairness of SendEnds adds.
THEOREM SendRunsDown == Spec => []SenderServed /\ SendAdvances
<1>1. TypeOK /\ SenderInv => SenderServed
      BY TypesInParts DEF FlagsTyped, SenderInv, SenderServed, SendRank, Sending
<1>2. TypeOK /\ ChipLocked /\ SenderInv /\ [Next]_vars => [LoopRunsDown /\ WaitRunsDown]_vars
      BY LoopStep, WaitStep
<1> QED BY LockInvariance, SenderInvariance, <1>1, <1>2, PTL DEF Spec, SendAdvances
=============================================================================
