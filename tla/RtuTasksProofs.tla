---------------------------- MODULE RtuTasksProofs ----------------------------
(***************************************************************************)
(* The alarm SetNextFiveMinuteAlarm sets, for every minute of an hour; the *)
(* invariants of RtuTasks that hold for every timing, every queue size and *)
(* with mode commands (types, HeldWhileUnpowered, WakeUpNotDropped); those *)
(* of the stop-mode cycle without commands, for all durations that fit in  *)
(* a period; and, with commands again, that work runs out between two      *)
(* ticks and that Message_Q is used as MessageQueue promises.              *)
(***************************************************************************)
EXTENDS RtuTasks, TLAPS

\* What SetNextFiveMinuteAlarm writes is a byte.
LEMMA AlarmIsByte ==
  ASSUME NEW m \in Minutes
  PROVE  NextAlarm(m) \in 0 .. 255
BY DEF NextAlarm, ToBCD, LastMinuteOfSlot, Minutes

\* SetNextFiveMinuteAlarm sets the alarm ahead. Called in one of the first four minutes of a
\* slot, it is for the last minute of this slot, which is later than the minute of the call;
\* called in minute 4, 14, 24, 34, 44, 54 or 59, it is for the last minute of the next
\* slot, five minutes on. The other five minutes are AlarmFiresIff's.
THEOREM AlarmIsAhead ==
  ASSUME NEW m \in Minutes
  PROVE  /\ m % 5 # 4 => /\ NextAlarm(m) = ToBCD(LastMinuteOfSlot(m))
                         /\ LastMinuteOfSlot(m) \in m + 1 .. 59
                         /\ LastMinuteOfSlot(m) \div 5 = m \div 5
         /\ m % 10 = 4 \/ m = 59 => NextAlarm(m) = ToBCD((m + 5) % 60)
<1>1. m \in 0 .. 59
  BY DEF Minutes
<1>2. CASE m % 5 # 4
  <2>1. LastMinuteOfSlot(m) \in m + 1 .. 59 /\ LastMinuteOfSlot(m) \div 5 = m \div 5
    BY <1>1, <1>2 DEF LastMinuteOfSlot
  <2>2. NextAlarm(m) = ToBCD(LastMinuteOfSlot(m))
    BY <1>1, <1>2 DEF NextAlarm, ToBCD, LastMinuteOfSlot
  <2> QED
    BY <1>1, <1>2, <2>1, <2>2
<1>3. CASE m % 5 = 4
  <2>1. m % 10 = 4 \/ m = 59 => NextAlarm(m) = ToBCD((m + 5) % 60)
    BY <1>1, <1>3 DEF NextAlarm, ToBCD, LastMinuteOfSlot
  <2> QED
    BY <1>3, <2>1
<1> QED
  BY <1>2, <1>3

\* SetNextFiveMinuteAlarm programs an alarm that will fire exactly when it is not called
\* in minute 9, 19, 29, 39 or 49, where adding 5 to the BCD byte yields no BCD number.
THEOREM AlarmFiresIff ==
  ASSUME NEW m \in Minutes
  PROVE  Fires(NextAlarm(m)) <=> (m % 10 # 9 \/ m = 59)
BY DEF NextAlarm, ToBCD, LastMinuteOfSlot, Minutes, Fires

-------------------------------------------------------------------------------

USE DEF None, NoMinute, Messages, Tasks, PoweredTasks, HeldTasks

LEMMA ParkOrderType == \A i \in 1 .. 6 : ParkOrder[i] \in Tasks
BY DEF ParkOrder

Flags ==
  /\ due \in BOOLEAN /\ flag \in BOOLEAN /\ phy \in BOOLEAN /\ poe \in BOOLEAN
  /\ overflow \in BOOLEAN /\ stopFlag \in BOOLEAN /\ powered \in BOOLEAN

LEMMA TypeInit == Init => TypeOK
<1> SUFFICES ASSUME Init PROVE TypeOK
  OBVIOUS
<1>1. Flags
  BY Zenon DEF Init, Flags
<1> QED
  BY <1>1, TimingAssumption, BootAssumption DEF Init, TypeOK, Flags, Minutes

LEMMA FlagsPost ==
  ASSUME TypeOK, NEW m \in Messages, Post(m)
  PROVE  overflow' \in BOOLEAN
BY Zenon DEF TypeOK, Post

LEMMA FlagsStep == TypeOK /\ [Next]_vars => Flags'
<1> SUFFICES ASSUME TypeOK, [Next]_vars PROVE Flags'
  OBVIOUS
<1> USE DEF vars, clockVars, basicVars, cameraVars, gprsVars, stopVars, queueVars, Flags
<1>0. Flags
  BY Zenon DEF TypeOK
<1>1. CASE BasicTask
  BY <1>0, <1>1, FlagsPost, Zenon
  DEF BasicTask, BasicSample, BasicCapture, BasicSeesPicture, BasicHandsOver, BasicGivesUp
<1>2. CASE FtpTask
  BY <1>0, <1>2, Zenon DEF FtpTask, FtpStores, FtpPhyOff
<1>3. CASE GprsTask
  BY <1>0, <1>3, FlagsPost, Zenon DEF GprsTask, GprsStart, GprsDone
<1>4. CASE RecvTask
  BY <1>0, <1>4, Zenon DEF RecvTask, RecvResponse, RecvHoldsBasic, RecvNormal
<1>5. CASE StopTask
  <2>1. CASE StopWoken \/ StopPends \/ StopDelayEnds \/ StopParks
    BY <1>0, <2>1, Zenon DEF StopGoes, StopWoken, StopPends, StopDelayEnds, StopParks
  <2>2. CASE StopHangsUp \/ StopSetsFlag \/ StopSetsAlarm \/ StopCutsPower \/ StopHalts
    BY <1>0, <2>2, Zenon DEF StopGoes, StopHangsUp, StopSetsFlag, StopSetsAlarm, StopCutsPower, StopHalts
  <2>3. CASE StopReturns \/ StopPowersUp \/ StopStartsNet \/ StopDialed \/ StopResumes
    BY <1>0, <2>3, Zenon DEF StopGoes, StopReturns, StopPowersUp, StopStartsNet, StopDialed, StopResumes
  <2> QED
    BY <1>5, <2>1, <2>2, <2>3, Zenon DEF StopTask
<1>6. CASE AlarmInterrupt
  BY <1>0, <1>6, FlagsPost, Zenon DEF AlarmInterrupt
<1>7. CASE RainPulse
  BY <1>0, <1>7, Zenon DEF RainPulse
<1>8. CASE Tick
  BY <1>0, <1>8, Zenon DEF Tick
<1>9. CASE UNCHANGED vars
  BY <1>0, <1>9, Zenon
<1> QED
  BY <1>1, <1>2, <1>3, <1>4, <1>5, <1>6, <1>7, <1>8, <1>9, Zenon DEF Next

LEMMA TypePost ==
  ASSUME TypeOK, NEW m \in Messages, Post(m)
  PROVE  inbox' \in Messages \cup {None} /\ queue' \in Seq(Messages)
BY FlagsPost DEF TypeOK, Post

\* The steps of stopmode_task that suspend nobody, resume nobody and post nothing.
StopGoesAlong ==
  StopDelayEnds \/ StopHangsUp \/ StopSetsFlag \/ StopReturns \/ StopDialed
    \/ StopCutsPower \/ StopPowersUp \/ StopStartsNet

LEMMA TypeStep == TypeOK /\ [Next]_vars => TypeOK'
<1> SUFFICES ASSUME TypeOK, [Next]_vars PROVE TypeOK'
  OBVIOUS
<1> USE DEF vars, clockVars, basicVars, cameraVars, gprsVars, stopVars, queueVars
<1>0. Flags'
  BY FlagsStep
<1> USE <1>0 DEF Flags
<1>1. CASE BasicTask
  <2>1. CASE BasicSample
    BY <2>1 DEF BasicSample, TypeOK
  <2>2. CASE BasicCapture
    BY <2>2, TimingAssumption DEF BasicCapture, Resume, TypeOK
  <2>3. CASE BasicSeesPicture
    BY <2>3 DEF BasicSeesPicture, TypeOK
  <2>4. CASE BasicHandsOver
    BY <2>4 DEF BasicHandsOver, Suspend, TypeOK
  <2>5. CASE BasicGivesUp
    BY <2>5, TypePost DEF BasicGivesUp, TypeOK
  <2> QED
    BY <1>1, <2>1, <2>2, <2>3, <2>4, <2>5 DEF BasicTask
<1>2. CASE FtpTask
  <2>1. CASE FtpStores
    BY <2>1 DEF FtpStores, TypeOK
  <2>2. CASE FtpPhyOff
    BY <2>2 DEF FtpPhyOff, TypeOK
  <2> QED
    BY <1>2, <2>1, <2>2 DEF FtpTask
<1>3. CASE GprsTask
  <2>1. CASE GprsStart
    BY <2>1, TimingAssumption DEF GprsStart, Suspend, TypeOK
  <2>2. CASE GprsDone
    BY <2>2, TypePost, TimingAssumption DEF GprsDone, Resume, TypeOK
  <2> QED
    BY <1>3, <2>1, <2>2 DEF GprsTask
<1>4. CASE RecvTask
  <2>1. CASE RecvResponse
    BY <2>1 DEF RecvResponse, Suspend, TypeOK
  <2>2. CASE RecvHoldsBasic
    BY <2>2 DEF RecvHoldsBasic, Suspend, TypeOK
  <2>3. CASE RecvNormal
    BY <2>3 DEF RecvNormal, Resume, TypeOK
  <2> QED
    BY <1>4, <2>1, <2>2, <2>3 DEF RecvTask
<1>5. CASE StopTask
  <2>1. CASE StopWoken
    BY <2>1, TimingAssumption DEF StopWoken, Dispatch, TypeOK
  <2>2. CASE StopPends
    BY <2>2, TimingAssumption DEF StopPends, Dispatch, TypeOK
  <2>3. StopGoesAlong => TypeOK'
    <3>1. CASE StopDelayEnds
      BY <3>1, TimingAssumption DEF StopDelayEnds, StopGoes, TypeOK
    <3>2. CASE StopHangsUp
      BY <3>2, TimingAssumption DEF StopHangsUp, StopGoes, TypeOK
    <3>3. CASE StopSetsFlag
      BY <3>3, TimingAssumption DEF StopSetsFlag, StopGoes, TypeOK
    <3>4. CASE StopReturns
      BY <3>4, TimingAssumption DEF StopReturns, StopGoes, TypeOK
    <3>5. CASE StopDialed
      BY <3>5, TimingAssumption DEF StopDialed, StopGoes, TypeOK
    <3>6. CASE StopCutsPower
      BY <3>6, TimingAssumption DEF StopCutsPower, StopGoes, TypeOK
    <3>7. CASE StopPowersUp
      BY <3>7, TimingAssumption DEF StopPowersUp, StopGoes, TypeOK
    <3>8. CASE StopStartsNet
      BY <3>8, TimingAssumption DEF StopStartsNet, StopGoes, TypeOK
    <3> QED
      BY <3>1, <3>2, <3>3, <3>4, <3>5, <3>6, <3>7, <3>8 DEF StopGoesAlong
  <2>4. CASE StopParks
    <3>1. susp' \subseteq Tasks
      BY <2>4, ParkOrderType DEF StopParks, Suspend, TypeOK
    <3>2. /\ step' \in 1 .. 6 /\ left' \in Nat
          /\ pcS' \in {"park", "hangup"}
      BY <2>4, TimingAssumption DEF StopParks, TypeOK
    <3> QED
      BY <2>4, <3>1, <3>2 DEF StopParks, TypeOK
  <2>5. CASE StopSetsAlarm
    <3>1. NextAlarm(minute) \in 0 .. 255
      BY AlarmIsByte DEF TypeOK
    <3> QED
      BY <3>1, <2>5 DEF StopSetsAlarm, StopGoes, TypeOK
  <2>6. CASE StopHalts
    BY <2>6 DEF StopHalts, TypeOK
  <2>7. CASE StopResumes
    <3>1. susp' \subseteq Tasks
      BY <2>7 DEF StopResumes, Resume, TypeOK
    <3>2. /\ step' \in 1 .. 6 /\ left' \in Nat
          /\ pcS' \in {"resume", "yield"}
      BY <2>7 DEF StopResumes, TypeOK
    <3> QED
      BY <2>7, <3>1, <3>2 DEF StopResumes, TypeOK
  <2> QED
    BY <1>5, <2>1, <2>2, <2>3, <2>4, <2>5, <2>6, <2>7 DEF StopTask, StopGoesAlong
<1>6. CASE AlarmInterrupt
  <2>1. CASE stopFlag
    BY <1>6, <2>1, TypePost DEF AlarmInterrupt, TypeOK
  <2>2. CASE ~stopFlag
    BY <1>6, <2>2 DEF AlarmInterrupt, TypeOK
  <2> QED
    BY <2>1, <2>2
<1>7. CASE RainPulse
  BY <1>7 DEF RainPulse, TypeOK
<1>8. CASE Tick
  <2>1. part' \in 0 .. UPM - 1 /\ minute' \in Minutes
    BY <1>8, TimingAssumption DEF Tick, TypeOK, Minutes
  <2>2. wait' \in 0 .. WaitUnits /\ sendLeft' \in 0 .. MaxSend /\ left' \in Nat
        /\ boot' \in 0 .. CameraBoot
    BY <1>8, TimingAssumption DEF Tick, Timers, CountDown, TypeOK
  <2> QED
    BY <1>8, <2>1, <2>2 DEF Tick, TypeOK
<1>9. CASE UNCHANGED vars
  BY <1>9 DEF TypeOK
<1> QED
  BY <1>1, <1>2, <1>3, <1>4, <1>5, <1>6, <1>7, <1>8, <1>9 DEF Next

\* Every variable keeps its type: in particular the four delay counters never underflow.
THEOREM TypeCorrect == Spec => []TypeOK
BY TypeInit, TypeStep, PTL DEF Spec

-------------------------------------------------------------------------------
(* HeldWhileUnpowered.  It is not inductive: the tasks are suspended one by *)
(* one before PWR_OFF, and only basic_message_task resumes the FTP task,   *)
(* so what matters is how far stopmode_task has got while still powered.   *)

ParkInv ==
  /\ pcS = "park" => /\ step > 1 => "tcpip" \in susp
                     /\ step > 2 => "dm9000" \in susp
                     /\ step > 3 => "basic" \in susp
                     /\ step > 5 => "bt" \in susp
  /\ pcS \in {"hangup", "flag", "alarm", "off", "wfi"} => HeldTasks \subseteq susp
  /\ ~powered => HeldTasks \subseteq susp
  /\ pcS \in {"net", "dial", "resume"} => powered

LEMMA ParkInit == Init => ParkInv
BY Zenon DEF Init, ParkInv

LEMMA ParkStep == TypeOK /\ ParkInv /\ [Next]_vars => ParkInv'
<1> SUFFICES ASSUME TypeOK, ParkInv, [Next]_vars PROVE ParkInv'
  OBVIOUS
<1> USE DEF vars, clockVars, basicVars, cameraVars, gprsVars, stopVars, queueVars, ParkInv
<1>0. step \in 1 .. 6
  BY DEF TypeOK
<1>1. CASE BasicTask
  <2>1. CASE BasicCapture
    <3>1. "basic" \notin susp
      BY <2>1 DEF BasicCapture, Runs
    <3> QED
      BY <1>0, <2>1, <3>1 DEF BasicCapture, Resume
  <2>2. CASE BasicHandsOver
    BY <1>0, <2>2 DEF BasicHandsOver, Suspend
  <2>3. CASE BasicSample \/ BasicSeesPicture \/ BasicGivesUp
    BY <2>3 DEF BasicSample, BasicSeesPicture, BasicGivesUp
  <2> QED
    BY <1>1, <2>1, <2>2, <2>3 DEF BasicTask
<1>2. CASE FtpTask
  BY <1>2 DEF FtpTask, FtpStores, FtpPhyOff
<1>3. CASE GprsTask
  BY <1>0, <1>3 DEF GprsTask, GprsStart, GprsDone, Suspend, Resume
<1>4. CASE RecvTask
  BY <1>0, <1>4 DEF RecvTask, RecvResponse, RecvHoldsBasic, RecvNormal, Suspend, Resume
<1>5. CASE StopTask
  <2>1. CASE StopWoken \/ StopPends
    BY <2>1 DEF StopWoken, StopPends, Dispatch
  <2>2. CASE StopGoesAlong
    BY <2>2
    DEF StopGoesAlong, StopDelayEnds, StopHangsUp, StopSetsFlag, StopReturns, StopDialed,
        StopCutsPower, StopPowersUp, StopStartsNet, StopGoes
  <2>3. CASE StopParks
    BY <1>0, <2>3 DEF StopParks, Suspend, ParkOrder
  <2>4. CASE StopSetsAlarm
    BY <2>4 DEF StopSetsAlarm, StopGoes
  <2>5. CASE StopHalts
    BY <2>5 DEF StopHalts
  <2>6. CASE StopResumes
    BY <2>6 DEF StopResumes
  <2> QED
    BY <1>5, <2>1, <2>2, <2>3, <2>4, <2>5, <2>6 DEF StopTask, StopGoesAlong
<1>6. CASE AlarmInterrupt
  BY <1>6 DEF AlarmInterrupt
<1>7. CASE RainPulse
  BY <1>7 DEF RainPulse
<1>8. CASE Tick
  BY <1>8 DEF Tick
<1>9. CASE UNCHANGED vars
  BY <1>9
<1> QED
  BY <1>1, <1>2, <1>3, <1>4, <1>5, <1>6, <1>7, <1>8, <1>9 DEF Next

\* For every timing, every queue size and any mode commands: from PWR_OFF until
\* PWCTRL_GPIO_Init the lwIP, DM9000, sampling, Bluetooth and FTP tasks are suspended.
\* receive_command and gprs_task are not among them: see UnpoweredParkedAlways.
THEOREM HeldWhileUnpoweredAlways == Spec => []HeldWhileUnpowered
<1>1. ParkInv => HeldWhileUnpowered
  BY DEF ParkInv, HeldWhileUnpowered
<1> QED
  BY <1>1, TypeInit, TypeStep, ParkInit, ParkStep, PTL DEF Spec

-------------------------------------------------------------------------------
(* WakeUpNotDropped.  The flag must already be up when SetNextFiveMinute-  *)
(* Alarm is called, two steps before the power goes off.                   *)

WakeInv ==
  pcS \in {"alarm", "off", "wfi"} \/ ~powered
    => stopFlag \/ WakeUpPosted \/ pcS = "power" \/ overflow

LEMMA WakeInit == Init => WakeInv
BY Zenon DEF Init, WakeInv

\* A post never removes a WAKE_UP; a posted WAKE_UP is on its way or refused.
LEMMA PostKeepsWakeUp ==
  ASSUME TypeOK, NEW m \in Messages, Post(m)
  PROVE  /\ WakeUpPosted => WakeUpPosted'
         /\ overflow => overflow'
         /\ m = "WAKE_UP" => WakeUpPosted' \/ overflow'
<1>1. CASE pcS = "pend" /\ inbox = None
  BY <1>1 DEF Post, WakeUpPosted
<1>2. CASE ~(pcS = "pend" /\ inbox = None) /\ Len(queue) < N_MESSAGE
  <2>1. queue' = Append(queue, m) /\ inbox' = inbox /\ overflow' = overflow
    BY <1>2 DEF Post
  <2>2. /\ DOMAIN queue = 1 .. Len(queue)
        /\ DOMAIN queue' = 1 .. Len(queue) + 1
        /\ Len(queue) \in Nat
        /\ \A i \in 1 .. Len(queue) : queue'[i] = queue[i]
        /\ queue'[Len(queue) + 1] = m
    BY <2>1 DEF TypeOK
  <2> QED
    BY <2>1, <2>2 DEF WakeUpPosted
<1>3. CASE ~(pcS = "pend" /\ inbox = None) /\ ~(Len(queue) < N_MESSAGE)
  <2>1. overflow' /\ inbox' = inbox /\ queue' = queue
    BY <1>3, Zenon DEF Post
  <2> QED
    BY <2>1 DEF WakeUpPosted
<1> QED
  BY <1>1, <1>2, <1>3

\* Taking the oldest message leaves a WAKE_UP among the others where it is.
LEMMA TailKeepsWakeUp ==
  ASSUME TypeOK, queue # <<>>, queue' = Tail(queue), inbox' = inbox,
         WakeUpPosted, Head(queue) # "WAKE_UP"
  PROVE  WakeUpPosted'
<1>1. /\ Len(queue) \in Nat \ {0}
      /\ DOMAIN queue = 1 .. Len(queue)
      /\ DOMAIN queue' = 1 .. Len(queue) - 1
      /\ \A i \in 1 .. Len(queue) - 1 : queue'[i] = queue[i + 1]
      /\ Head(queue) = queue[1]
  BY DEF TypeOK
<1>2. CASE inbox = "WAKE_UP"
  BY <1>2 DEF WakeUpPosted
<1>3. CASE \E i \in DOMAIN queue : queue[i] = "WAKE_UP"
  <2>1. PICK i \in DOMAIN queue : queue[i] = "WAKE_UP"
    BY <1>3
  <2>2. i # 1 /\ i - 1 \in DOMAIN queue' /\ queue'[i - 1] = "WAKE_UP"
    BY <1>1, <2>1
  <2> QED
    BY <2>2 DEF WakeUpPosted
<1> QED
  BY <1>2, <1>3 DEF WakeUpPosted

LEMMA WakeStep == TypeOK /\ ParkInv /\ WakeInv /\ [Next]_vars => WakeInv'
<1> SUFFICES ASSUME TypeOK, ParkInv, WakeInv, [Next]_vars PROVE WakeInv'
  OBVIOUS
<1> USE DEF vars, clockVars, basicVars, cameraVars, gprsVars, stopVars, queueVars, WakeInv
<1>1. CASE BasicTask
  <2>1. CASE BasicGivesUp
    BY <2>1, PostKeepsWakeUp DEF BasicGivesUp
  <2>2. CASE BasicSample \/ BasicCapture \/ BasicSeesPicture \/ BasicHandsOver
    BY <2>2 DEF BasicSample, BasicCapture, BasicSeesPicture, BasicHandsOver, WakeUpPosted
  <2> QED
    BY <1>1, <2>1, <2>2 DEF BasicTask
<1>2. CASE FtpTask
  BY <1>2 DEF FtpTask, FtpStores, FtpPhyOff, WakeUpPosted
<1>3. CASE GprsTask
  <2>1. CASE GprsStart
    BY <2>1 DEF GprsStart, WakeUpPosted
  <2>2. CASE GprsDone
    BY <2>2, PostKeepsWakeUp DEF GprsDone
  <2> QED
    BY <1>3, <2>1, <2>2 DEF GprsTask
<1>4. CASE RecvTask
  BY <1>4 DEF RecvTask, RecvResponse, RecvHoldsBasic, RecvNormal, WakeUpPosted
<1>5. CASE StopTask
  <2>1. CASE StopWoken
    BY <2>1 DEF StopWoken, Dispatch, WakeUpPosted
  <2>2. CASE StopPends
    <3>1. CASE queue = <<>>
      BY <2>2, <3>1 DEF StopPends, WakeUpPosted
    <3>2. CASE queue # <<>>
      <4>1. /\ queue' = Tail(queue) /\ inbox' = inbox /\ UNCHANGED <<stopFlag, powered, overflow>>
            /\ pcS = "yield"
            /\ pcS' = IF Head(queue) = "ENTER_STOP" THEN "delay" ELSE "power"
        BY <2>2, <3>2 DEF StopPends, Dispatch
      <4>2. CASE Head(queue) = "WAKE_UP"
        BY <4>1, <4>2
      <4>3. CASE Head(queue) # "WAKE_UP"
        BY <4>1, <4>3, <3>2, TailKeepsWakeUp
      <4> QED
        BY <4>2, <4>3
    <3> QED
      BY <3>1, <3>2
  <2>3. CASE StopSetsFlag
    BY <2>3, Zenon DEF StopSetsFlag, StopGoes
  <2>4. CASE StopPowersUp
    BY <2>4, Zenon DEF StopPowersUp, StopGoes
  <2>5. CASE StopSetsAlarm \/ StopCutsPower
    BY <2>5 DEF StopSetsAlarm, StopCutsPower, StopGoes, WakeUpPosted
  <2>6. CASE StopDelayEnds \/ StopHangsUp \/ StopReturns \/ StopStartsNet \/ StopDialed
    BY <2>6
    DEF StopDelayEnds, StopHangsUp, StopReturns, StopStartsNet, StopDialed, StopGoes,
        WakeUpPosted
  <2>7. CASE StopParks \/ StopHalts \/ StopResumes
    BY <2>7 DEF StopParks, StopHalts, StopResumes, WakeUpPosted
  <2> QED
    BY <1>5, <2>1, <2>2, <2>3, <2>4, <2>5, <2>6, <2>7 DEF StopTask
<1>6. CASE AlarmInterrupt
  <2>1. CASE stopFlag
    <3>1. Post("WAKE_UP")
      BY <1>6, <2>1 DEF AlarmInterrupt
    <3> QED
      BY <3>1, PostKeepsWakeUp
  <2>2. CASE ~stopFlag
    BY <1>6, <2>2 DEF AlarmInterrupt, WakeUpPosted
  <2> QED
    BY <2>1, <2>2
<1>7. CASE RainPulse
  BY <1>7 DEF RainPulse, WakeUpPosted
<1>8. CASE Tick
  BY <1>8 DEF Tick, WakeUpPosted
<1>9. CASE UNCHANGED vars
  BY <1>9 DEF WakeUpPosted
<1> QED
  BY <1>1, <1>2, <1>3, <1>4, <1>5, <1>6, <1>7, <1>8, <1>9 DEF Next

\* For every timing, every queue size and any mode commands: under an unpowered station
\* g_stop_mode_flag only comes down with a WAKE_UP posted, being served or refused by a full
\* Message_Q. That the alarm which takes it down still comes is WakeUpPendingAlways.
THEOREM WakeUpNotDroppedAlways == Spec => []WakeUpNotDropped
<1>1. WakeInv => WakeUpNotDropped
  BY DEF WakeInv, WakeUpNotDropped
<1> QED
  BY <1>1, TypeInit, TypeStep, ParkInit, ParkStep, WakeInit, WakeStep, PTL DEF Spec

-------------------------------------------------------------------------------
(* The cycle without mode commands.  What the stop-mode cycle promises     *)
(* holds as long as a period's work is over before its last minute, and    *)
(* rests on there being one token in the station: a sample being worked    *)
(* on, a picture to upload, a request to stop, or a wake-up to come.       *)

\* No mode commands, and the waiting, the upload, the delay and the hang-up of a period
\* whose sample is taken at the end of its first minute fit in the next three minutes. With
\* the code's delays (120 s, 20 s) and a hang-up of 10 s that is an upload of 30 s.
CycleFits ==
  /\ ~AllowCommands
  /\ WaitUnits + MaxSend + StopUnits + MaxHangUp <= 3 * UPM

\* Parts since the period of five minutes began.
Elapsed == (minute % 5) * UPM + part

\* The current period has been sampled.
Sampled == last = minute - (minute % 5)

\* The alarm is set for the last minute of the period.
AlarmAhead == alarm = ToBCD((minute - (minute % 5)) + 4)

Quiet == inbox = None /\ queue = <<>>
Posted(m) == (inbox = m /\ queue = <<>>) \/ (inbox = None /\ queue = <<m>>)
GprsIdle == pcG = "pend" /\ sem = 0
AllParked == PoweredTasks \subseteq susp

\* Nobody but stopmode_task is ever in its way, and a message is where it will find it.
StopFree ==
  /\ "stop" \notin susp /\ pcR = "idle" /\ ~overflow
  /\ inbox # None => pcS = "pend"
  /\ queue # <<>> => pcS # "pend"

\* Nothing is asked of the stop task, or ENTER_STOP is: the basic task has been resumed.
Awake ==
  /\ pcS \in {"pend", "resume", "yield"} /\ ~stopFlag /\ powered /\ cpu = "run"
  /\ "basic" \in susp => pcS = "resume" /\ step <= 3

Polls == pcB = "poll" /\ GprsIdle /\ Quiet
Captures == pcB = "capture" /\ GprsIdle /\ Quiet /\ Elapsed <= UPM - 1
Waits == pcB = "wait" /\ GprsIdle /\ Quiet /\ Elapsed + wait <= (UPM - 1) + WaitUnits
Hands == pcB = "hand" /\ GprsIdle /\ Quiet /\ Elapsed <= (UPM - 1) + WaitUnits
Asks == /\ pcB = "poll" /\ pcG = "pend" /\ sem = 1 /\ Quiet
        /\ Elapsed <= (UPM - 1) + WaitUnits
Sends == /\ pcB = "poll" /\ pcG = "send" /\ sem = 0 /\ Quiet
         /\ Elapsed + sendLeft <= (UPM - 1) + WaitUnits + MaxSend
Requests == /\ pcB = "poll" /\ GprsIdle /\ Posted("ENTER_STOP")
            /\ Elapsed + StopUnits + MaxHangUp <= 4 * UPM - 1

Working == Awake /\ Sampled /\ (Captures \/ Waits \/ Hands \/ Asks \/ Sends \/ Requests)

\* stopmode_task is on its way to the flag.
Stopping ==
  /\ pcB = "poll" /\ GprsIdle /\ Quiet /\ Sampled /\ ~stopFlag /\ powered /\ cpu = "run"
  /\ \/ pcS = "delay" /\ Elapsed + left + MaxHangUp <= 4 * UPM - 1
     \/ /\ pcS = "park" /\ Elapsed + MaxHangUp <= 4 * UPM - 1
        /\ step > 4 => "recv" \in susp
     \/ pcS = "hangup" /\ Elapsed + left <= 4 * UPM - 1 /\ "recv" \in susp
     \/ pcS = "flag" /\ Elapsed <= 4 * UPM - 1 /\ "recv" \in susp

\* The flag has gone up, and comes down with the post of a WAKE_UP.
Token == (stopFlag /\ Quiet) \/ (~stopFlag /\ Posted("WAKE_UP"))

Sleeping ==
  /\ pcB = "poll" /\ GprsIdle /\ Token /\ Sampled /\ AllParked
  /\ \/ pcS = "alarm" /\ cpu = "run" /\ Elapsed <= 4 * UPM - 1 /\ powered
     \/ pcS \in {"off", "wfi"} /\ cpu = "run" /\ Elapsed <= 4 * UPM - 1 /\ AlarmAhead
     \/ /\ pcS \in {"asleep", "yield", "pend"} /\ AlarmAhead
        /\ cpu = "stop" => pcS = "asleep"
        /\ (stopFlag \/ cpu = "stop") /\ Elapsed = 5 * UPM - 1 => due

Waking ==
  /\ pcB = "poll" /\ GprsIdle /\ Quiet /\ ~stopFlag /\ cpu = "run" /\ AllParked
  /\ \/ pcS \in {"power", "net"} /\ Sampled
     \/ pcS = "dial" /\ powered /\ left <= MaxDial /\ (Sampled \/ Elapsed + left <= MaxDial - 1)

CycleInv == StopFree /\ ((Awake /\ Polls) \/ Working \/ Stopping \/ Sleeping \/ Waking)

-------------------------------------------------------------------------------
(* The clock within a period.                                              *)

LEMMA ElapsedInPeriod ==
  ASSUME TypeOK
  PROVE  /\ Elapsed \in 0 .. 5 * UPM - 1
         /\ Elapsed <= 4 * UPM - 1 => minute % 5 <= 3
         /\ minute % 5 = 0 => Elapsed = part
<1>1. /\ minute \in 0 .. 59 /\ part \in 0 .. UPM - 1 /\ UPM \in Nat \ {0}
      /\ minute % 5 \in 0 .. 4
  BY TimingAssumption DEF TypeOK, Minutes
<1>2. CASE minute % 5 = 0
  <2>1. Elapsed = part
    BY <1>1, <1>2 DEF Elapsed
  <2> QED
    BY <1>1, <1>2, <2>1
<1>3. CASE minute % 5 = 1
  <2>1. Elapsed = UPM + part
    BY <1>1, <1>3 DEF Elapsed
  <2> QED
    BY <1>1, <1>3, <2>1
<1>4. CASE minute % 5 = 2
  <2>1. Elapsed = 2 * UPM + part
    BY <1>1, <1>4 DEF Elapsed
  <2> QED
    BY <1>1, <1>4, <2>1
<1>5. CASE minute % 5 = 3
  <2>1. Elapsed = 3 * UPM + part
    BY <1>1, <1>5 DEF Elapsed
  <2> QED
    BY <1>1, <1>5, <2>1
<1>6. CASE minute % 5 = 4
  <2>1. Elapsed = 4 * UPM + part
    BY <1>1, <1>6 DEF Elapsed
  <2> QED
    BY <1>1, <1>6, <2>1
<1> QED
  BY <1>1, <1>2, <1>3, <1>4, <1>5, <1>6

\* The last part of a period is the last part of its last minute.
LEMMA LastPart ==
  ASSUME NEW m \in Minutes, NEW p \in 0 .. UPM - 1
  PROVE  (m % 5) * UPM + p = 5 * UPM - 1 <=> m % 5 = 4 /\ p = UPM - 1
<1>1. m % 5 \in 0 .. 4 /\ UPM \in Nat \ {0}
  BY TimingAssumption DEF Minutes
<1>2. CASE m % 5 = 4
  <2>1. (m % 5) * UPM = 4 * UPM
    BY <1>2
  <2> QED
    BY <1>1, <1>2, <2>1
<1>3. CASE m % 5 # 4
  <2>1. (m % 5) * UPM <= 3 * UPM
    BY <1>1, <1>3
  <2> QED
    BY <1>1, <1>3, <2>1
<1> QED
  BY <1>2, <1>3

LEMMA PeriodEnds ==
  ASSUME TypeOK
  PROVE  Elapsed = 5 * UPM - 1 <=> minute % 5 = 4 /\ part = UPM - 1
BY LastPart DEF TypeOK, Elapsed

\* The end of a period is not in its first four minutes.
LEMMA PeriodEndsLate == TypeOK /\ Elapsed = 5 * UPM - 1 => ~(Elapsed <= 4 * UPM - 1)
BY TimingAssumption

LEMMA TickMoves ==
  ASSUME TypeOK, Tick
  PROVE  /\ part' = IF part = UPM - 1 THEN 0 ELSE part + 1
         /\ minute' = IF part = UPM - 1 THEN (minute + 1) % 60 ELSE minute
<1>1. /\ minute \in 0 .. 59 /\ part \in 0 .. UPM - 1 /\ UPM \in Nat \ {0}
      /\ part' = (part + 1) % UPM
      /\ minute' = IF part' = 0 THEN (minute + 1) % 60 ELSE minute
  BY TimingAssumption DEF TypeOK, Minutes, Tick
<1>2. CASE part = UPM - 1
  <2>1. part' = 0
    BY <1>1, <1>2
  <2> QED
    BY <1>1, <1>2, <2>1
<1>3. CASE part # UPM - 1
  <2>1. part + 1 \in 1 .. UPM - 1
    BY <1>1, <1>3
  <2>2. part' = part + 1
    BY <1>1, <2>1
  <2> QED
    BY <1>1, <1>3, <2>1, <2>2
<1> QED
  BY <1>2, <1>3

\* Before the end of a period a tick stays in it.
LEMMA TickInPeriod ==
  ASSUME TypeOK, Tick, Elapsed # 5 * UPM - 1
  PROVE  /\ Elapsed' = Elapsed + 1
         /\ minute' - (minute' % 5) = minute - (minute % 5)
<1>1. /\ minute \in 0 .. 59 /\ part \in 0 .. UPM - 1 /\ UPM \in Nat \ {0}
      /\ minute % 5 \in 0 .. 4
  BY TimingAssumption DEF TypeOK, Minutes
<1>2. CASE part # UPM - 1
  <2>1. part' = part + 1 /\ minute' = minute
    BY <1>2, TickMoves
  <2> QED
    BY <1>1, <2>1 DEF Elapsed
<1>3. CASE part = UPM - 1
  <2>1. minute % 5 # 4
    BY <1>3, PeriodEnds
  <2>2. part' = 0 /\ minute' = (minute + 1) % 60
    BY <1>3, TickMoves
  <2>3. minute' = minute + 1
    BY <1>1, <2>1, <2>2
  <2>4. minute' % 5 = (minute % 5) + 1
    BY <1>1, <2>1, <2>3
  <2>5. ((minute % 5) + 1) * UPM = (minute % 5) * UPM + UPM
    BY <1>1
  <2>6. Elapsed' = (minute % 5) * UPM + UPM
    BY <1>1, <2>2, <2>4, <2>5 DEF Elapsed
  <2>7. Elapsed' = Elapsed + 1
    BY <1>1, <1>3, <2>6 DEF Elapsed
  <2> QED
    BY <1>1, <2>3, <2>4, <2>7
<1> QED
  BY <1>2, <1>3

LEMMA TickToNextPeriod ==
  ASSUME TypeOK, Tick, Elapsed = 5 * UPM - 1
  PROVE  Elapsed' = 0
<1>1. /\ minute \in 0 .. 59 /\ part \in 0 .. UPM - 1 /\ UPM \in Nat \ {0}
      /\ minute % 5 = 4 /\ part = UPM - 1
  BY TimingAssumption, PeriodEnds DEF TypeOK, Minutes
<1>2. part' = 0 /\ minute' = (minute + 1) % 60
  BY <1>1, TickMoves
<1>3. minute' % 5 = 0
  BY <1>1, <1>2
<1> QED
  BY <1>1, <1>2, <1>3 DEF Elapsed

LEMMA LastMinute ==
  ASSUME NEW m \in Minutes, m % 5 = 4
  PROVE  (m - (m % 5)) + 4 = m
<1>1. m - 4 = m - (m % 5)
  OBVIOUS
<1> QED
  BY <1>1 DEF Minutes

\* In the last part of the period the alarm's instant is ahead.
LEMMA TickMeetsAlarm ==
  ASSUME TypeOK, TypeOK', Tick, AlarmAhead', Elapsed' = 5 * UPM - 1
  PROVE  due'
<1>1. minute' \in Minutes /\ part' \in 0 .. UPM - 1
  BY DEF TypeOK
<1>2. minute' % 5 = 4 /\ part' = UPM - 1
  BY <1>1, LastPart DEF Elapsed
<1>3. (minute' - (minute' % 5)) + 4 = minute'
  BY <1>1, <1>2, LastMinute
<1>4. alarm' = ToBCD(minute')
  BY <1>3 DEF AlarmAhead
<1>5. due' = (part' = UPM - 1 /\ alarm = ToBCD(minute')) /\ alarm' = alarm
  BY DEF Tick
<1> QED
  BY <1>2, <1>4, <1>5

\* Set before the last minute of a period, the alarm is for that last minute.
LEMMA AlarmForPeriod ==
  ASSUME NEW m \in Minutes, m % 5 <= 3
  PROVE  NextAlarm(m) = ToBCD((m - (m % 5)) + 4)
BY DEF NextAlarm, ToBCD, LastMinuteOfSlot, Minutes

LEMMA AheadFires ==
  ASSUME NEW m \in Minutes
  PROVE  Fires(ToBCD((m - (m % 5)) + 4))
<1>1. (m - (m % 5)) + 4 \in Minutes
  BY DEF Minutes
<1> QED
  BY <1>1, Zenon DEF Fires

-------------------------------------------------------------------------------
(* CycleInv step by step: the token goes from the basic task to gprs_task, *)
(* to stopmode_task, and with the WAKE_UP back again.                      *)

LEMMA ClockStands ==
  ASSUME UNCHANGED <<minute, part>>
  PROVE  /\ Elapsed' = Elapsed
         /\ last' = last => Sampled' = Sampled
         /\ alarm' = alarm => AlarmAhead' = AlarmAhead
BY DEF Elapsed, Sampled, AlarmAhead

LEMMA ElapsedType == TypeOK => Elapsed \in Nat
BY ElapsedInPeriod, TimingAssumption

\* With no message about, a post finds room: one slot is enough.
LEMMA PostWhenQuiet ==
  ASSUME Quiet, NEW m \in Messages, Post(m)
  PROVE  /\ Posted(m)' /\ overflow' = overflow
         /\ inbox' # None => pcS = "pend"
         /\ queue' # <<>> => pcS # "pend"
<1>1. Len(queue) = 0 /\ Append(queue, m) = <<m>>
  BY DEF Quiet
<1> QED
  BY <1>1, QueueAssumption DEF Quiet, Posted, Post

LEMMA CycleInit == Init => CycleInv
<1> SUFFICES ASSUME Init PROVE CycleInv
  OBVIOUS
<1>1. StopFree
  BY Zenon DEF Init, StopFree
<1>2. Awake /\ Polls
  BY DEF Init, Awake, Polls, GprsIdle, Quiet
<1> QED
  BY <1>1, <1>2 DEF CycleInv

LEMMA BasicKeepsCycle ==
  ASSUME CycleFits, TypeOK, CycleInv, BasicTask
  PROVE  CycleInv'
<1> USE DEF clockVars, basicVars, cameraVars, gprsVars, stopVars, queueVars
<1>1. Elapsed \in Nat /\ UPM \in Nat \ {0} /\ WaitUnits \in Nat /\ MaxSend \in Nat
      /\ StopUnits \in Nat /\ MaxHangUp \in Nat /\ wait \in 0 .. WaitUnits
      /\ minute \in 0 .. 59
  BY ElapsedType, TimingAssumption DEF TypeOK, Minutes
<1>2. "basic" \notin susp /\ UNCHANGED <<minute, part>>
  BY DEF BasicTask, BasicSample, BasicCapture, BasicSeesPicture, BasicHandsOver, BasicGivesUp,
         Runs
<1>3. CASE BasicSample
  <2>1. minute % 5 = 0 /\ minute # last /\ pcB = "poll"
    BY <1>3 DEF BasicSample, SlotDue
  <2>2. ~Sampled
    BY <1>1, <2>1 DEF Sampled
  <2>3. Awake /\ Polls
    BY <1>2, <2>2 DEF CycleInv, Working, Stopping, Sleeping, Waking, AllParked
  <2>4. Sampled'
    BY <1>1, <1>2, <1>3, <2>1 DEF BasicSample, Sampled
  <2>5. Elapsed' <= UPM - 1
    BY <1>1, <1>2, <2>1, ElapsedInPeriod, ClockStands DEF TypeOK
  <2>6. Captures'
    BY <1>3, <2>3, <2>5 DEF BasicSample, Polls, Captures, GprsIdle, Quiet
  <2>7. Awake' /\ StopFree'
    BY <1>3, <2>3 DEF BasicSample, Awake, CycleInv, StopFree
  <2> QED
    BY <2>4, <2>6, <2>7 DEF Working, CycleInv
<1>4. CASE BasicCapture
  <2>1. Awake /\ Sampled /\ Captures
    BY <1>4 DEF BasicCapture, CycleInv, Polls, Working, Stopping, Sleeping, Waking,
                Waits, Hands, Asks, Sends, Requests
  <2>2. Sampled' /\ Elapsed' = Elapsed
    BY <1>2, <1>4, <2>1, ClockStands DEF BasicCapture
  <2>3. Waits'
    BY <1>1, <1>4, <2>1, <2>2 DEF BasicCapture, Captures, Waits, GprsIdle, Quiet
  <2>4. Awake' /\ StopFree'
    BY <1>2, <1>4, <2>1 DEF BasicCapture, Resume, Awake, CycleInv, StopFree
  <2> QED
    BY <2>2, <2>3, <2>4 DEF Working, CycleInv
<1>5. CASE BasicSeesPicture
  <2>1. Awake /\ Sampled /\ Waits
    BY <1>5 DEF BasicSeesPicture, CycleInv, Polls, Working, Stopping, Sleeping, Waking,
                Captures, Hands, Asks, Sends, Requests
  <2>2. Sampled' /\ Elapsed' = Elapsed
    BY <1>2, <1>5, <2>1, ClockStands DEF BasicSeesPicture
  <2>3. Hands'
    BY <1>1, <1>5, <2>1, <2>2 DEF BasicSeesPicture, Waits, Hands, GprsIdle, Quiet
  <2>4. Awake' /\ StopFree'
    BY <1>5, <2>1 DEF BasicSeesPicture, Awake, CycleInv, StopFree
  <2> QED
    BY <2>2, <2>3, <2>4 DEF Working, CycleInv
<1>6. CASE BasicHandsOver
  <2>1. Awake /\ Sampled /\ Hands
    BY <1>6 DEF BasicHandsOver, CycleInv, Polls, Working, Stopping, Sleeping, Waking,
                Captures, Waits, Asks, Sends, Requests
  <2>2. Sampled' /\ Elapsed' = Elapsed
    BY <1>2, <1>6, <2>1, ClockStands DEF BasicHandsOver
  <2>3. Asks'
    BY <1>1, <1>6, <2>1, <2>2 DEF BasicHandsOver, Hands, Asks, GprsIdle, Quiet
  <2>4. Awake' /\ StopFree'
    BY <1>2, <1>6, <2>1 DEF BasicHandsOver, Suspend, Awake, CycleInv, StopFree
  <2> QED
    BY <2>2, <2>3, <2>4 DEF Working, CycleInv
<1>7. CASE BasicGivesUp
  <2>1. Awake /\ Sampled /\ Waits
    BY <1>7 DEF BasicGivesUp, CycleInv, Polls, Working, Stopping, Sleeping, Waking,
                Captures, Hands, Asks, Sends, Requests
  <2>2. Sampled' /\ Elapsed' = Elapsed
    BY <1>2, <1>7, <2>1, ClockStands DEF BasicGivesUp
  <2>3. Posted("ENTER_STOP")' /\ overflow' = overflow
        /\ (inbox' # None => pcS = "pend") /\ (queue' # <<>> => pcS # "pend")
    BY <1>7, <2>1, PostWhenQuiet DEF BasicGivesUp, Waits
  <2>4. Elapsed' + StopUnits + MaxHangUp <= 4 * UPM - 1
    BY <1>1, <1>7, <2>1, <2>2 DEF BasicGivesUp, Waits, CycleFits
  <2>5. Requests'
    BY <1>7, <2>1, <2>3, <2>4 DEF BasicGivesUp, Waits, Requests, GprsIdle
  <2>6. Awake' /\ StopFree'
    BY <1>7, <2>1, <2>3 DEF BasicGivesUp, Awake, CycleInv, StopFree
  <2> QED
    BY <2>2, <2>5, <2>6 DEF Working, CycleInv
<1> QED
  BY <1>3, <1>4, <1>5, <1>6, <1>7 DEF BasicTask

LEMMA GprsKeepsCycle ==
  ASSUME CycleFits, TypeOK, CycleInv, GprsTask
  PROVE  CycleInv'
<1> USE DEF clockVars, basicVars, cameraVars, gprsVars, stopVars, queueVars
<1>1. Elapsed \in Nat /\ UPM \in Nat \ {0} /\ WaitUnits \in Nat /\ MaxSend \in Nat
      /\ StopUnits \in Nat /\ MaxHangUp \in Nat /\ sendLeft \in 0 .. MaxSend
  BY ElapsedType, TimingAssumption DEF TypeOK
<1>2. UNCHANGED <<minute, part>>
  BY DEF GprsTask, GprsStart, GprsDone
<1>3. CASE GprsStart
  <2>1. Awake /\ Sampled /\ Asks
    BY <1>3 DEF GprsStart, CycleInv, Polls, Working, Stopping, Sleeping, Waking, GprsIdle,
                Captures, Waits, Hands, Sends, Requests
  <2>2. Sampled' /\ Elapsed' = Elapsed
    BY <1>2, <1>3, <2>1, ClockStands DEF GprsStart
  <2>3. Sends'
    BY <1>1, <1>3, <2>1, <2>2 DEF GprsStart, Asks, Sends, Quiet
  <2>4. Awake' /\ StopFree'
    BY <1>3, <2>1 DEF GprsStart, Suspend, Awake, CycleInv, StopFree
  <2> QED
    BY <2>2, <2>3, <2>4 DEF Working, CycleInv
<1>4. CASE GprsDone
  <2>1. Awake /\ Sampled /\ Sends
    BY <1>4 DEF GprsDone, CycleInv, Polls, Working, Stopping, Sleeping, Waking, GprsIdle,
                Captures, Waits, Hands, Asks, Requests
  <2>2. Sampled' /\ Elapsed' = Elapsed
    BY <1>2, <1>4, <2>1, ClockStands DEF GprsDone
  <2>3. Posted("ENTER_STOP")' /\ overflow' = overflow
        /\ (inbox' # None => pcS = "pend") /\ (queue' # <<>> => pcS # "pend")
    BY <1>4, <2>1, PostWhenQuiet DEF GprsDone, Sends
  <2>4. Elapsed' + StopUnits + MaxHangUp <= 4 * UPM - 1
    BY <1>1, <2>1, <2>2 DEF Sends, CycleFits
  <2>5. Requests'
    BY <1>4, <2>1, <2>3, <2>4 DEF GprsDone, Sends, Requests, GprsIdle
  <2>6. Awake' /\ StopFree'
    BY <1>4, <2>1, <2>3 DEF GprsDone, Resume, Awake, CycleInv, StopFree
  <2> QED
    BY <2>2, <2>5, <2>6 DEF Working, CycleInv
<1> QED
  BY <1>3, <1>4 DEF GprsTask

\* What CycleInv is about.
cycleVars == <<minute, part, due, alarm, cpu, susp, last, pcB, wait, pcG, sem, sendLeft, pcR,
               stopVars, queueVars, stopFlag, powered>>

LEMMA CycleUnchanged ==
  ASSUME CycleInv, UNCHANGED cycleVars
  PROVE  CycleInv'
BY DEF CycleInv, cycleVars, stopVars, queueVars, StopFree, Awake, Polls, Captures, Waits, Hands,
       Asks, Sends, Requests, Working, Stopping, Token, Sleeping, Waking, Elapsed, Sampled,
       AlarmAhead, Quiet, Posted, GprsIdle, AllParked

LEMMA FtpKeepsCycle ==
  ASSUME CycleInv, FtpTask
  PROVE  CycleInv'
<1>1. UNCHANGED cycleVars
  BY DEF FtpTask, FtpStores, FtpPhyOff, cycleVars, clockVars, basicVars, gprsVars, stopVars,
         queueVars
<1> QED
  BY <1>1, CycleUnchanged

\* stopmode_task before it has anybody suspended, and asleep.
LEMMA DispatchKeepsCycle ==
  ASSUME CycleFits, TypeOK, CycleInv, StopWoken \/ StopPends
  PROVE  CycleInv'
<1> USE DEF clockVars, basicVars, cameraVars, gprsVars, stopVars, queueVars
<1>1. Elapsed \in Nat /\ StopUnits \in Nat /\ MaxHangUp \in Nat
  BY ElapsedType, TimingAssumption
<1>2. UNCHANGED <<minute, part, due, alarm, cpu, susp, last, pcB, wait, pcG, sem, sendLeft, pcR,
                  overflow, stopFlag, powered>>
  BY DEF StopWoken, StopPends
<1>3. Elapsed' = Elapsed /\ Sampled' = Sampled /\ AlarmAhead' = AlarmAhead
  BY <1>2, ClockStands
<1>4. ASSUME Awake, Sampled, Requests, Quiet', pcS' = "delay", left' = StopUnits
      PROVE  CycleInv'
  <2>1. Stopping'
    BY <1>1, <1>2, <1>3, <1>4 DEF Awake, Requests, Stopping, GprsIdle
  <2>2. StopFree'
    BY <1>2, <1>4 DEF CycleInv, StopFree, Quiet
  <2> QED
    BY <2>1, <2>2 DEF CycleInv
<1>5. ASSUME Sleeping, ~stopFlag, cpu = "run", Quiet', pcS' = "power"
      PROVE  CycleInv'
  <2>1. Waking'
    BY <1>2, <1>3, <1>5 DEF Sleeping, Waking, GprsIdle, AllParked
  <2>2. StopFree'
    BY <1>2, <1>5 DEF CycleInv, StopFree, Quiet
  <2> QED
    BY <2>1, <2>2 DEF CycleInv
<1>6. CASE StopWoken
  <2>1. /\ pcS = "pend" /\ inbox # None /\ cpu = "run" /\ queue = <<>> /\ Quiet'
        /\ pcS' = IF inbox = "ENTER_STOP" THEN "delay" ELSE "power"
        /\ inbox = "ENTER_STOP" => left' = StopUnits
    BY <1>6 DEF StopWoken, Runs, Dispatch, CycleInv, StopFree, Quiet
  <2>2. \/ Awake /\ Sampled /\ Requests
        \/ Sleeping /\ Token
    BY <2>1 DEF CycleInv, Working, Stopping, Sleeping, Waking, Polls, Captures, Waits, Hands,
                Asks, Sends, Quiet
  <2>3. CASE Awake /\ Sampled /\ Requests
    BY <1>4, <2>1, <2>3 DEF Requests, Posted
  <2>4. CASE Sleeping /\ Token
    BY <1>5, <2>1, <2>4 DEF Token, Quiet, Posted
  <2> QED
    BY <2>2, <2>3, <2>4
<1>7. CASE StopPends /\ queue # <<>>
  <2>1. /\ pcS = "yield" /\ inbox = None /\ cpu = "run"
        /\ queue' = Tail(queue) /\ inbox' = None
        /\ pcS' = IF Head(queue) = "ENTER_STOP" THEN "delay" ELSE "power"
        /\ Head(queue) = "ENTER_STOP" => left' = StopUnits
    BY <1>7 DEF StopPends, Runs, Dispatch, CycleInv, StopFree
  <2>2. \/ Awake /\ Sampled /\ Requests
        \/ Sleeping /\ Token
    BY <1>7, <2>1 DEF CycleInv, Working, Stopping, Sleeping, Waking, Polls, Captures, Waits,
                      Hands, Asks, Sends, Quiet
  <2>3. CASE Awake /\ Sampled /\ Requests
    <3>1. queue = <<"ENTER_STOP">>
      BY <1>7, <2>3 DEF Requests, Posted
    <3>2. Head(queue) = "ENTER_STOP" /\ Tail(queue) = <<>>
      BY <3>1
    <3> QED
      BY <1>4, <2>1, <2>3, <3>2 DEF Quiet
  <2>4. CASE Sleeping /\ Token
    <3>1. queue = <<"WAKE_UP">> /\ ~stopFlag
      BY <1>7, <2>4 DEF Token, Posted, Quiet
    <3>2. Head(queue) = "WAKE_UP" /\ Tail(queue) = <<>>
      BY <3>1
    <3> QED
      BY <1>5, <2>1, <2>4, <3>1, <3>2 DEF Quiet
  <2> QED
    BY <2>2, <2>3, <2>4
<1>8. CASE StopPends /\ queue = <<>>
  <2>1. /\ pcS = "yield" /\ pcS' = "pend" /\ inbox = None /\ cpu = "run"
        /\ UNCHANGED <<inbox, queue>>
    BY <1>8 DEF StopPends, Runs, CycleInv, StopFree
  <2>2. StopFree' /\ Quiet /\ Quiet'
    BY <1>2, <1>8, <2>1 DEF CycleInv, StopFree, Quiet
  <2>3. CASE Awake
    <3>1. Awake'
      BY <1>2, <2>1, <2>3 DEF Awake
    <3>2. Polls => Polls'
      BY <1>2, <2>2 DEF Polls, GprsIdle
    <3>3. Working => Working'
      BY <1>1, <1>2, <1>3, <2>1, <2>2, <3>1
      DEF Working, Captures, Waits, Hands, Asks, Sends, Requests, GprsIdle, Quiet, Posted
    <3>4. ~Sleeping
      BY <2>2, <2>3 DEF Awake, Sleeping, Token, Quiet, Posted
    <3>5. (Awake /\ Polls) \/ Working
      BY <2>1, <2>3, <3>4 DEF CycleInv, Stopping, Waking
    <3> QED
      BY <2>2, <3>1, <3>2, <3>3, <3>5 DEF CycleInv
  <2>4. CASE Sleeping
    <3>1. Sleeping'
      BY <1>2, <1>3, <2>1, <2>2, <2>4 DEF Sleeping, Token, GprsIdle, AllParked, Posted, Quiet
    <3> QED
      BY <2>2, <3>1 DEF CycleInv
  <2> QED
    BY <2>1, <2>3, <2>4 DEF CycleInv, Working, Stopping, Waking
<1> QED
  BY <1>6, <1>7, <1>8

\* From the delay to the flag.
LEMMA StoppingKeepsCycle ==
  ASSUME CycleFits, TypeOK, ParkInv, CycleInv,
         StopDelayEnds \/ StopParks \/ StopHangsUp \/ StopSetsFlag
  PROVE  CycleInv'
<1> USE DEF clockVars, basicVars, cameraVars, gprsVars, stopVars, queueVars
<1>1. Elapsed \in Nat /\ UPM \in Nat \ {0} /\ MaxHangUp \in Nat /\ left \in Nat /\ step \in 1 .. 6
  BY ElapsedType, TimingAssumption DEF TypeOK
<1>2. UNCHANGED <<minute, part, due, alarm, cpu, last, pcB, wait, pcG, sem, sendLeft, pcR,
                  inbox, queue, overflow, powered>>
  BY DEF StopDelayEnds, StopParks, StopHangsUp, StopSetsFlag, StopGoes
<1>3. Elapsed' = Elapsed /\ Sampled' = Sampled /\ Quiet' = Quiet /\ GprsIdle' = GprsIdle
  BY <1>2, ClockStands DEF Quiet, GprsIdle
<1>4. Stopping
  BY DEF CycleInv, Awake, Working, Sleeping, Waking, StopDelayEnds, StopParks, StopHangsUp,
         StopSetsFlag, StopGoes
<1>5. "stop" \notin susp'
  <2>1. ParkOrder[step] # "stop"
    BY <1>1 DEF ParkOrder
  <2> QED
    BY <2>1 DEF StopDelayEnds, StopParks, StopHangsUp, StopSetsFlag, StopGoes, Suspend,
                CycleInv, StopFree
<1>6. StopFree'
  BY <1>2, <1>3, <1>4, <1>5 DEF CycleInv, StopFree, Stopping, Quiet
<1>7. CASE StopDelayEnds
  <2>1. Stopping'
    BY <1>1, <1>2, <1>3, <1>4, <1>7 DEF StopDelayEnds, StopGoes, Stopping
  <2> QED
    BY <1>6, <2>1 DEF CycleInv
<1>8. CASE StopParks
  <2>1. ParkOrder[4] = "recv"
    BY DEF ParkOrder
  <2>2. step' > 4 \/ pcS' = "hangup" => "recv" \in susp'
    BY <1>1, <1>4, <1>8, <2>1 DEF StopParks, Stopping, Suspend
  <2>3. Stopping'
    BY <1>1, <1>2, <1>3, <1>4, <1>8, <2>2 DEF StopParks, Stopping
  <2> QED
    BY <1>6, <2>3 DEF CycleInv
<1>9. CASE StopHangsUp
  <2>1. Stopping'
    BY <1>1, <1>2, <1>3, <1>4, <1>9 DEF StopHangsUp, StopGoes, Stopping
  <2> QED
    BY <1>6, <2>1 DEF CycleInv
<1>10. CASE StopSetsFlag
  <2>1. AllParked'
    BY <1>4, <1>10 DEF StopSetsFlag, StopGoes, Stopping, ParkInv, AllParked
  <2>2. Sleeping'
    BY <1>1, <1>2, <1>3, <1>4, <1>10, <2>1 DEF StopSetsFlag, StopGoes, Stopping, Sleeping, Token
  <2> QED
    BY <1>6, <2>2 DEF CycleInv
<1> QED
  BY <1>7, <1>8, <1>9, <1>10

\* From the flag to the halt, and back to the queue.
LEMMA SleepingKeepsCycle ==
  ASSUME TypeOK, CycleInv, StopSetsAlarm \/ StopCutsPower \/ StopHalts \/ StopReturns
  PROVE  CycleInv'
<1> USE DEF clockVars, basicVars, cameraVars, gprsVars, stopVars, queueVars
<1>1. Elapsed \in Nat /\ UPM \in Nat \ {0} /\ minute \in Minutes
  BY ElapsedType, TimingAssumption DEF TypeOK
<1>2. /\ UNCHANGED <<minute, part, susp, last, pcB, wait, pcG, sem, sendLeft, pcR,
                     inbox, queue, overflow, stopFlag>>
      /\ cpu = "run"
  BY DEF StopSetsAlarm, StopCutsPower, StopHalts, StopReturns, StopGoes, Runs
<1>3. Elapsed' = Elapsed /\ Sampled' = Sampled /\ GprsIdle' = GprsIdle /\ Token' = Token
      /\ AllParked' = AllParked
  BY <1>2, ClockStands DEF Token, Posted, Quiet, GprsIdle, AllParked
<1>4. Sleeping /\ pcS \in {"alarm", "off", "wfi", "asleep"}
  BY DEF CycleInv, Awake, Working, Stopping, Waking, StopSetsAlarm, StopCutsPower, StopHalts,
         StopReturns, StopGoes
<1>5. pcS' # "pend" /\ pcS # "pend"
  BY DEF StopSetsAlarm, StopCutsPower, StopHalts, StopReturns, StopGoes
<1>6. StopFree'
  BY <1>2, <1>5 DEF CycleInv, StopFree
<1>7. CASE StopSetsAlarm
  <2>1. Elapsed <= 4 * UPM - 1
    BY <1>4, <1>7 DEF Sleeping, StopSetsAlarm, StopGoes
  <2>2. NextAlarm(minute) = ToBCD((minute - (minute % 5)) + 4)
    BY <1>1, <2>1, ElapsedInPeriod, AlarmForPeriod
  <2>3. AlarmAhead'
    BY <1>2, <1>7, <2>2 DEF StopSetsAlarm, AlarmAhead
  <2>4. Sleeping'
    BY <1>2, <1>3, <1>4, <1>7, <2>1, <2>3 DEF StopSetsAlarm, StopGoes, Sleeping
  <2> QED
    BY <1>6, <2>4 DEF CycleInv
<1>8. CASE StopCutsPower
  <2>1. AlarmAhead' /\ cpu' = cpu
    BY <1>2, <1>4, <1>8, ClockStands DEF StopCutsPower, StopGoes, Sleeping
  <2>2. Sleeping'
    BY <1>2, <1>3, <1>4, <1>8, <2>1 DEF StopCutsPower, StopGoes, Sleeping
  <2> QED
    BY <1>6, <2>2 DEF CycleInv
<1>9. CASE StopHalts
  <2>1. AlarmAhead' /\ Elapsed' # 5 * UPM - 1
    BY <1>1, <1>2, <1>3, <1>4, <1>9, ClockStands DEF StopHalts, Sleeping
  <2>2. Sleeping'
    BY <1>2, <1>3, <1>4, <1>9, <2>1 DEF StopHalts, Sleeping
  <2> QED
    BY <1>6, <2>2 DEF CycleInv
<1>10. CASE StopReturns
  <2>1. AlarmAhead' /\ cpu' = "run" /\ due' = due
    BY <1>2, <1>4, <1>10, ClockStands DEF StopReturns, StopGoes, Sleeping
  <2>2. Sleeping'
    BY <1>2, <1>3, <1>4, <1>10, <2>1 DEF StopReturns, StopGoes, Sleeping
  <2> QED
    BY <1>6, <2>2 DEF CycleInv
<1> QED
  BY <1>7, <1>8, <1>9, <1>10

\* From the wake-up to the tasks resumed.
LEMMA WakingKeepsCycle ==
  ASSUME TypeOK, ParkInv, CycleInv, StopPowersUp \/ StopStartsNet \/ StopDialed \/ StopResumes
  PROVE  CycleInv'
<1> USE DEF clockVars, basicVars, cameraVars, gprsVars, stopVars, queueVars
<1>1. Elapsed \in Nat /\ MaxDial \in Nat /\ StopUnits \in Nat /\ MaxHangUp \in Nat
      /\ step \in 1 .. 6
  BY ElapsedType, TimingAssumption DEF TypeOK
<1>2. UNCHANGED <<minute, part, cpu, last, pcB, wait, pcG, sem, sendLeft, pcR,
                  inbox, queue, overflow, stopFlag>>
  BY DEF StopPowersUp, StopStartsNet, StopDialed, StopResumes, StopGoes
<1>3. Elapsed' = Elapsed /\ Sampled' = Sampled /\ GprsIdle' = GprsIdle /\ Quiet' = Quiet
      /\ Posted("ENTER_STOP")' = Posted("ENTER_STOP")
  BY <1>2, ClockStands DEF Posted, Quiet, GprsIdle
<1>4. StopFree'
  BY <1>2 DEF StopPowersUp, StopStartsNet, StopDialed, StopResumes, StopGoes, Resume, CycleInv,
              StopFree
<1>5. CASE StopPowersUp
  <2>1. Waking /\ Sampled
    BY <1>5 DEF StopPowersUp, StopGoes, CycleInv, Awake, Working, Stopping, Sleeping, Waking
  <2>2. Waking'
    BY <1>2, <1>3, <1>5, <2>1 DEF StopPowersUp, StopGoes, Waking, AllParked
  <2> QED
    BY <1>4, <2>2 DEF CycleInv
<1>6. CASE StopStartsNet
  <2>1. Waking /\ Sampled /\ powered
    BY <1>6 DEF StopStartsNet, StopGoes, CycleInv, Awake, Working, Stopping, Sleeping, Waking,
                ParkInv
  <2>2. Waking'
    BY <1>1, <1>2, <1>3, <1>6, <2>1 DEF StopStartsNet, StopGoes, Waking, AllParked
  <2> QED
    BY <1>4, <2>2 DEF CycleInv
<1>7. CASE StopDialed
  <2>1. Waking /\ powered
    BY <1>7 DEF StopDialed, StopGoes, CycleInv, Awake, Working, Stopping, Sleeping, Waking
  <2>2. Polls'
    BY <1>2, <1>3, <2>1 DEF Waking, Polls
  <2>3. Awake'
    BY <1>2, <1>7, <2>1 DEF StopDialed, StopGoes, Waking, Awake
  <2> QED
    BY <1>4, <2>2, <2>3 DEF CycleInv
<1>8. CASE StopResumes
  <2>1. Awake /\ (Polls \/ Working)
    BY <1>8 DEF StopResumes, CycleInv, Awake, Working, Stopping, Sleeping, Waking
  <2>2. "basic" \in susp' => pcS' = "resume" /\ step' <= 3
    <3>1. step = 3 => ParkOrder[step] = "basic"
      BY <1>1 DEF ParkOrder
    <3>2. step <= 3 \/ "basic" \notin susp
      BY <1>1, <2>1 DEF Awake
    <3>3. CASE step <= 2
      BY <1>1, <1>8, <3>3 DEF StopResumes
    <3>4. CASE step = 3
      BY <1>8, <3>1, <3>4 DEF StopResumes, Resume
    <3>5. CASE step > 3
      BY <1>1, <1>8, <3>2, <3>5 DEF StopResumes, Resume
    <3> QED
      BY <1>1, <3>3, <3>4, <3>5
  <2>3. Awake'
    BY <1>2, <1>8, <2>1, <2>2 DEF StopResumes, Awake
  <2>4. Polls => Polls'
    BY <1>2, <1>3 DEF Polls
  <2>5. Working => Working'
    BY <1>2, <1>3, <2>3 DEF Working, Captures, Waits, Hands, Asks, Sends, Requests
  <2> QED
    BY <1>4, <2>1, <2>3, <2>4, <2>5 DEF CycleInv
<1> QED
  BY <1>5, <1>6, <1>7, <1>8

LEMMA InterruptKeepsCycle ==
  ASSUME TypeOK, CycleInv, AlarmInterrupt \/ RainPulse
  PROVE  CycleInv'
<1> USE DEF clockVars, basicVars, cameraVars, gprsVars, stopVars, queueVars
<1>1. /\ UNCHANGED <<minute, part, alarm, susp, last, pcB, wait, pcG, sem, sendLeft, pcR,
                     stopVars, powered>>
      /\ cpu' = "run"
  BY DEF AlarmInterrupt, RainPulse
<1>2. Elapsed' = Elapsed /\ Sampled' = Sampled /\ GprsIdle' = GprsIdle /\ AllParked' = AllParked
      /\ AlarmAhead' = AlarmAhead
  BY <1>1, ClockStands DEF GprsIdle, AllParked
<1>3. CASE AlarmInterrupt /\ stopFlag
  <2>1. Sleeping /\ Quiet
    BY <1>3 DEF CycleInv, Awake, Working, Stopping, Waking, Sleeping, Token
  <2>2. Post("WAKE_UP") /\ ~stopFlag'
    BY <1>3 DEF AlarmInterrupt
  <2>3. Posted("WAKE_UP")' /\ overflow' = overflow
        /\ (inbox' # None => pcS = "pend") /\ (queue' # <<>> => pcS # "pend")
    BY <2>1, <2>2, PostWhenQuiet
  <2>4. StopFree'
    BY <1>1, <2>3 DEF CycleInv, StopFree
  <2>5. Sleeping'
    BY <1>1, <1>2, <2>1, <2>2, <2>3 DEF Sleeping, Token
  <2> QED
    BY <2>4, <2>5 DEF CycleInv
<1>4. CASE (AlarmInterrupt /\ ~stopFlag) \/ RainPulse
  <2>1. UNCHANGED <<inbox, queue, overflow>> /\ (stopFlag' => due' = due)
        /\ stopFlag' = stopFlag
    BY <1>4 DEF AlarmInterrupt, RainPulse
  <2>2. Quiet' = Quiet /\ Token' = Token /\ Posted("ENTER_STOP")' = Posted("ENTER_STOP")
    BY <2>1 DEF Quiet, Token, Posted
  <2>3. StopFree'
    BY <1>1, <2>1 DEF CycleInv, StopFree
  <2>4. CASE (Awake /\ Polls) \/ Working
    BY <1>1, <1>2, <2>1, <2>2, <2>3, <2>4
    DEF CycleInv, Awake, Polls, Working, Captures, Waits, Hands, Asks, Sends, Requests
  <2>5. CASE Stopping \/ Waking
    BY <1>1, <1>2, <2>1, <2>2, <2>3, <2>5 DEF CycleInv, Stopping, Waking
  <2>6. CASE Sleeping
    <3>1. Sleeping'
      BY <1>1, <1>2, <2>1, <2>2, <2>6 DEF Sleeping
    <3> QED
      BY <2>3, <3>1 DEF CycleInv
  <2> QED
    BY <2>4, <2>5, <2>6 DEF CycleInv
<1> QED
  BY <1>3, <1>4

\* While the processor runs, a tick finds no task with work to do.
LEMMA TickIsIdle ==
  ASSUME TypeOK, CycleInv, Tick, cpu = "run"
  PROVE  /\ pcS \in {"pend", "delay", "hangup", "dial"}
         /\ pcS = "pend" => inbox = None
         /\ pcS # "pend" => left > 0
         /\ "basic" \notin susp => /\ ~(pcB = "poll" /\ SlotDue)
                                   /\ pcB \notin {"capture", "hand"}
                                   /\ pcB = "wait" => wait > 0
         /\ ~(pcG = "pend" /\ sem > 0)
         /\ pcG = "send" => sendLeft > 0
<1>1. ~BasicReady /\ ~GprsReady /\ ~StopReady
  BY DEF Tick
<1>2. "stop" \notin susp
  BY DEF CycleInv, StopFree
<1>3. left \in Nat /\ wait \in Nat /\ sendLeft \in Nat
  BY TimingAssumption DEF TypeOK
<1>4. /\ pcS \in {"pend", "delay", "hangup", "dial"}
      /\ pcS = "pend" => inbox = None
      /\ pcS # "pend" => left > 0
  BY <1>1, <1>2, <1>3 DEF StopReady
<1>5. "basic" \notin susp => /\ ~(pcB = "poll" /\ SlotDue)
                             /\ pcB \notin {"capture", "hand"}
                             /\ pcB = "wait" => wait > 0
  BY <1>1, <1>3 DEF BasicReady
<1>6. ~(pcG = "pend" /\ sem > 0) /\ (pcG = "send" => sendLeft > 0)
  BY <1>1, <1>3 DEF GprsReady
<1> QED
  BY <1>4, <1>5, <1>6

LEMMA TickKeepsCycle ==
  ASSUME CycleFits, TypeOK, TypeOK', CycleInv, Tick
  PROVE  CycleInv'
<1> USE DEF clockVars, basicVars, cameraVars, gprsVars, stopVars, queueVars
<1>1. /\ Elapsed \in Nat /\ UPM \in Nat \ {0} /\ WaitUnits \in Nat /\ MaxSend \in Nat
      /\ StopUnits \in Nat /\ MaxHangUp \in Nat /\ MaxDial \in Nat
      /\ wait \in Nat /\ sendLeft \in Nat /\ left \in Nat
  BY ElapsedType, TimingAssumption DEF TypeOK
<1>2. UNCHANGED <<alarm, cpu, susp, last, pcB, pcG, sem, pcR, pcS, step,
                  inbox, queue, overflow, stopFlag, powered>>
  BY DEF Tick
<1>3. Quiet' = Quiet /\ GprsIdle' = GprsIdle /\ Token' = Token /\ AllParked' = AllParked
  BY <1>2 DEF Quiet, GprsIdle, Token, Posted, AllParked
<1>4. StopFree'
  BY <1>2 DEF CycleInv, StopFree
<1>5. Elapsed # 5 * UPM - 1 =>
        Elapsed' = Elapsed + 1 /\ Sampled' = Sampled /\ AlarmAhead' = AlarmAhead
  BY <1>2, TickInPeriod DEF Sampled, AlarmAhead
<1>6. cpu = "run" => /\ left' = IF left = 0 THEN 0 ELSE left - 1
                     /\ sendLeft' = IF sendLeft = 0 THEN 0 ELSE sendLeft - 1
                     /\ (pcB = "wait" /\ "basic" \notin susp) =>
                           wait' = IF wait = 0 THEN 0 ELSE wait - 1
  BY DEF Tick, Timers, CountDown
<1>7. CASE Awake /\ Polls
  BY <1>2, <1>3, <1>4, <1>7 DEF Awake, Polls, CycleInv
<1>8. CASE Working
  <2>1. cpu = "run" /\ pcS = "pend" /\ "basic" \notin susp
    BY <1>8, TickIsIdle DEF Working, Awake
  <2>2. Awake'
    BY <1>2, <1>8 DEF Working, Awake
  <2>3. CASE Waits
    <3>1. wait > 0 /\ wait' = wait - 1
      BY <1>6, <2>1, <2>3, TickIsIdle DEF Waits
    <3>2. Elapsed # 5 * UPM - 1
      BY <1>1, <2>3, <3>1 DEF Waits, CycleFits
    <3>3. Waits'
      BY <1>1, <1>2, <1>3, <1>5, <2>3, <3>1, <3>2 DEF Waits
    <3> QED
      BY <1>4, <1>5, <1>8, <2>2, <3>2, <3>3 DEF Working, CycleInv
  <2>4. CASE Sends
    <3>1. sendLeft > 0 /\ sendLeft' = sendLeft - 1
      BY <1>1, <1>6, <2>1, <2>4, TickIsIdle DEF Sends
    <3>2. Elapsed # 5 * UPM - 1
      BY <1>1, <2>4, <3>1 DEF Sends, CycleFits
    <3>3. Sends'
      BY <1>1, <1>2, <1>3, <1>5, <2>4, <3>1, <3>2 DEF Sends
    <3> QED
      BY <1>4, <1>5, <1>8, <2>2, <3>2, <3>3 DEF Working, CycleInv
  <2>5. ~Captures /\ ~Hands
    BY <2>1, TickIsIdle DEF Captures, Hands
  <2>6. ~Asks
    BY <2>1, TickIsIdle DEF Asks
  <2>7. ~Requests
    BY <2>1, TickIsIdle DEF Requests, Posted, CycleInv, StopFree
  <2> QED
    BY <1>8, <2>3, <2>4, <2>5, <2>6, <2>7 DEF Working
<1>9. CASE Stopping
  <2>1. pcS \in {"delay", "hangup"} /\ left > 0 /\ left' = left - 1
    BY <1>1, <1>6, <1>9, TickIsIdle DEF Stopping
  <2>2. Elapsed # 5 * UPM - 1
    BY <1>1, <1>9, <2>1 DEF Stopping
  <2>3. Stopping'
    BY <1>1, <1>2, <1>3, <1>5, <1>9, <2>1, <2>2 DEF Stopping
  <2> QED
    BY <1>4, <2>3 DEF CycleInv
<1>10. CASE Sleeping
  <2>1. /\ pcS \in {"asleep", "yield", "pend"} /\ AlarmAhead
        /\ cpu = "stop" => pcS = "asleep"
        /\ stopFlag \/ cpu = "stop"
    <3>1. CASE cpu = "stop"
      BY <1>10, <3>1 DEF Sleeping
    <3>2. CASE cpu = "run"
      <4>1. pcS = "pend" /\ inbox = None
        BY <1>10, <3>2, TickIsIdle DEF Sleeping
      <4>2. stopFlag
        BY <1>10, <4>1 DEF Sleeping, Token, Posted, CycleInv, StopFree
      <4> QED
        BY <1>10, <3>2, <4>1, <4>2 DEF Sleeping
    <3> QED
      BY <3>1, <3>2 DEF TypeOK
  <2>2. Elapsed # 5 * UPM - 1
    BY <1>10, <2>1 DEF Sleeping, Tick
  <2>3. Elapsed' = 5 * UPM - 1 => due'
    BY <1>5, <2>1, <2>2, TickMeetsAlarm
  <2>4. Sleeping'
    BY <1>2, <1>3, <1>5, <1>10, <2>1, <2>2, <2>3 DEF Sleeping
  <2> QED
    BY <1>4, <2>4 DEF CycleInv
<1>11. CASE Waking
  <2>1. pcS = "dial" /\ left > 0 /\ left' = left - 1
    BY <1>1, <1>6, <1>11, TickIsIdle DEF Waking
  <2>2. CASE Elapsed = 5 * UPM - 1
    <3>1. Elapsed' = 0
      BY <2>2, TickToNextPeriod
    <3> QED
      BY <1>1, <1>2, <1>3, <1>4, <1>11, <2>1, <3>1 DEF Waking, CycleInv
  <2>3. CASE Elapsed # 5 * UPM - 1
    BY <1>1, <1>2, <1>3, <1>4, <1>5, <1>11, <2>1, <2>3 DEF Waking, CycleInv
  <2> QED
    BY <2>2, <2>3
<1> QED
  BY <1>7, <1>8, <1>9, <1>10, <1>11 DEF CycleInv

LEMMA CycleStep ==
  ASSUME CycleFits
  PROVE  TypeOK /\ TypeOK' /\ ParkInv /\ CycleInv /\ [Next]_vars => CycleInv'
<1> SUFFICES ASSUME TypeOK, TypeOK', ParkInv, CycleInv, [Next]_vars
             PROVE  CycleInv'
  OBVIOUS
<1>1. CASE BasicTask
  BY <1>1, BasicKeepsCycle
<1>2. CASE FtpTask
  BY <1>2, FtpKeepsCycle
<1>3. CASE GprsTask
  BY <1>3, GprsKeepsCycle
<1>4. CASE RecvTask
  BY <1>4 DEF RecvTask, RecvResponse, RecvHoldsBasic, RecvNormal, CycleFits, CycleInv, StopFree
<1>5. CASE StopTask
  BY <1>5, DispatchKeepsCycle, StoppingKeepsCycle, SleepingKeepsCycle, WakingKeepsCycle
  DEF StopTask
<1>6. CASE AlarmInterrupt \/ RainPulse
  BY <1>6, InterruptKeepsCycle
<1>7. CASE Tick
  BY <1>7, TickKeepsCycle
<1>8. CASE UNCHANGED vars
  BY <1>8, CycleUnchanged
  DEF vars, cycleVars, clockVars, basicVars, gprsVars, stopVars, queueVars
<1> QED
  BY <1>1, <1>2, <1>3, <1>4, <1>5, <1>6, <1>7, <1>8 DEF Next

LEMMA CycleAlways ==
  ASSUME CycleFits
  PROVE  Spec => [](TypeOK /\ ParkInv /\ CycleInv)
BY TypeInit, TypeStep, ParkInit, ParkStep, CycleInit, CycleStep, PTL DEF Spec

\* When the work of a period fits in its first four minutes, the power is never cut under an
\* upload or before one that has been asked for: stopmode_task has no lock to see to that.
THEOREM UploadOverAtPowerOffAlways ==
  ASSUME CycleFits
  PROVE  Spec => []UploadOverAtPowerOff
<1>1. ParkInv /\ CycleInv => UploadOverAtPowerOff
  BY DEF CycleInv, Awake, Working, Stopping, Sleeping, Waking, GprsIdle, UploadOverAtPowerOff
<1> QED
  BY <1>1, CycleAlways, PTL

\* Under the same condition stopmode_task switches the supplies on and restarts the modem and
\* the Ethernet chip only while every task that uses what PWR_OFF cuts is suspended, and
\* gprs_task, the modem's user, waits for its semaphore.
THEOREM WakesOnlyParkedAlways ==
  ASSUME CycleFits
  PROVE  Spec => []WakesOnlyParked
<1>1. CycleInv => WakesOnlyParked
  BY DEF CycleInv, Awake, Working, Stopping, Sleeping, Waking, AllParked, GprsIdle,
         WakesOnlyParked
<1> QED
  BY <1>1, CycleAlways, PTL

\* Under the same condition nobody drives an unpowered peripheral: receive_command is
\* suspended too, since no upload is left to resume it, and gprs_task waits for its semaphore.
THEOREM UnpoweredParkedAlways ==
  ASSUME CycleFits
  PROVE  Spec => []UnpoweredParked
<1>1. CycleInv => UnpoweredParked
  BY DEF CycleInv, Awake, Working, Stopping, Sleeping, Waking, AllParked, GprsIdle,
         UnpoweredParked
<1> QED
  BY <1>1, CycleAlways, PTL

\* Under the same condition a station whose power is off wakes up in this period: the flag is
\* up and its alarm ahead, or the WAKE_UP is on its way or being served.
THEOREM WakeUpPendingAlways ==
  ASSUME CycleFits
  PROVE  Spec => []WakeUpPending
<1>1. TypeOK /\ ParkInv /\ CycleInv => WakeUpPending
  <2> SUFFICES ASSUME TypeOK, ParkInv, CycleInv, ~powered, pcS # "power" PROVE WakeUpPending
    BY DEF WakeUpPending
  <2>1. Sleeping /\ AlarmAhead
    BY DEF CycleInv, ParkInv, Awake, Working, Stopping, Sleeping, Waking
  <2>2. CASE stopFlag
    <3>1. minute % 5 = 4 /\ part = UPM - 1 => due
      BY <2>1, <2>2, PeriodEnds, PeriodEndsLate DEF Sleeping
    <3> QED
      BY <2>1, <2>2, <3>1 DEF AlarmAhead, AlarmComes, WakeUpPending
  <2>3. CASE ~stopFlag
    <3>1. Posted("WAKE_UP")
      BY <2>1, <2>3 DEF Sleeping, Token
    <3>2. WakeUpPosted
      BY <3>1 DEF Posted, WakeUpPosted
    <3> QED
      BY <2>3, <3>2 DEF WakeUpPending
  <2> QED
    BY <2>2, <2>3
<1> QED
  BY <1>1, CycleAlways, PTL

\* Under the same condition the CPU halts on an alarm that fires: SetNextFiveMinuteAlarm is
\* never called in the last minute of a period.
THEOREM AlarmWillFireAlways ==
  ASSUME CycleFits
  PROVE  Spec => []AlarmWillFire
<1>1. TypeOK /\ CycleInv => AlarmWillFire
  <2> SUFFICES ASSUME TypeOK, CycleInv, cpu = "stop" PROVE Fires(alarm)
    BY DEF AlarmWillFire
  <2>1. AlarmAhead
    BY DEF CycleInv, Awake, Working, Stopping, Sleeping, Waking
  <2> QED
    BY <2>1, AheadFires DEF AlarmAhead, TypeOK
<1> QED
  BY <1>1, CycleAlways, PTL

\* Under the same condition one slot of Message_Q would be enough: no OSQPost is refused.
THEOREM NeverRefusedAlways ==
  ASSUME CycleFits
  PROVE  Spec => []NeverRefused
<1>1. CycleInv => NeverRefused
  BY DEF CycleInv, StopFree, NeverRefused
<1> QED
  BY <1>1, CycleAlways, PTL

\* When also a dial ends within a minute, no five-minute slot goes by without a sample: the
\* basic task is resumed before the first minute of the period is over.
THEOREM EverySlotSampledAlways ==
  ASSUME CycleFits, MaxDial <= UPM
  PROVE  Spec => EverySlotSampled
<1>1. TypeOK /\ CycleInv /\ [Next]_vars =>
        [minute' # minute /\ minute % 5 = 0 => last = minute]_vars
  <2> SUFFICES ASSUME TypeOK, CycleInv, Next, minute' # minute, minute % 5 = 0, last # minute
               PROVE  FALSE
    BY DEF vars, clockVars
  <2>1. Tick
    BY DEF Next, BasicTask, BasicSample, BasicCapture, BasicSeesPicture, BasicHandsOver,
           BasicGivesUp, FtpTask, FtpStores, FtpPhyOff, GprsTask, GprsStart, GprsDone, RecvTask,
           RecvResponse, RecvHoldsBasic, RecvNormal, StopTask, StopWoken, StopPends,
           StopDelayEnds, StopParks, StopHangsUp, StopSetsFlag, StopSetsAlarm, StopCutsPower,
           StopHalts, StopReturns, StopPowersUp, StopStartsNet, StopDialed, StopResumes,
           StopGoes, AlarmInterrupt, RainPulse, clockVars
  <2>2. Elapsed = UPM - 1 /\ UPM \in Nat \ {0} /\ left \in Nat
    BY <2>1, TickMoves, ElapsedInPeriod, TimingAssumption DEF TypeOK
  <2>3. ~Sampled /\ SlotDue
    BY DEF Sampled, SlotDue, TypeOK, Minutes
  <2>4. (Awake /\ Polls) \/ Waking
    BY <2>3 DEF CycleInv, Working, Stopping, Sleeping
  <2>5. CASE Awake /\ Polls
    BY <2>1, <2>3, <2>5, TickIsIdle DEF Awake, Polls
  <2>6. CASE Waking
    <3>1. cpu = "run" /\ pcS = "dial" /\ Elapsed + left <= MaxDial - 1
      BY <2>3, <2>6 DEF Waking
    <3>2. left > 0
      BY <2>1, <3>1, TickIsIdle
    <3> QED
      BY <2>2, <3>1, <3>2, TimingAssumption
  <2> QED
    BY <2>4, <2>5, <2>6
<1> QED
  BY <1>1, CycleAlways, PTL DEF Spec, EverySlotSampled

-------------------------------------------------------------------------------
(* What can be proved of the endless cycle without fairness: between two   *)
(* ticks the tasks and interrupts run out of work, for all constants and   *)
(* with mode commands, so that time goes on.                               *)

\* What is left to do of what has begun, in steps that take no part of a minute: a message costs
\* the stop task one turn of its loop, an upload ends in a message, a slot in a message or an
\* upload, an alarm in a message; a PHY with power lets the FTP task store one picture.
AlarmWork == IF due THEN 17 ELSE 0
SlotWork == IF SlotDue THEN 22 ELSE 0
BasicWork ==
  CASE pcB = "poll" -> 0 [] pcB = "capture" -> 21 [] pcB = "wait" -> 20 [] pcB = "hand" -> 19
FtpWork == IF pcF = "phyoff" THEN 1 ELSE IF phy THEN 2 ELSE 0
GprsWork == 18 * sem + (IF pcG = "send" THEN 17 ELSE 0)
RecvWork == IF pcR = "response" THEN 1 ELSE 0
MessageWork == 16 * (Len(queue) + (IF inbox = None THEN 0 ELSE 1))
StopWork ==
  CASE pcS = "pend" -> 0
    [] pcS = "delay" -> 15 [] pcS = "park" -> 15 - step [] pcS = "hangup" -> 8 [] pcS = "flag" -> 7
    [] pcS = "alarm" -> 6 [] pcS = "off" -> 5 [] pcS = "wfi" -> 4 [] pcS = "asleep" -> 2
    [] pcS = "power" -> 12 [] pcS = "net" -> 11 [] pcS = "dial" -> 8 [] pcS = "resume" -> 8 - step
    [] pcS = "yield" -> 1
CpuWork == IF cpu = "stop" THEN 1 ELSE 0

Work ==
  AlarmWork + SlotWork + BasicWork + FtpWork + GprsWork + RecvWork + MessageWork + StopWork + CpuWork

\* A mode command received, which nothing bounds.
Command == RecvResponse \/ RecvNormal

\* Every step uses up some of the work, but for the tick and a command; they bring a bounded amount.
WorkRunsOut ==
  [][IF Tick \/ Command THEN Work' <= Work + 39 ELSE Work' < Work]_vars

\* Without work left nothing holds the tick back.
TimeGoesOn ==
  Work \in Nat /\ (Work = 0 => ~due /\ ~(BasicReady \/ FtpReady \/ GprsReady \/ RecvReady \/ StopReady))

Parts ==
  /\ AlarmWork \in Nat /\ SlotWork \in Nat /\ BasicWork \in Nat /\ FtpWork \in Nat /\ GprsWork \in Nat
  /\ RecvWork \in Nat /\ MessageWork \in Nat /\ StopWork \in Nat /\ CpuWork \in Nat

\* The shares of the work, as numbers.
Shares(a, s, b, f, g, r, m, p, c) ==
  /\ AlarmWork = a /\ SlotWork = s /\ BasicWork = b /\ FtpWork = f /\ GprsWork = g
  /\ RecvWork = r /\ MessageWork = m /\ StopWork = p /\ CpuWork = c

LEMMA WorkParts == TypeOK => Parts
<1> SUFFICES ASSUME TypeOK PROVE Parts
  OBVIOUS
<1> USE DEF TypeOK
<1>1. AlarmWork \in Nat BY DEF AlarmWork
<1>2. SlotWork \in Nat BY DEF SlotWork
<1>3. BasicWork \in Nat BY DEF BasicWork
<1>4. FtpWork \in Nat BY DEF FtpWork
<1>5. GprsWork \in Nat BY DEF GprsWork
<1>6. RecvWork \in Nat BY DEF RecvWork
<1>7. MessageWork \in Nat
  <2>1. Len(queue) \in Nat
    OBVIOUS
  <2> QED
    BY <2>1 DEF MessageWork
<1>8. StopWork \in Nat
  <2>1. step \in 1 .. 6
    OBVIOUS
  <2>2. 15 - step \in Nat /\ 8 - step \in Nat
    BY <2>1
  <2> QED
    BY <2>2 DEF StopWork
<1>9. CpuWork \in Nat BY DEF CpuWork
<1> QED
  BY <1>1, <1>2, <1>3, <1>4, <1>5, <1>6, <1>7, <1>8, <1>9 DEF Parts

\* An OSQPost is worth one turn of the stop task's loop, or nothing when it is refused.
LEMMA PostWork ==
  ASSUME TypeOK, NEW m \in Messages, Post(m)
  PROVE  MessageWork' <= MessageWork + 16
<1>1. PICK n \in Nat : n = Len(queue)
  BY DEF TypeOK
<1>2. m # None
  BY DEF Messages, None
<1>3. CASE inbox = None /\ inbox' = m /\ queue' = queue
  BY <1>1, <1>2, <1>3 DEF MessageWork
<1>4. CASE queue' = Append(queue, m) /\ inbox' = inbox
  <2>1. Len(queue') = n + 1
    BY <1>1, <1>4 DEF TypeOK
  <2> QED
    BY <1>1, <1>4, <2>1 DEF MessageWork
<1>5. CASE inbox' = inbox /\ queue' = queue
  BY <1>1, <1>5 DEF MessageWork
<1> QED
  BY <1>3, <1>4, <1>5 DEF Post

\* A share stays the same while the variables it is made of do.
LEMMA Untouched ==
  /\ UNCHANGED due => UNCHANGED AlarmWork
  /\ UNCHANGED <<minute, last>> => UNCHANGED SlotWork
  /\ UNCHANGED pcB => UNCHANGED BasicWork
  /\ UNCHANGED <<pcF, phy>> => UNCHANGED FtpWork
  /\ UNCHANGED <<pcG, sem>> => UNCHANGED GprsWork
  /\ UNCHANGED pcR => UNCHANGED RecvWork
  /\ UNCHANGED <<inbox, queue>> => UNCHANGED MessageWork
  /\ UNCHANGED <<pcS, step>> => UNCHANGED StopWork
  /\ UNCHANGED cpu => UNCHANGED CpuWork
<1>1. UNCHANGED due => UNCHANGED AlarmWork
  BY DEF AlarmWork
<1>2. UNCHANGED <<minute, last>> => UNCHANGED SlotWork
  BY DEF SlotWork, SlotDue
<1>3. UNCHANGED pcB => UNCHANGED BasicWork
  BY DEF BasicWork
<1>4. UNCHANGED <<pcF, phy>> => UNCHANGED FtpWork
  BY DEF FtpWork
<1>5. UNCHANGED <<pcG, sem>> => UNCHANGED GprsWork
  BY DEF GprsWork
<1>6. UNCHANGED pcR => UNCHANGED RecvWork
  BY DEF RecvWork
<1>7. UNCHANGED <<inbox, queue>> => UNCHANGED MessageWork
  BY DEF MessageWork
<1>8. UNCHANGED <<pcS, step>> => UNCHANGED StopWork
  BY DEF StopWork
<1>9. UNCHANGED cpu => UNCHANGED CpuWork
  BY DEF CpuWork
<1> QED
  BY <1>1, <1>2, <1>3, <1>4, <1>5, <1>6, <1>7, <1>8, <1>9

\* A message taken out of the TCB or out of Message_Q.
LEMMA MessageTaken ==
  ASSUME TypeOK
  PROVE  /\ inbox # None /\ inbox' = None /\ queue' = queue => MessageWork' = MessageWork - 16
         /\ queue # <<>> /\ queue' = Tail(queue) /\ inbox' = inbox => MessageWork' = MessageWork - 16
<1>1. PICK n \in Nat : n = Len(queue)
  BY DEF TypeOK
<1>2. ASSUME inbox # None, inbox' = None, queue' = queue
      PROVE  MessageWork' = MessageWork - 16
  BY <1>1, <1>2 DEF MessageWork
<1>3. ASSUME queue # <<>>, queue' = Tail(queue), inbox' = inbox
      PROVE  MessageWork' = MessageWork - 16
  <2>1. Len(queue') = n - 1
    BY <1>1, <1>3 DEF TypeOK
  <2> QED
    BY <1>1, <1>3, <2>1 DEF MessageWork
<1> QED
  BY <1>2, <1>3

\* basic_message_task: a slot ends in a message or an upload.
LEMMA BasicUsesWork ==
  ASSUME TypeOK, TypeOK', BasicTask
  PROVE  Work' < Work
<1> USE DEF clockVars, basicVars, cameraVars, gprsVars, stopVars, queueVars
<1>1. PICK a1 \in Nat, s1 \in Nat, b1 \in Nat, f1 \in Nat, g1 \in Nat, r1 \in Nat, m1 \in Nat, p1 \in Nat,
           c1 \in Nat : Shares(a1, s1, b1, f1, g1, r1, m1, p1, c1)
  BY WorkParts DEF Parts, Shares
<1>2. PICK a2 \in Nat, s2 \in Nat, b2 \in Nat, f2 \in Nat, g2 \in Nat, r2 \in Nat, m2 \in Nat, p2 \in Nat,
           c2 \in Nat : Shares(a2, s2, b2, f2, g2, r2, m2, p2, c2)'
  <2>1. Parts'
    BY WorkParts, PTL
  <2> QED
    BY <2>1 DEF Parts, Shares
<1>3. Work = a1 + s1 + b1 + f1 + g1 + r1 + m1 + p1 + c1
  BY <1>1 DEF Work, Shares
<1>4. Work' = a2 + s2 + b2 + f2 + g2 + r2 + m2 + p2 + c2
  BY <1>2 DEF Work, Shares
<1>5. CASE BasicSample
  <2>1. SlotWork = 22 /\ SlotWork' = 0
    BY <1>5 DEF BasicSample, SlotWork, SlotDue
  <2>2. BasicWork = 0 /\ BasicWork' = 21
    BY <1>5 DEF BasicSample, BasicWork
  <2>3. a2 = a1 /\ f2 = f1 /\ g2 = g1 /\ r2 = r1 /\ m2 = m1 /\ p2 = p1 /\ c2 = c1 /\ s1 = 22 /\ s2 = 0 /\ b1 = 0 /\ b2 = 21
    BY <1>1, <1>2, <1>5, <2>1, <2>2, Untouched DEF BasicSample, Shares
  <2> QED
    BY <1>3, <1>4, <2>3
<1>6. CASE BasicCapture
  <2>1. BasicWork = 21 /\ BasicWork' = 20
    BY <1>6 DEF BasicCapture, BasicWork
  <2>2. a2 = a1 /\ s2 = s1 /\ f2 = f1 /\ g2 = g1 /\ r2 = r1 /\ m2 = m1 /\ p2 = p1 /\ c2 = c1 /\ b1 = 21 /\ b2 = 20
    BY <1>1, <1>2, <1>6, <2>1, Untouched DEF BasicCapture, Shares
  <2> QED
    BY <1>3, <1>4, <2>2
<1>7. CASE BasicSeesPicture
  <2>1. BasicWork = 20 /\ BasicWork' = 19
    BY <1>7 DEF BasicSeesPicture, BasicWork
  <2>2. a2 = a1 /\ s2 = s1 /\ f2 = f1 /\ g2 = g1 /\ r2 = r1 /\ m2 = m1 /\ p2 = p1 /\ c2 = c1 /\ b1 = 20 /\ b2 = 19
    BY <1>1, <1>2, <1>7, <2>1, Untouched DEF BasicSeesPicture, Shares
  <2> QED
    BY <1>3, <1>4, <2>2
<1>8. CASE BasicHandsOver
  <2>1. BasicWork = 19 /\ BasicWork' = 0
    BY <1>8 DEF BasicHandsOver, BasicWork
  <2>2. GprsWork' = GprsWork + 18
    BY <1>8 DEF BasicHandsOver, GprsWork, TypeOK
  <2>3. a2 = a1 /\ s2 = s1 /\ f2 = f1 /\ r2 = r1 /\ m2 = m1 /\ p2 = p1 /\ c2 = c1 /\ b1 = 19 /\ b2 = 0 /\ g2 = g1 + 18
    BY <1>1, <1>2, <1>8, <2>1, <2>2, Untouched DEF BasicHandsOver, Shares
  <2> QED
    BY <1>3, <1>4, <2>3
<1>9. CASE BasicGivesUp
  <2>1. BasicWork = 20 /\ BasicWork' = 0
    BY <1>9 DEF BasicGivesUp, BasicWork
  <2>2. MessageWork' <= MessageWork + 16
    BY <1>9, PostWork DEF BasicGivesUp, Messages
  <2>3. a2 = a1 /\ s2 = s1 /\ f2 = f1 /\ g2 = g1 /\ r2 = r1 /\ p2 = p1 /\ c2 = c1 /\ b1 = 20 /\ b2 = 0 /\ m2 <= m1 + 16
    BY <1>1, <1>2, <1>9, <2>1, <2>2, Untouched DEF BasicGivesUp, Shares
  <2> QED
    BY <1>3, <1>4, <2>3
<1> QED
  BY <1>5, <1>6, <1>7, <1>8, <1>9 DEF BasicTask

\* ftp_task, gprs_task, and the second half of ENTER_RESPONSE_MODE.
LEMMA OthersUseWork ==
  ASSUME TypeOK, TypeOK', FtpTask \/ GprsTask \/ RecvHoldsBasic
  PROVE  Work' < Work
<1> USE DEF clockVars, basicVars, cameraVars, gprsVars, stopVars, queueVars
<1>1. PICK a1 \in Nat, s1 \in Nat, b1 \in Nat, f1 \in Nat, g1 \in Nat, r1 \in Nat, m1 \in Nat, p1 \in Nat,
           c1 \in Nat : Shares(a1, s1, b1, f1, g1, r1, m1, p1, c1)
  BY WorkParts DEF Parts, Shares
<1>2. PICK a2 \in Nat, s2 \in Nat, b2 \in Nat, f2 \in Nat, g2 \in Nat, r2 \in Nat, m2 \in Nat, p2 \in Nat,
           c2 \in Nat : Shares(a2, s2, b2, f2, g2, r2, m2, p2, c2)'
  <2>1. Parts'
    BY WorkParts, PTL
  <2> QED
    BY <2>1 DEF Parts, Shares
<1>3. Work = a1 + s1 + b1 + f1 + g1 + r1 + m1 + p1 + c1
  BY <1>1 DEF Work, Shares
<1>4. Work' = a2 + s2 + b2 + f2 + g2 + r2 + m2 + p2 + c2
  BY <1>2 DEF Work, Shares
<1>5. CASE FtpStores
  <2>1. FtpWork = 2 /\ FtpWork' = 1
    BY <1>5 DEF FtpStores, FtpWork
  <2>2. a2 = a1 /\ s2 = s1 /\ b2 = b1 /\ g2 = g1 /\ r2 = r1 /\ m2 = m1 /\ p2 = p1 /\ c2 = c1 /\ f1 = 2 /\ f2 = 1
    BY <1>1, <1>2, <1>5, <2>1, Untouched DEF FtpStores, Shares
  <2> QED
    BY <1>3, <1>4, <2>2
<1>6. CASE FtpPhyOff
  <2>1. FtpWork = 1 /\ FtpWork' = 0
    BY <1>6 DEF FtpPhyOff, FtpWork
  <2>2. a2 = a1 /\ s2 = s1 /\ b2 = b1 /\ g2 = g1 /\ r2 = r1 /\ m2 = m1 /\ p2 = p1 /\ c2 = c1 /\ f1 = 1 /\ f2 = 0
    BY <1>1, <1>2, <1>6, <2>1, Untouched DEF FtpPhyOff, Shares
  <2> QED
    BY <1>3, <1>4, <2>2
<1>7. CASE GprsStart
  <2>1. GprsWork' = GprsWork - 1
    BY <1>7 DEF GprsStart, GprsWork, TypeOK
  <2>2. a2 = a1 /\ s2 = s1 /\ b2 = b1 /\ f2 = f1 /\ r2 = r1 /\ m2 = m1 /\ p2 = p1 /\ c2 = c1 /\ g2 = g1 - 1
    BY <1>1, <1>2, <1>7, <2>1, Untouched DEF GprsStart, Shares
  <2> QED
    BY <1>3, <1>4, <2>2
<1>8. CASE GprsDone
  <2>1. GprsWork' = GprsWork - 17
    BY <1>8 DEF GprsDone, GprsWork, TypeOK
  <2>2. MessageWork' <= MessageWork + 16
    BY <1>8, PostWork DEF GprsDone, Messages
  <2>3. a2 = a1 /\ s2 = s1 /\ b2 = b1 /\ f2 = f1 /\ r2 = r1 /\ p2 = p1 /\ c2 = c1 /\ g2 = g1 - 17 /\ m2 <= m1 + 16
    BY <1>1, <1>2, <1>8, <2>1, <2>2, Untouched DEF GprsDone, Shares
  <2> QED
    BY <1>3, <1>4, <2>3
<1>9. CASE RecvHoldsBasic
  <2>1. RecvWork = 1 /\ RecvWork' = 0
    BY <1>9 DEF RecvHoldsBasic, RecvWork
  <2>2. a2 = a1 /\ s2 = s1 /\ b2 = b1 /\ f2 = f1 /\ g2 = g1 /\ m2 = m1 /\ p2 = p1 /\ c2 = c1 /\ r1 = 1 /\ r2 = 0
    BY <1>1, <1>2, <1>9, <2>1, Untouched DEF RecvHoldsBasic, Shares
  <2> QED
    BY <1>3, <1>4, <2>2
<1> QED
  BY <1>5, <1>6, <1>7, <1>8, <1>9 DEF FtpTask, GprsTask

\* stopmode_task takes a message, or waits for one.
LEMMA StopTakes ==
  ASSUME TypeOK, TypeOK', StopWoken \/ StopPends
  PROVE  Work' < Work
<1> USE DEF clockVars, basicVars, cameraVars, gprsVars, stopVars, queueVars
<1>1. PICK a1 \in Nat, s1 \in Nat, b1 \in Nat, f1 \in Nat, g1 \in Nat, r1 \in Nat, m1 \in Nat, p1 \in Nat,
           c1 \in Nat : Shares(a1, s1, b1, f1, g1, r1, m1, p1, c1)
  BY WorkParts DEF Parts, Shares
<1>2. PICK a2 \in Nat, s2 \in Nat, b2 \in Nat, f2 \in Nat, g2 \in Nat, r2 \in Nat, m2 \in Nat, p2 \in Nat,
           c2 \in Nat : Shares(a2, s2, b2, f2, g2, r2, m2, p2, c2)'
  <2>1. Parts'
    BY WorkParts, PTL
  <2> QED
    BY <2>1 DEF Parts, Shares
<1>3. Work = a1 + s1 + b1 + f1 + g1 + r1 + m1 + p1 + c1
  BY <1>1 DEF Work, Shares
<1>4. Work' = a2 + s2 + b2 + f2 + g2 + r2 + m2 + p2 + c2
  BY <1>2 DEF Work, Shares
<1>5. CASE StopWoken
  <2>1. StopWork = 0 /\ StopWork' <= 15
    BY <1>5 DEF StopWoken, Dispatch, StopWork
  <2>2. MessageWork' = MessageWork - 16
    BY <1>5, MessageTaken DEF StopWoken
  <2>3. a2 = a1 /\ s2 = s1 /\ b2 = b1 /\ f2 = f1 /\ g2 = g1 /\ r2 = r1 /\ c2 = c1 /\ p1 = 0 /\ p2 <= 15 /\ m2 = m1 - 16
    BY <1>1, <1>2, <1>5, <2>1, <2>2, Untouched DEF StopWoken, Shares
  <2> QED
    BY <1>3, <1>4, <2>3
<1>6. CASE StopPends /\ queue = <<>>
  <2>1. StopWork = 1 /\ StopWork' = 0
    BY <1>6 DEF StopPends, StopWork
  <2>2. a2 = a1 /\ s2 = s1 /\ b2 = b1 /\ f2 = f1 /\ g2 = g1 /\ r2 = r1 /\ m2 = m1 /\ c2 = c1 /\ p1 = 1 /\ p2 = 0
    BY <1>1, <1>2, <1>6, <2>1, Untouched DEF StopPends, Shares
  <2> QED
    BY <1>3, <1>4, <2>2
<1>7. CASE StopPends /\ queue # <<>>
  <2>1. StopWork = 1 /\ StopWork' <= 15
    BY <1>7 DEF StopPends, Dispatch, StopWork
  <2>2. MessageWork' = MessageWork - 16
    BY <1>7, MessageTaken DEF StopPends
  <2>3. a2 = a1 /\ s2 = s1 /\ b2 = b1 /\ f2 = f1 /\ g2 = g1 /\ r2 = r1 /\ c2 = c1 /\ p1 = 1 /\ p2 <= 15 /\ m2 = m1 - 16
    BY <1>1, <1>2, <1>7, <2>1, <2>2, Untouched DEF StopPends, Shares
  <2> QED
    BY <1>3, <1>4, <2>3
<1> QED
  BY <1>5, <1>6, <1>7

\* stopmode_task serves a message.
LEMMA StopGoesOn ==
  ASSUME TypeOK, TypeOK',
         StopDelayEnds \/ StopParks \/ StopHangsUp
         \/ StopSetsFlag \/ StopSetsAlarm \/ StopCutsPower \/ StopHalts
         \/ StopReturns \/ StopPowersUp \/ StopStartsNet \/ StopDialed \/ StopResumes
  PROVE  Work' < Work
<1> USE DEF clockVars, basicVars, cameraVars, gprsVars, stopVars, queueVars
<1>1. PICK a1 \in Nat, s1 \in Nat, b1 \in Nat, f1 \in Nat, g1 \in Nat, r1 \in Nat, m1 \in Nat, p1 \in Nat,
           c1 \in Nat : Shares(a1, s1, b1, f1, g1, r1, m1, p1, c1)
  BY WorkParts DEF Parts, Shares
<1>2. PICK a2 \in Nat, s2 \in Nat, b2 \in Nat, f2 \in Nat, g2 \in Nat, r2 \in Nat, m2 \in Nat, p2 \in Nat,
           c2 \in Nat : Shares(a2, s2, b2, f2, g2, r2, m2, p2, c2)'
  <2>1. Parts'
    BY WorkParts, PTL
  <2> QED
    BY <2>1 DEF Parts, Shares
<1>3. Work = a1 + s1 + b1 + f1 + g1 + r1 + m1 + p1 + c1
  BY <1>1 DEF Work, Shares
<1>4. Work' = a2 + s2 + b2 + f2 + g2 + r2 + m2 + p2 + c2
  BY <1>2 DEF Work, Shares
<1>5. CASE StopDelayEnds
  <2>1. StopWork = 15 /\ StopWork' = 14
    BY <1>5 DEF StopDelayEnds, StopGoes, StopWork
  <2>2. a2 = a1 /\ s2 = s1 /\ b2 = b1 /\ f2 = f1 /\ g2 = g1 /\ r2 = r1 /\ m2 = m1 /\ c2 = c1 /\ p1 = 15 /\ p2 = 14
    BY <1>1, <1>2, <1>5, <2>1, Untouched DEF StopDelayEnds, StopGoes, Shares
  <2> QED
    BY <1>3, <1>4, <2>2
<1>6. CASE StopParks
  <2>1. StopWork' <= StopWork - 1
    <3>1. step \in 1 .. 6 /\ StopWork = 15 - step
      BY <1>6 DEF StopParks, StopWork, TypeOK
    <3>2. CASE step < 6
      <4>1. StopWork' = 15 - (step + 1)
        BY <1>6, <3>2 DEF StopParks, StopWork
      <4> QED
        BY <3>1, <4>1
    <3>3. CASE ~(step < 6)
      <4>1. StopWork' = 8
        BY <1>6, <3>3 DEF StopParks, StopWork
      <4> QED
        BY <3>1, <4>1
    <3> QED
      BY <3>2, <3>3
  <2>2. a2 = a1 /\ s2 = s1 /\ b2 = b1 /\ f2 = f1 /\ g2 = g1 /\ r2 = r1 /\ m2 = m1 /\ c2 = c1 /\ p2 <= p1 - 1
    BY <1>1, <1>2, <1>6, <2>1, Untouched DEF StopParks, Shares
  <2> QED
    BY <1>3, <1>4, <2>2
<1>7. CASE StopHangsUp
  <2>1. StopWork = 8 /\ StopWork' = 7
    BY <1>7 DEF StopHangsUp, StopGoes, StopWork
  <2>2. a2 = a1 /\ s2 = s1 /\ b2 = b1 /\ f2 = f1 /\ g2 = g1 /\ r2 = r1 /\ m2 = m1 /\ c2 = c1 /\ p1 = 8 /\ p2 = 7
    BY <1>1, <1>2, <1>7, <2>1, Untouched DEF StopHangsUp, StopGoes, Shares
  <2> QED
    BY <1>3, <1>4, <2>2
<1>8. CASE StopSetsFlag
  <2>1. StopWork = 7 /\ StopWork' = 6
    BY <1>8 DEF StopSetsFlag, StopGoes, StopWork
  <2>2. a2 = a1 /\ s2 = s1 /\ b2 = b1 /\ f2 = f1 /\ g2 = g1 /\ r2 = r1 /\ m2 = m1 /\ c2 = c1 /\ p1 = 7 /\ p2 = 6
    BY <1>1, <1>2, <1>8, <2>1, Untouched DEF StopSetsFlag, StopGoes, Shares
  <2> QED
    BY <1>3, <1>4, <2>2
<1>9. CASE StopSetsAlarm
  <2>1. StopWork = 6 /\ StopWork' = 5
    BY <1>9 DEF StopSetsAlarm, StopGoes, StopWork
  <2>2. AlarmWork' = 0
    BY <1>9 DEF StopSetsAlarm, AlarmWork
  <2>3. s2 = s1 /\ b2 = b1 /\ f2 = f1 /\ g2 = g1 /\ r2 = r1 /\ m2 = m1 /\ c2 = c1 /\ p1 = 6 /\ p2 = 5 /\ a2 = 0
    BY <1>1, <1>2, <1>9, <2>1, <2>2, Untouched DEF StopSetsAlarm, StopGoes, Shares
  <2> QED
    BY <1>3, <1>4, <2>3
<1>10. CASE StopCutsPower
  <2>1. StopWork = 5 /\ StopWork' = 4
    BY <1>10 DEF StopCutsPower, StopGoes, StopWork
  <2>2. a2 = a1 /\ s2 = s1 /\ b2 = b1 /\ f2 = f1 /\ g2 = g1 /\ r2 = r1 /\ m2 = m1 /\ c2 = c1 /\ p1 = 5 /\ p2 = 4
    BY <1>1, <1>2, <1>10, <2>1, Untouched DEF StopCutsPower, StopGoes, Shares
  <2> QED
    BY <1>3, <1>4, <2>2
<1>11. CASE StopHalts
  <2>1. StopWork = 4 /\ StopWork' = 2
    BY <1>11 DEF StopHalts, StopWork
  <2>2. CpuWork' = 1
    BY <1>11 DEF StopHalts, CpuWork
  <2>3. a2 = a1 /\ s2 = s1 /\ b2 = b1 /\ f2 = f1 /\ g2 = g1 /\ r2 = r1 /\ m2 = m1 /\ p1 = 4 /\ p2 = 2 /\ c2 = 1
    BY <1>1, <1>2, <1>11, <2>1, <2>2, Untouched DEF StopHalts, Shares
  <2> QED
    BY <1>3, <1>4, <2>3
<1>12. CASE StopReturns
  <2>1. StopWork = 2 /\ StopWork' = 1
    BY <1>12 DEF StopReturns, StopGoes, StopWork
  <2>2. a2 = a1 /\ s2 = s1 /\ b2 = b1 /\ f2 = f1 /\ g2 = g1 /\ r2 = r1 /\ m2 = m1 /\ c2 = c1 /\ p1 = 2 /\ p2 = 1
    BY <1>1, <1>2, <1>12, <2>1, Untouched DEF StopReturns, StopGoes, Shares
  <2> QED
    BY <1>3, <1>4, <2>2
<1>13. CASE StopPowersUp
  <2>1. StopWork = 12 /\ StopWork' = 11
    BY <1>13 DEF StopPowersUp, StopGoes, StopWork
  <2>2. a2 = a1 /\ s2 = s1 /\ b2 = b1 /\ f2 = f1 /\ g2 = g1 /\ r2 = r1 /\ m2 = m1 /\ c2 = c1 /\ p1 = 12 /\ p2 = 11
    BY <1>1, <1>2, <1>13, <2>1, Untouched DEF StopPowersUp, StopGoes, Shares
  <2> QED
    BY <1>3, <1>4, <2>2
<1>14. CASE StopStartsNet
  <2>1. StopWork = 11 /\ StopWork' = 8
    BY <1>14 DEF StopStartsNet, StopGoes, StopWork
  <2>2. FtpWork' <= FtpWork + 2
    BY <1>14 DEF StopStartsNet, FtpWork, TypeOK
  <2>3. a2 = a1 /\ s2 = s1 /\ b2 = b1 /\ g2 = g1 /\ r2 = r1 /\ m2 = m1 /\ c2 = c1 /\ p1 = 11 /\ p2 = 8 /\ f2 <= f1 + 2
    BY <1>1, <1>2, <1>14, <2>1, <2>2, Untouched DEF StopStartsNet, StopGoes, Shares
  <2> QED
    BY <1>3, <1>4, <2>3
<1>15. CASE StopDialed
  <2>1. StopWork = 8 /\ StopWork' = 7
    BY <1>15 DEF StopDialed, StopGoes, StopWork
  <2>2. a2 = a1 /\ s2 = s1 /\ b2 = b1 /\ f2 = f1 /\ g2 = g1 /\ r2 = r1 /\ m2 = m1 /\ c2 = c1 /\ p1 = 8 /\ p2 = 7
    BY <1>1, <1>2, <1>15, <2>1, Untouched DEF StopDialed, StopGoes, Shares
  <2> QED
    BY <1>3, <1>4, <2>2
<1>16. CASE StopResumes
  <2>1. StopWork' <= StopWork - 1
    <3>1. step \in 1 .. 6 /\ StopWork = 8 - step
      BY <1>16 DEF StopResumes, StopWork, TypeOK
    <3>2. CASE step < 5
      <4>1. StopWork' = 8 - (step + 1)
        BY <1>16, <3>2 DEF StopResumes, StopWork
      <4> QED
        BY <3>1, <4>1
    <3>3. CASE ~(step < 5)
      <4>1. StopWork' = 1
        BY <1>16, <3>3 DEF StopResumes, StopWork
      <4> QED
        BY <3>1, <4>1
    <3> QED
      BY <3>2, <3>3
  <2>2. a2 = a1 /\ s2 = s1 /\ b2 = b1 /\ f2 = f1 /\ g2 = g1 /\ r2 = r1 /\ m2 = m1 /\ c2 = c1 /\ p2 <= p1 - 1
    BY <1>1, <1>2, <1>16, <2>1, Untouched DEF StopResumes, Shares
  <2> QED
    BY <1>3, <1>4, <2>2
<1> QED
  BY <1>5, <1>6, <1>7, <1>8, <1>9, <1>10, <1>11, <1>12, <1>13, <1>14, <1>15, <1>16

\* The interrupts: a WAKE_UP is posted for an alarm, a halted CPU runs again.
LEMMA InterruptsUseWork ==
  ASSUME TypeOK, TypeOK', AlarmInterrupt \/ RainPulse
  PROVE  Work' < Work
<1> USE DEF clockVars, basicVars, cameraVars, gprsVars, stopVars, queueVars
<1>1. PICK a1 \in Nat, s1 \in Nat, b1 \in Nat, f1 \in Nat, g1 \in Nat, r1 \in Nat, m1 \in Nat, p1 \in Nat,
           c1 \in Nat : Shares(a1, s1, b1, f1, g1, r1, m1, p1, c1)
  BY WorkParts DEF Parts, Shares
<1>2. PICK a2 \in Nat, s2 \in Nat, b2 \in Nat, f2 \in Nat, g2 \in Nat, r2 \in Nat, m2 \in Nat, p2 \in Nat,
           c2 \in Nat : Shares(a2, s2, b2, f2, g2, r2, m2, p2, c2)'
  <2>1. Parts'
    BY WorkParts, PTL
  <2> QED
    BY <2>1 DEF Parts, Shares
<1>3. Work = a1 + s1 + b1 + f1 + g1 + r1 + m1 + p1 + c1
  BY <1>1 DEF Work, Shares
<1>4. Work' = a2 + s2 + b2 + f2 + g2 + r2 + m2 + p2 + c2
  BY <1>2 DEF Work, Shares
<1>5. CASE AlarmInterrupt
  <2>1. AlarmWork = 17 /\ AlarmWork' = 0
    BY <1>5 DEF AlarmInterrupt, AlarmWork
  <2>2. CpuWork' = 0
    BY <1>5 DEF AlarmInterrupt, CpuWork
  <2>3. MessageWork' <= MessageWork + 16
    BY <1>5, PostWork, Untouched, WorkParts DEF AlarmInterrupt, Messages, Parts
  <2>4. s2 = s1 /\ b2 = b1 /\ f2 = f1 /\ g2 = g1 /\ r2 = r1 /\ p2 = p1 /\ a1 = 17 /\ a2 = 0 /\ c2 = 0 /\ m2 <= m1 + 16
    BY <1>1, <1>2, <1>5, <2>1, <2>2, <2>3, Untouched DEF AlarmInterrupt, Shares
  <2> QED
    BY <1>3, <1>4, <2>4
<1>6. CASE RainPulse
  <2>1. CpuWork = 1 /\ CpuWork' = 0
    BY <1>6 DEF RainPulse, CpuWork
  <2>2. a2 = a1 /\ s2 = s1 /\ b2 = b1 /\ f2 = f1 /\ g2 = g1 /\ r2 = r1 /\ m2 = m1 /\ p2 = p1 /\ c1 = 1 /\ c2 = 0
    BY <1>1, <1>2, <1>6, <2>1, Untouched DEF RainPulse, Shares
  <2> QED
    BY <1>3, <1>4, <2>2
<1> QED
  BY <1>5, <1>6

\* A tick brings an alarm or a slot, a mode command a suspend still to come.
LEMMA TickBringsWork ==
  ASSUME TypeOK, TypeOK', Tick \/ Command
  PROVE  Work' <= Work + 39
<1> USE DEF clockVars, basicVars, cameraVars, gprsVars, stopVars, queueVars
<1>1. PICK a1 \in Nat, s1 \in Nat, b1 \in Nat, f1 \in Nat, g1 \in Nat, r1 \in Nat, m1 \in Nat, p1 \in Nat,
           c1 \in Nat : Shares(a1, s1, b1, f1, g1, r1, m1, p1, c1)
  BY WorkParts DEF Parts, Shares
<1>2. PICK a2 \in Nat, s2 \in Nat, b2 \in Nat, f2 \in Nat, g2 \in Nat, r2 \in Nat, m2 \in Nat, p2 \in Nat,
           c2 \in Nat : Shares(a2, s2, b2, f2, g2, r2, m2, p2, c2)'
  <2>1. Parts'
    BY WorkParts, PTL
  <2> QED
    BY <2>1 DEF Parts, Shares
<1>3. Work = a1 + s1 + b1 + f1 + g1 + r1 + m1 + p1 + c1
  BY <1>1 DEF Work, Shares
<1>4. Work' = a2 + s2 + b2 + f2 + g2 + r2 + m2 + p2 + c2
  BY <1>2 DEF Work, Shares
<1>5. CASE Tick
  <2>1. AlarmWork' <= 17
    BY <1>5 DEF AlarmWork
  <2>2. SlotWork' <= 22
    BY <1>5 DEF SlotWork
  <2>3. b2 = b1 /\ f2 = f1 /\ g2 = g1 /\ r2 = r1 /\ m2 = m1 /\ p2 = p1 /\ c2 = c1 /\ a2 <= 17 /\ s2 <= 22
    BY <1>1, <1>2, <1>5, <2>1, <2>2, Untouched DEF Tick, Shares
  <2> QED
    BY <1>3, <1>4, <2>3
<1>6. CASE RecvResponse
  <2>1. RecvWork' = 1
    BY <1>6 DEF RecvResponse, RecvWork
  <2>2. a2 = a1 /\ s2 = s1 /\ b2 = b1 /\ f2 = f1 /\ g2 = g1 /\ m2 = m1 /\ p2 = p1 /\ c2 = c1 /\ r2 = 1
    BY <1>1, <1>2, <1>6, <2>1, Untouched DEF RecvResponse, Shares
  <2> QED
    BY <1>3, <1>4, <2>2
<1>7. CASE RecvNormal
  <2>1. a2 = a1 /\ s2 = s1 /\ b2 = b1 /\ f2 = f1 /\ g2 = g1 /\ r2 = r1 /\ m2 = m1 /\ p2 = p1 /\ c2 = c1
    BY <1>1, <1>2, <1>7, Untouched DEF RecvNormal, Shares
  <2> QED
    BY <1>3, <1>4, <2>1
<1> QED
  BY <1>5, <1>6, <1>7 DEF Command

\* Once the work left is none, no task is ready and no alarm is due.
LEMMA NoWorkNoneReady == TypeOK => TimeGoesOn
<1> SUFFICES ASSUME TypeOK PROVE TimeGoesOn
  OBVIOUS
<1>1. PICK a \in Nat, s \in Nat, b \in Nat, f \in Nat, g \in Nat, r \in Nat, m \in Nat, p \in Nat, c \in Nat :
        Shares(a, s, b, f, g, r, m, p, c)
  BY WorkParts DEF Parts, Shares
<1>2. Work = a + s + b + f + g + r + m + p + c
  BY <1>1 DEF Work, Shares
<1>3. ASSUME Work = 0
      PROVE  ~due /\ ~(BasicReady \/ FtpReady \/ GprsReady \/ RecvReady \/ StopReady)
  <2>1. Shares(0, 0, 0, 0, 0, 0, 0, 0, 0)
    BY <1>1, <1>2, <1>3 DEF Shares
  <2>2. ~due
    BY <2>1 DEF Shares, AlarmWork
  <2>3. ~BasicReady
    BY <2>1 DEF Shares, SlotWork, BasicWork, BasicReady, TypeOK
  <2>4. ~FtpReady
    BY <2>1 DEF Shares, FtpWork, FtpReady, TypeOK
  <2>5. ~GprsReady
    BY <2>1 DEF Shares, GprsWork, GprsReady, TypeOK
  <2>6. ~RecvReady
    BY <2>1 DEF Shares, RecvWork, RecvReady, TypeOK
  <2>7. ~StopReady
    <3>1. pcS = "pend"
      <4>1. StopWork = 0
        BY <2>1 DEF Shares
      <4>2. step \in 1 .. 6
        BY DEF TypeOK
      <4>3. pcS # "park"
        BY <4>1, <4>2 DEF StopWork
      <4>4. pcS # "resume"
        BY <4>1, <4>2 DEF StopWork
      <4> QED
        BY <4>1, <4>3, <4>4 DEF StopWork, TypeOK
    <3>2. inbox = None
      <4>1. PICK n \in Nat : n = Len(queue)
        BY DEF TypeOK
      <4> QED
        BY <2>1, <4>1 DEF Shares, MessageWork
    <3> QED
      BY <3>1, <3>2 DEF StopReady
  <2> QED
    BY <2>2, <2>3, <2>4, <2>5, <2>6, <2>7
<1> QED
  BY <1>2, <1>3 DEF TimeGoesOn

\* Between two ticks the tasks and interrupts run out of work, whatever the uploads, delays and mode
\* commands: every other step uses up some of a bounded stock, a tick adds at most 39 to it, and
\* with nothing left no task and no alarm keeps the next tick from coming (thread.c; 01_EXTI).
THEOREM WorkAlwaysRunsOut == Spec => []TimeGoesOn /\ WorkRunsOut
<1>1. TypeOK => TimeGoesOn
  BY NoWorkNoneReady
<1>2. TypeOK /\ TypeOK' /\ [Next]_vars
      => [IF Tick \/ Command THEN Work' <= Work + 39 ELSE Work' < Work]_vars
  <2> SUFFICES ASSUME TypeOK, TypeOK', Next
               PROVE  IF Tick \/ Command THEN Work' <= Work + 39 ELSE Work' < Work
    OBVIOUS
  <2>1. CASE Tick \/ Command
    BY <2>1, TickBringsWork
  <2>2. CASE ~(Tick \/ Command)
    BY <2>2, BasicUsesWork, OthersUseWork, StopGoesOn, StopTakes, InterruptsUseWork
       DEF Next, RecvTask, Command, StopTask
  <2> QED
    BY <2>1, <2>2
<1>3. Spec => []TypeOK
  BY TypeCorrect
<1> QED
  BY <1>1, <1>2, <1>3, PTL DEF Spec, WorkRunsOut

-------------------------------------------------------------------------------
(* Message_Q as these tasks use it is the queue that MessageQueue promises *)
(* and Kernel implements: every step that touches it is one of its steps.  *)

\* stopmode_task is in OSQPend and has not been given a message.
Waiting == IF pcS = "pend" /\ inbox = None THEN {"stop"} ELSE {}

\* r is what the receive under way, if any, gives its caller.
MessageQ(r) ==
  INSTANCE MessageQueue
    WITH Tasks <- {"stop"}, Msgs <- Messages, NoMsg <- None, Capacity <- N_MESSAGE,
         waiting <- Waiting, held <- [t \in {"stop"} |-> inbox], returned <- r

Posts == \E m \in Messages : MessageQ(m)!Store(m) \/ MessageQ(m)!Give(m, "stop")

\* The message that is received is the one that is served.
Receives ==
  \E m \in Messages :
    /\ MessageQ(m)!Take("stop") \/ MessageQ(m)!PickUp("stop")
    /\ pcS' = IF m = "ENTER_STOP" THEN "delay" ELSE "power"

QueueLeftAlone == UNCHANGED <<queue, inbox, Waiting>>

UsesTheQueue ==
  [][Posts \/ Receives \/ MessageQ(None)!Wait("stop") \/ QueueLeftAlone]_vars

\* A message is in the TCB only of a waiting task, and no task waits beside a message.
NoWaitBesideMessage ==
  /\ inbox # None => pcS = "pend"
  /\ pcS = "pend" /\ inbox = None => queue = <<>>

\* What the steps that neither post nor receive do to the queue's variables: stopmode_task goes on
\* from one place outside OSQPend to another, or they stay as they are.
Elsewhere ==
  /\ UNCHANGED <<inbox, queue>>
  /\ UNCHANGED pcS \/ (pcS # "pend" /\ pcS' # "pend")

LEMMA PostIsPromised ==
  ASSUME TypeOK, NoWaitBesideMessage, NEW m \in Messages, Post(m), UNCHANGED pcS
  PROVE  NoWaitBesideMessage' /\ (Posts \/ QueueLeftAlone)
<1>1. m # None
  OBVIOUS
<1>2. CASE pcS = "pend" /\ inbox = None
  <2>1. inbox' = m /\ queue' = queue /\ queue = <<>>
    BY <1>2 DEF Post, NoWaitBesideMessage
  <2>2. Waiting = {"stop"} /\ Waiting' = {}
    BY <1>1, <1>2, <2>1 DEF Waiting
  <2>3. MessageQ(m)!Give(m, "stop")
    BY <2>1, <2>2 DEF MessageQ!Give
  <2> QED
    BY <1>1, <1>2, <2>1, <2>3 DEF Posts, NoWaitBesideMessage
<1>3. CASE ~(pcS = "pend" /\ inbox = None) /\ Len(queue) < N_MESSAGE
  <2>1. queue' = Append(queue, m) /\ inbox' = inbox
    BY <1>3 DEF Post
  <2>2. Waiting = {} /\ Waiting' = {}
    BY <1>3, <2>1 DEF Waiting
  <2>3. MessageQ(m)!Store(m)
    BY <1>3, <2>1, <2>2 DEF MessageQ!Store
  <2> QED
    BY <1>3, <2>1, <2>3 DEF Posts, NoWaitBesideMessage
<1>4. CASE ~(pcS = "pend" /\ inbox = None) /\ ~(Len(queue) < N_MESSAGE)
  BY <1>4 DEF Post, QueueLeftAlone, Waiting, NoWaitBesideMessage
<1> QED
  BY <1>2, <1>3, <1>4

LEMMA WokenIsPromised ==
  ASSUME TypeOK, NoWaitBesideMessage, StopWoken
  PROVE  NoWaitBesideMessage' /\ Receives
<1>1. PICK m \in Messages : m = inbox
  BY DEF StopWoken, TypeOK
<1>2. m # None /\ inbox' = None /\ queue' = queue /\ pcS = "pend"
  BY <1>1 DEF StopWoken
<1>3. pcS' = (IF m = "ENTER_STOP" THEN "delay" ELSE "power")
  BY <1>1 DEF StopWoken, Dispatch
<1>4. Waiting = {} /\ Waiting' = {}
  BY <1>1, <1>2, <1>3 DEF Waiting
<1>5. MessageQ(m)!PickUp("stop")
  BY <1>1, <1>2, <1>4 DEF MessageQ!PickUp
<1>6. NoWaitBesideMessage'
  BY <1>2, <1>3 DEF NoWaitBesideMessage
<1> QED
  BY <1>3, <1>5, <1>6 DEF Receives

LEMMA PendIsPromised ==
  ASSUME TypeOK, NoWaitBesideMessage, StopPends
  PROVE  NoWaitBesideMessage' /\ (Receives \/ MessageQ(None)!Wait("stop"))
<1>1. inbox = None /\ inbox' = None /\ pcS = "yield"
  BY DEF StopPends, NoWaitBesideMessage
<1>2. CASE queue = <<>>
  <2>1. pcS' = "pend" /\ queue' = queue
    BY <1>2 DEF StopPends
  <2>2. Waiting = {} /\ Waiting' = {"stop"}
    BY <1>1, <2>1 DEF Waiting
  <2>3. MessageQ(None)!Wait("stop")
    BY <1>1, <1>2, <2>1, <2>2 DEF MessageQ!Wait
  <2> QED
    BY <1>1, <1>2, <2>1, <2>3 DEF NoWaitBesideMessage
<1>3. CASE queue # <<>>
  <2>1. PICK m \in Messages : m = Head(queue)
    BY <1>3 DEF TypeOK
  <2>2. queue' = Tail(queue) /\ pcS' = (IF m = "ENTER_STOP" THEN "delay" ELSE "power")
    BY <1>3, <2>1 DEF StopPends, Dispatch
  <2>3. Waiting = {} /\ Waiting' = {}
    BY <1>1, <2>2 DEF Waiting
  <2>4. MessageQ(m)!Take("stop")
    BY <1>1, <1>3, <2>1, <2>2, <2>3 DEF MessageQ!Take
  <2> QED
    BY <1>1, <2>2, <2>4 DEF Receives, NoWaitBesideMessage
<1> QED
  BY <1>2, <1>3

LEMMA ElsewhereIsPromised ==
  ASSUME TypeOK, NoWaitBesideMessage, Elsewhere
  PROVE  NoWaitBesideMessage' /\ QueueLeftAlone
BY DEF Elsewhere, QueueLeftAlone, Waiting, NoWaitBesideMessage

\* Every step posts, receives, or does neither.
LEMMA QueueSteps ==
  ASSUME TypeOK, [Next]_vars
  PROVE  \/ \E m \in Messages : Post(m) /\ UNCHANGED pcS
         \/ StopWoken \/ StopPends \/ Elsewhere
<1> USE DEF clockVars, basicVars, cameraVars, gprsVars, stopVars, queueVars
<1>1. CASE BasicTask
  <2>1. CASE BasicGivesUp
    BY <2>1 DEF BasicGivesUp
  <2>2. CASE BasicSample \/ BasicCapture \/ BasicSeesPicture \/ BasicHandsOver
    BY <2>2 DEF BasicSample, BasicCapture, BasicSeesPicture, BasicHandsOver, Elsewhere
  <2> QED
    BY <1>1, <2>1, <2>2 DEF BasicTask
<1>2. CASE FtpTask
  BY <1>2 DEF FtpTask, FtpStores, FtpPhyOff, Elsewhere
<1>3. CASE GprsTask
  BY <1>3 DEF GprsTask, GprsStart, GprsDone, Elsewhere
<1>4. CASE RecvTask
  BY <1>4 DEF RecvTask, RecvResponse, RecvHoldsBasic, RecvNormal, Elsewhere
<1>5. CASE StopTask
  <2>1. CASE StopParks
    BY <2>1 DEF StopParks, Elsewhere
  <2>2. CASE StopResumes
    BY <2>2 DEF StopResumes, Elsewhere
  <2>3. CASE StopHalts
    BY <2>3 DEF StopHalts, Elsewhere
  <2>4. CASE StopDelayEnds \/ StopHangsUp \/ StopSetsFlag \/ StopSetsAlarm \/ StopCutsPower \/ StopReturns
    BY <2>4 DEF StopDelayEnds, StopHangsUp, StopSetsFlag, StopSetsAlarm, StopCutsPower, StopReturns, StopGoes, Elsewhere
  <2>5. CASE StopPowersUp \/ StopStartsNet \/ StopDialed
    BY <2>5 DEF StopPowersUp, StopStartsNet, StopDialed, StopGoes, Elsewhere
  <2> QED
    BY <1>5, <2>1, <2>2, <2>3, <2>4, <2>5 DEF StopTask
<1>6. CASE AlarmInterrupt
  BY <1>6 DEF AlarmInterrupt, Elsewhere
<1>7. CASE RainPulse \/ Tick \/ UNCHANGED vars
  BY <1>7 DEF RainPulse, Tick, vars, Elsewhere
<1> QED
  BY <1>1, <1>2, <1>3, <1>4, <1>5, <1>6, <1>7 DEF Next

\* Message_Q between the tasks is the queue MessageQueue promises (and the kernel keeps, KernelProofs!
\* QueueKeepsPromise): a post is stored, given or refused; stopmode_task serves what it receives, in
\* order; it never waits beside a message. With suspends at any point, uploads of any length and mode commands.
THEOREM QueueIsUsedAsPromised == Spec => []NoWaitBesideMessage /\ UsesTheQueue
<1>1. Init => NoWaitBesideMessage
  BY DEF Init, NoWaitBesideMessage
<1>2. TypeOK /\ NoWaitBesideMessage /\ [Next]_vars
      => NoWaitBesideMessage' /\ (Posts \/ Receives \/ MessageQ(None)!Wait("stop") \/ QueueLeftAlone)
  BY QueueSteps, PostIsPromised, WokenIsPromised, PendIsPromised, ElsewhereIsPromised
<1>3. Spec => []TypeOK
  BY TypeCorrect
<1> QED
  BY <1>1, <1>2, <1>3, PTL DEF Spec, UsesTheQueue

===============================================================================
