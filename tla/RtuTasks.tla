------------------------------- MODULE RtuTasks -------------------------------
(***************************************************************************)
(* The application tasks of the water-level RTU (THREAD/thread.c) on the   *)
(* uC/OS-II kernel, the stop-mode cycle they drive (HARDWARE/LOW-Power)    *)
(* and the alarm that ends it (HARDWARE/SD3078).                           *)
(*                                                                         *)
(* Every five minutes basic_message_task samples the sensors, powers the   *)
(* camera and lets the FTP task take a picture; gprs_task uploads it and   *)
(* stopmode_task then suspends everybody, cuts the power and sleeps until  *)
(* the RTC alarm.  The tasks talk through a message queue, a semaphore,    *)
(* two global flags and OSTaskSuspend / OSTaskResume.                      *)
(*                                                                         *)
(* Time is the RTC's: minute and, within it, part 0 .. UPM-1.  A delay of  *)
(* n parts lasts n ticks.  The alarm second (:50) lies inside the last     *)
(* part of a minute: due says that this instant is still ahead.            *)
(***************************************************************************)
EXTENDS RtcAlarm, Sequences

CONSTANTS
  UPM,           \* parts of a minute (6: one part is 10 s)
  StopUnits,     \* the 20 s delay of stopmode_task, in parts
  WaitUnits,     \* FTP_SAVE_MAX_WAIT_TIME (120 s), in parts
  CameraBoot,    \* parts the camera needs from power-on to a stored picture (external)
  MaxSend,       \* longest picture upload, in parts
  MaxDial,       \* longest GPRS_4G_Init, in parts
  MaxHangUp,     \* longest gprs_disconnect, in parts
  N_MESSAGE,     \* slots of Message_Q
  AllowCommands, \* whether the master sends mode commands over RS232
  BootAlarms     \* what the alarm's minute register may hold at power-up

ASSUME TimingAssumption ==
  /\ UPM \in Nat \ {0}
  /\ StopUnits \in Nat /\ WaitUnits \in Nat /\ CameraBoot \in Nat
  /\ MaxSend \in Nat /\ MaxDial \in Nat /\ MaxHangUp \in Nat
ASSUME QueueAssumption == N_MESSAGE \in Nat \ {0}
ASSUME CommandAssumption == AllowCommands \in BOOLEAN
ASSUME BootAssumption == BootAlarms \subseteq 0 .. 255

VARIABLES
  minute, part,  \* the RTC
  due,           \* the alarm instant is ahead in this part
  alarm,         \* byte in the alarm's minute register
  cpu,           \* "run", or "stop": halted by WFI in STOP mode
  susp,          \* the tasks with OS_STAT_SUSPEND set
  last, pcB, wait,    \* basic_message_task: last_minutes, place, wait_time
  flag, phy, poe, boot, \* g_save_picture_flag, DM9000 PHY, camera power, camera booting
  pcF,           \* ftp_task: serving the camera, or between the flag and the PHY's power-down
  pcG, sem, sendLeft, \* gprs_task: place, gprs_task_en, time left to the upload
  pcR,                \* receive_command: place
  pcS, step, left,    \* stopmode_task: place, index of a loop, delay
  inbox, queue,       \* OSTCBMsg of stopmode_task, contents of Message_Q
  overflow,           \* an OSQPost returned OS_ERR_Q_FULL and was ignored
  stopFlag,           \* g_stop_mode_flag
  powered             \* peripherals powered: PWCTRL_GPIO_Init / PWR_OFF

clockVars == <<minute, part, due, alarm>>
basicVars == <<last, pcB, wait>>
cameraVars == <<flag, phy, poe, boot, pcF>>
gprsVars == <<pcG, sem, sendLeft>>
stopVars == <<pcS, step, left>>
queueVars == <<inbox, queue, overflow>>
vars == <<clockVars, cpu, susp, basicVars, cameraVars, gprsVars, pcR, stopVars,
          queueVars, stopFlag, powered>>

\* The tasks somebody suspends; gprs_task is never suspended.
Tasks == {"tcpip", "dm9000", "ftp", "basic", "recv", "bt", "stop"}

\* Mutants of ParkOrder: a wrong priority in the fourth or in the sixth call.
ParkOrderRecvForgotten == <<"tcpip", "dm9000", "basic", "bt", "bt", "ftp">>
ParkOrderFtpForgotten == <<"tcpip", "dm9000", "basic", "recv", "bt", "recv">>
ParkOrderParksItself == <<"tcpip", "dm9000", "basic", "recv", "bt", "stop">>

\* The order in which stopmode_task suspends the others; it resumes all but the last.
ParkOrder == <<"tcpip", "dm9000", "basic", "recv", "bt", "ftp">>

Messages == {"ENTER_STOP", "WAKE_UP"}
None == "none"
NoMinute == 255   \* last_minutes before the first sample

TypeOK ==
  /\ minute \in Minutes /\ part \in 0 .. UPM - 1
  /\ due \in BOOLEAN /\ alarm \in 0 .. 255
  /\ cpu \in {"run", "stop"}
  /\ susp \subseteq Tasks
  /\ last \in Minutes \cup {NoMinute}
  /\ pcB \in {"poll", "capture", "wait", "hand"} /\ wait \in 0 .. WaitUnits
  /\ flag \in BOOLEAN /\ phy \in BOOLEAN /\ poe \in BOOLEAN /\ boot \in 0 .. CameraBoot
  /\ pcF \in {"serve", "phyoff"}
  /\ pcG \in {"pend", "send"} /\ sem \in Nat /\ sendLeft \in 0 .. MaxSend
  /\ pcR \in {"idle", "response"}
  /\ pcS \in {"pend", "delay", "park", "hangup", "flag", "alarm", "off", "wfi",
              "asleep", "power", "net", "dial", "resume", "yield"}
  /\ step \in 1 .. 6 /\ left \in Nat
  /\ inbox \in Messages \cup {None} /\ queue \in Seq(Messages)
  /\ overflow \in BOOLEAN /\ stopFlag \in BOOLEAN /\ powered \in BOOLEAN

\* main and start_task: the FTP task starts suspended, the queue and semaphore empty.
Init ==
  /\ minute \in Minutes /\ part = 0
  /\ due = FALSE /\ alarm \in BootAlarms
  /\ cpu = "run"
  /\ susp = {"ftp"}
  /\ last = NoMinute /\ pcB = "poll" /\ wait = 0
  /\ flag = FALSE /\ phy = TRUE /\ poe = FALSE /\ boot = 0 /\ pcF = "serve"
  /\ pcG = "pend" /\ sem = 0 /\ sendLeft = 0
  /\ pcR = "idle"
  /\ pcS = "pend" /\ step = 1 /\ left = 0
  /\ inbox = None /\ queue = <<>> /\ overflow = FALSE
  /\ stopFlag = FALSE /\ powered = TRUE

-------------------------------------------------------------------------------
(* The kernel calls.  All are made by a running task or by an interrupt.   *)

Suspend(t) == susp' = susp \cup {t}
Resume(t) == susp' = susp \ {t}

Runs(t) == cpu = "run" /\ t \notin susp

\* OSQPost: a task waiting in OSQPend gets the message straight into its TCB.
\* A full queue refuses it, and no caller looks at the return value.
Post(m) ==
  IF pcS = "pend" /\ inbox = None
    THEN inbox' = m /\ UNCHANGED <<queue, overflow>>
    ELSE IF Len(queue) < N_MESSAGE
      THEN queue' = Append(queue, m) /\ UNCHANGED <<inbox, overflow>>
      ELSE overflow' = TRUE /\ UNCHANGED <<inbox, queue>>

-------------------------------------------------------------------------------
(* basic_message_task                                                      *)

SlotDue == minute % 5 = 0 /\ minute # last

\* A new five-minute slot: sample, store and report.
BasicSample ==
  /\ Runs("basic") /\ pcB = "poll" /\ SlotDue
  /\ last' = minute
  /\ pcB' = "capture"
  /\ UNCHANGED <<clockVars, cpu, susp, wait, cameraVars, gprsVars, pcR, stopVars,
                 queueVars, stopFlag, powered>>

\* Camera power on, FTP task resumed.
BasicCapture ==
  /\ Runs("basic") /\ pcB = "capture"
  /\ poe' = TRUE /\ boot' = IF poe THEN boot ELSE CameraBoot
  /\ Resume("ftp")
  /\ wait' = WaitUnits
  /\ pcB' = "wait"
  /\ UNCHANGED <<clockVars, cpu, last, flag, phy, pcF, gprsVars, pcR, stopVars,
                 queueVars, stopFlag, powered>>

\* The wait loop finds the picture flag set, clears it and leaves.  With wait = 0 the wait ends
\* within this part: its last looks at the flag may still fall into it.
BasicSeesPicture ==
  /\ Runs("basic") /\ pcB = "wait" /\ flag
  /\ flag' = FALSE
  /\ pcB' = "hand"
  /\ UNCHANGED <<clockVars, cpu, susp, last, wait, phy, poe, boot, pcF, gprsVars, pcR, stopVars,
                 queueVars, stopFlag, powered>>

\* Mutant of BasicHandsOver: ENTER_STOP posted although a picture is to be uploaded.
BasicHandsOverAndStops ==
  /\ Runs("basic") /\ pcB = "hand"
  /\ Suspend("ftp")
  /\ sem' = sem + 1
  /\ Post("ENTER_STOP")
  /\ pcB' = "poll"
  /\ UNCHANGED <<clockVars, cpu, last, wait, cameraVars, pcG, sendLeft, pcR, stopVars,
                 stopFlag, powered>>

\* FTP task suspended, the upload handed to gprs_task.
BasicHandsOver ==
  /\ Runs("basic") /\ pcB = "hand"
  /\ Suspend("ftp")
  /\ sem' = sem + 1
  /\ pcB' = "poll"
  /\ UNCHANGED <<clockVars, cpu, last, wait, cameraVars, pcG, sendLeft, pcR, stopVars,
                 queueVars, stopFlag, powered>>

\* No picture within FTP_SAVE_MAX_WAIT_TIME: straight to stop mode.
BasicGivesUp ==
  /\ Runs("basic") /\ pcB = "wait" /\ wait = 0
  /\ Post("ENTER_STOP")
  /\ pcB' = "poll"
  /\ UNCHANGED <<clockVars, cpu, susp, last, wait, cameraVars, gprsVars, pcR, stopVars,
                 stopFlag, powered>>

BasicTask == BasicSample \/ BasicCapture \/ BasicSeesPicture \/ BasicHandsOver
             \/ BasicGivesUp

\* The second picture of a period is stored: the flag is raised.
FtpStores ==
  /\ Runs("ftp") /\ "tcpip" \notin susp /\ "dm9000" \notin susp
  /\ pcF = "serve"
  /\ poe /\ boot = 0 /\ phy /\ powered
  /\ flag' = TRUE
  /\ pcF' = "phyoff"
  /\ UNCHANGED <<clockVars, cpu, susp, basicVars, phy, poe, boot, gprsVars, pcR, stopVars,
                 queueVars, stopFlag, powered>>

\* DM9000_Set_PhyPower(0) delays while it reads the PHY: other tasks run between the
\* flag and the power-down, and may suspend this one there.
FtpPhyOff ==
  /\ Runs("ftp") /\ pcF = "phyoff"
  /\ phy' = FALSE
  /\ pcF' = "serve"
  /\ UNCHANGED <<clockVars, cpu, susp, basicVars, flag, poe, boot, gprsVars, pcR, stopVars,
                 queueVars, stopFlag, powered>>

FtpTask == FtpStores \/ FtpPhyOff

-------------------------------------------------------------------------------
(* gprs_task                                                               *)

\* Mutant of GprsStart: the semaphore is tested but not taken.
GprsStartKeepsSemaphore ==
  /\ cpu = "run" /\ pcG = "pend" /\ sem > 0
  /\ Suspend("recv")
  /\ pcG' = "send" /\ sendLeft' = MaxSend
  /\ UNCHANGED <<clockVars, cpu, basicVars, cameraVars, sem, pcR, stopVars,
                 queueVars, stopFlag, powered>>

\* The semaphore is taken and receive_command suspended for the upload.
GprsStart ==
  /\ cpu = "run" /\ pcG = "pend" /\ sem > 0
  /\ sem' = sem - 1
  /\ Suspend("recv")
  /\ pcG' = "send" /\ sendLeft' = MaxSend
  /\ UNCHANGED <<clockVars, cpu, basicVars, cameraVars, pcR, stopVars,
                 queueVars, stopFlag, powered>>

\* SendPictureToServer has returned, with or without success.
GprsDone ==
  /\ cpu = "run" /\ pcG = "send"
  /\ Resume("recv")
  /\ Post("ENTER_STOP")
  /\ pcG' = "pend" /\ sendLeft' = 0
  /\ UNCHANGED <<clockVars, cpu, basicVars, cameraVars, sem, pcR, stopVars,
                 stopFlag, powered>>

GprsTask == GprsStart \/ GprsDone

-------------------------------------------------------------------------------
(* receive_command: the mode commands                                      *)

RecvResponse ==
  /\ AllowCommands
  /\ Runs("recv") /\ pcR = "idle"
  /\ Suspend("stop")
  /\ pcR' = "response"
  /\ UNCHANGED <<clockVars, cpu, basicVars, cameraVars, gprsVars, stopVars,
                 queueVars, stopFlag, powered>>

RecvHoldsBasic ==
  /\ Runs("recv") /\ pcR = "response"
  /\ Suspend("basic")
  /\ pcR' = "idle"
  /\ UNCHANGED <<clockVars, cpu, basicVars, cameraVars, gprsVars, stopVars,
                 queueVars, stopFlag, powered>>

RecvNormal ==
  /\ AllowCommands
  /\ Runs("recv") /\ pcR = "idle"
  /\ Resume("stop")
  /\ UNCHANGED <<clockVars, cpu, basicVars, cameraVars, gprsVars, pcR, stopVars,
                 queueVars, stopFlag, powered>>

RecvTask == RecvResponse \/ RecvHoldsBasic \/ RecvNormal

-------------------------------------------------------------------------------
(* stopmode_task: OSQPend and the dispatch on the message                  *)

\* What stopmode_task does with message m once OSQPend has returned it.
Dispatch(m) ==
  /\ step' = 1
  /\ IF m = "ENTER_STOP"
       THEN pcS' = "delay" /\ left' = StopUnits
       ELSE pcS' = "power" /\ left' = 0

\* OSQPend returns the message an OSQPost put into the TCB.
StopWoken ==
  /\ Runs("stop") /\ pcS = "pend" /\ inbox # None
  /\ Dispatch(inbox)
  /\ inbox' = None
  /\ UNCHANGED <<clockVars, cpu, susp, basicVars, cameraVars, gprsVars, pcR,
                 queue, overflow, stopFlag, powered>>

\* The 500 ms at the loop's end are over: OSQPend takes the oldest message or waits.
StopPends ==
  /\ Runs("stop") /\ pcS = "yield"
  /\ IF queue = <<>>
       THEN pcS' = "pend" /\ step' = 1 /\ left' = 0 /\ UNCHANGED queue
       ELSE Dispatch(Head(queue)) /\ queue' = Tail(queue)
  /\ UNCHANGED <<clockVars, cpu, susp, basicVars, cameraVars, gprsVars, pcR,
                 inbox, overflow, stopFlag, powered>>

\* A step of stopmode_task that only moves its place.
StopGoes(from, to, time) ==
  /\ Runs("stop") /\ pcS = from
  /\ pcS' = to /\ step' = 1 /\ left' = time
  /\ UNCHANGED <<cpu, basicVars, gprsVars, pcR, queueVars>>

-------------------------------------------------------------------------------
(* stopmode_task: ENTER_STOP_MODE                                          *)

StopDelayEnds ==
  /\ left = 0
  /\ StopGoes("delay", "park", 0)
  /\ UNCHANGED <<clockVars, susp, cameraVars, stopFlag, powered>>

\* One OSTaskSuspend of the six.
StopParks ==
  /\ Runs("stop") /\ pcS = "park"
  /\ Suspend(ParkOrder[step])
  /\ IF step < 6
       THEN step' = step + 1 /\ UNCHANGED <<pcS, left>>
       ELSE pcS' = "hangup" /\ step' = 1 /\ left' = MaxHangUp
  /\ UNCHANGED <<clockVars, cpu, basicVars, cameraVars, gprsVars, pcR,
                 queueVars, stopFlag, powered>>

StopHangsUp ==
  /\ StopGoes("hangup", "flag", 0)
  /\ UNCHANGED <<clockVars, susp, cameraVars, stopFlag, powered>>

\* Mutant of StopSetsFlag: g_stop_mode_flag is not set.
StopSkipsFlag ==
  /\ StopGoes("flag", "alarm", 0)
  /\ UNCHANGED <<clockVars, susp, cameraVars, stopFlag, powered>>

StopSetsFlag ==
  /\ StopGoes("flag", "alarm", 0)
  /\ stopFlag' = TRUE
  /\ UNCHANGED <<clockVars, susp, cameraVars, powered>>

\* SetNextFiveMinuteAlarm.  The register now holds another minute than this one,
\* so an instant still ahead in this part no longer counts.
StopSetsAlarm ==
  /\ StopGoes("alarm", "off", 0)
  /\ alarm' = NextAlarm(minute)
  /\ due' = FALSE
  /\ UNCHANGED <<minute, part, susp, cameraVars, stopFlag, powered>>

\* Peripheral_Disable: the DM9000 interrupt off, then PWR_OFF.
StopCutsPower ==
  /\ StopGoes("off", "wfi", 0)
  /\ powered' = FALSE /\ poe' = FALSE
  /\ UNCHANGED <<clockVars, susp, flag, phy, pcF, boot, stopFlag>>

StopHalts ==
  /\ Runs("stop") /\ pcS = "wfi"
  /\ cpu' = "stop" /\ pcS' = "asleep"
  /\ UNCHANGED <<clockVars, susp, basicVars, cameraVars, gprsVars, pcR, step, left,
                 queueVars, stopFlag, powered>>

\* An interrupt ended the WFI; enter_stop_mode returns.
StopReturns ==
  /\ StopGoes("asleep", "yield", 0)
  /\ UNCHANGED <<clockVars, susp, cameraVars, stopFlag, powered>>

-------------------------------------------------------------------------------
(* stopmode_task: WAKE_UP_MODE                                             *)

\* PWCTRL_GPIO_Init: every supply on but the camera's.
StopPowersUp ==
  /\ StopGoes("power", "net", 0)
  /\ powered' = TRUE /\ poe' = FALSE
  /\ UNCHANGED <<clockVars, susp, flag, phy, pcF, boot, stopFlag>>

\* DM9000_Init switches the PHY on again.
StopStartsNet ==
  /\ StopGoes("net", "dial", MaxDial)
  /\ phy' = TRUE
  /\ UNCHANGED <<clockVars, susp, flag, poe, boot, pcF, stopFlag, powered>>

\* GPRS_4G_Init returns, connected or not.
StopDialed ==
  /\ StopGoes("dial", "resume", 0)
  /\ UNCHANGED <<clockVars, susp, cameraVars, stopFlag, powered>>

\* One OSTaskResume of the five.
StopResumes ==
  /\ Runs("stop") /\ pcS = "resume"
  /\ Resume(ParkOrder[step])
  /\ IF step < 5
       THEN step' = step + 1 /\ UNCHANGED <<pcS, left>>
       ELSE pcS' = "yield" /\ step' = 1 /\ left' = 0
  /\ UNCHANGED <<clockVars, cpu, basicVars, cameraVars, gprsVars, pcR,
                 queueVars, stopFlag, powered>>

StopTask ==
  \/ StopWoken \/ StopPends
  \/ StopDelayEnds \/ StopParks \/ StopHangsUp \/ StopSetsFlag \/ StopSetsAlarm
  \/ StopCutsPower \/ StopHalts \/ StopReturns
  \/ StopPowersUp \/ StopStartsNet \/ StopDialed \/ StopResumes

-------------------------------------------------------------------------------
(* Interrupts and time                                                     *)

\* Mutants of AlarmInterrupt: the flag cleared without a post; a post at every alarm.
AlarmInterruptSilent ==
  /\ due
  /\ due' = FALSE
  /\ cpu' = "run"
  /\ stopFlag' = FALSE
  /\ UNCHANGED <<minute, part, alarm, susp, basicVars, cameraVars, gprsVars, pcR,
                 stopVars, queueVars, powered>>
AlarmInterruptUnguarded ==
  /\ due
  /\ due' = FALSE
  /\ cpu' = "run"
  /\ stopFlag' = FALSE /\ Post("WAKE_UP")
  /\ UNCHANGED <<minute, part, alarm, susp, basicVars, cameraVars, gprsVars, pcR,
                 stopVars, powered>>

\* EXTI0_IRQHandler on the alarm: it ends a WFI, and posts WAKE_UP once per stop.
AlarmInterrupt ==
  /\ due
  /\ due' = FALSE
  /\ cpu' = "run"
  /\ IF stopFlag
       THEN stopFlag' = FALSE /\ Post("WAKE_UP")
       ELSE UNCHANGED <<stopFlag, queueVars>>
  /\ UNCHANGED <<minute, part, alarm, susp, basicVars, cameraVars, gprsVars, pcR,
                 stopVars, powered>>

\* EXTI1_IRQHandler: a rain pulse ends a WFI and posts nothing.
RainPulse ==
  /\ cpu = "stop"
  /\ cpu' = "run"
  /\ UNCHANGED <<clockVars, susp, basicVars, cameraVars, gprsVars, pcR, stopVars,
                 queueVars, stopFlag, powered>>

\* A task has something to do that takes no part of a minute.
BasicReady ==
  /\ "basic" \notin susp
  /\ \/ pcB = "poll" /\ SlotDue
     \/ pcB \in {"capture", "hand"}
     \/ pcB = "wait" /\ (flag \/ wait = 0)
GprsReady == (pcG = "pend" /\ sem > 0) \/ (pcG = "send" /\ sendLeft = 0)
RecvReady == "recv" \notin susp /\ pcR = "response"
FtpReady == "ftp" \notin susp /\ pcF = "phyoff"
StopReady ==
  /\ "stop" \notin susp
  /\ \/ pcS = "pend" /\ inbox # None
     \/ pcS \in {"delay", "hangup", "dial"} /\ left = 0
     \/ pcS \notin {"pend", "delay", "hangup", "dial"}

CountDown(n) == IF n = 0 THEN 0 ELSE n - 1

\* Delays count while the system tick runs, that is, while the CPU is not halted.
\* wait_time is a loop counter of a task: it stands still while the task is suspended.
Timers ==
  IF cpu = "run"
    THEN /\ wait' = IF pcB = "wait" /\ "basic" \notin susp THEN CountDown(wait) ELSE wait
         /\ sendLeft' = CountDown(sendLeft)
         /\ left' = CountDown(left)
    ELSE UNCHANGED <<wait, sendLeft, left>>

\* The next part of a minute begins, once every task has done what it had to do.
Tick ==
  /\ ~due
  /\ cpu = "stop" \/ ~(BasicReady \/ FtpReady \/ GprsReady \/ RecvReady \/ StopReady)
  /\ part' = (part + 1) % UPM
  /\ minute' = IF part' = 0 THEN (minute + 1) % 60 ELSE minute
  /\ due' = (part' = UPM - 1 /\ alarm = ToBCD(minute'))
  /\ boot' = CountDown(boot)
  /\ Timers
  /\ UNCHANGED <<alarm, cpu, susp, last, pcB, flag, phy, poe, pcF, pcG, sem, pcR, pcS, step,
                 queueVars, stopFlag, powered>>

Next == BasicTask \/ FtpTask \/ GprsTask \/ RecvTask \/ StopTask
        \/ AlarmInterrupt \/ RainPulse \/ Tick

\* Every task the kernel runs gets the CPU, pending interrupts are taken, time passes.
\* Nothing makes the camera deliver, the master send a command, or rain fall.
Fairness ==
  /\ WF_vars(BasicTask) /\ WF_vars(GprsTask) /\ WF_vars(StopTask)
  /\ WF_vars(RecvHoldsBasic) /\ WF_vars(FtpPhyOff) /\ WF_vars(AlarmInterrupt) /\ WF_vars(Tick)

Spec == Init /\ [][Next]_vars
FairSpec == Spec /\ Fairness
-------------------------------------------------------------------------------
(* Properties.  Which of them hold depends on how long an upload may take  *)
(* and on whether the master sends mode commands: see the runs.            *)

\* The suspendable tasks that use a chip PWR_OFF cuts: the DM9000, the supplies of the
\* sensors and the camera, the ST16C554 with the W25Q flash, the Bluetooth module.  The modem's
\* user, gprs_task, is never suspended: it must be in its OSSemPend instead.
PoweredTasks == {"tcpip", "dm9000", "ftp", "basic", "recv", "bt"}

\* Those that nobody but stopmode_task resumes once it has suspended them all.
HeldTasks == PoweredTasks \ {"recv"}

\* Nobody drives an unpowered peripheral: from PWR_OFF until PWCTRL_GPIO_Init every task
\* that does is suspended and gprs_task is not uploading (thread.c, stopmode_task).  It holds
\* for uploads that end in time: one of two minutes may end while the station sleeps, and
\* thread.c:184 then resumes receive_command with its chips unpowered.
UnpoweredParked == ~powered => PoweredTasks \subseteq susp /\ pcG = "pend"

\* Whatever the timing and the commands, uploads of any length included, and however they interleave with the six
\* OSTaskSuspend calls: the five that only a wake-up resumes stay suspended while the power
\* is off.  What may run then, receive_command and gprs_task, is UnpoweredParked's matter.
HeldWhileUnpowered == ~powered => HeldTasks \subseteq susp

WakeUpPosted == inbox = "WAKE_UP" \/ \E i \in DOMAIN queue : queue[i] = "WAKE_UP"

\* The alarm register holds the last minute of this slot, and its instant there has not gone by.
AlarmComes ==
  /\ alarm = ToBCD((minute - (minute % 5)) + 4)
  /\ minute % 5 = 4 /\ part = UPM - 1 => due

\* A station whose power is off wakes up in this slot: g_stop_mode_flag is up and the alarm
\* that turns it into a WAKE_UP is still to come, or the flag is down and the WAKE_UP is on
\* its way or being served (EXTI0_IRQHandler, enter_stop_mode, SetNextFiveMinuteAlarm).
WakeUpPending ==
  ~powered => \/ stopFlag /\ AlarmComes
              \/ ~stopFlag /\ WakeUpPosted
              \/ pcS = "power"

\* Whatever the timing and the commands, g_stop_mode_flag does not come down under an
\* unpowered station without a WAKE_UP in its place: posted, being served, or refused by a full
\* queue.  Whether an alarm comes that takes the flag down is not said here: WakeUpPending.
WakeUpNotDropped == ~powered => stopFlag \/ WakeUpPosted \/ pcS = "power" \/ overflow

\* Message_Q never refuses a message: the OSQPost results nobody looks at are all good.
NeverRefused == ~overflow

\* The CPU never halts on an alarm register that no minute matches
\* (SetNextFiveMinuteAlarm): such a station would sleep for ever.
AlarmWillFire == cpu = "stop" => Fires(alarm)

\* receive_command does not run while a picture is uploaded (gprs_task suspends it so
\* that the server's answers are not taken for commands). The code does not keep it: after a
\* late picture an upload may begin before the resume at thread.c:335. README, section 3.
NoCommandsWhileSending == pcG = "send" => "recv" \in susp

\* The power is never cut under an upload that is running or asked for.
UploadOverAtPowerOff == ~powered => pcG = "pend" /\ sem = 0

\* A WAKE_UP is only served by a sleeping station: stopmode_task never switches the supplies,
\* or restarts the Ethernet chip and the modem, under a task that is using them.
WakesOnlyParked ==
  pcS \in {"power", "net", "dial"} => PoweredTasks \subseteq susp /\ pcG = "pend"

\* A new capture starts with g_save_picture_flag clear, so that the wait loop judges the
\* picture of this period and not one of an earlier period. The code does not keep it: a
\* picture stored after the 120 s wait leaves the flag set. README, section 3.
FlagIsFresh == pcB = "capture" => ~flag

\* No five-minute slot goes by without a sample: a minute that is a multiple of five
\* ends only when basic_message_task has recorded it in last_minutes.
EverySlotSampled ==
  [][minute' # minute /\ minute % 5 = 0 => last = minute]_vars

\* Each request to enter stop mode is followed by a halted CPU.
StopRequestServed ==
  (inbox = "ENTER_STOP" \/ \E i \in DOMAIN queue : queue[i] = "ENTER_STOP")
    ~> cpu = "stop"

\* The station goes on sampling for ever.
SamplesForEver == []<>(pcB = "capture")
===============================================================================
