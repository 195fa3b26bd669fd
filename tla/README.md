# A verification of the water-level RTU firmware in TLA+

The repository is the firmware of a remote terminal unit (RTU) of a water-level and
rainfall network: an STM32F103 with uC/OS-II, an SD3078 real-time clock, a SIM7600 4G
modem, an FTP server for a camera on a DM9000 Ethernet chip, an SD card, serial flash,
RS232/RS485 sensors and Bluetooth. Every five minutes it samples, stores, reports, uploads
a picture and goes back to STOP mode until the clock's alarm.

## 1. Inventory

Own code (vendored lwIP, FatFs, STM32 libraries, CMSIS, USB library left aside):

| Part | State it keeps | Operations | Talks to | What makes it correct |
|---|---|---|---|---|
| Application tasks, `THREAD/thread.c` | `last_minutes`, `wait_time`, `g_save_picture_flag`, `g_stop_mode_flag`, message of the queue | one loop per task, two interrupt handlers | `Message_Q`, `gprs_task_en`, `OSTaskSuspend/Resume`, globals | no slot is missed, every stop request sleeps, every sleep wakes, nothing runs unpowered |
| Stop mode, `HARDWARE/LOW-Power`, `HARDWARE/PWCTROL` | supplies, EXTI masks | `enter_stop_mode`, `PWR_OFF`, `PWCTRL_GPIO_Init` | stop task, alarm | power off only when nobody uses it |
| RTC, `HARDWARE/SD3078` | date, alarm registers | read, set, `SetNextFiveMinuteAlarm` | I2C, stop task | the alarm set is one that fires, and in time |
| 4G modem, `4G/4g.c`, `4G/DMAUSART2` | three stage flags, error count, receive buffer and flag, packet counters | dial, disconnect, send a picture | USART2 DMA interrupt, modem, SD card | flags agree with what was achieved, a dial returns, answers belong to their commands, packets complete and in order |
| Kernel, `UCOSII/CORE` | ready list, wait lists, queue ring, semaphore, delays | post, pend, suspend, resume, delay, tick | every task and interrupt | the lists agree with the control blocks; a message goes to one task, once, in order; no wait outlasts its timeout |
| FTP server, `FTP/ftpd.c` | one session: state, data connection, open file | USER, PASV, STOR, ... | lwIP, FatFs, PHY switch, picture flag | a picture counts only when stored |
| Telemetry, `PROTOCOL/protocol.c` | message images, station parameters | report, query by period, set parameters | flash records, RS232, modem | every record asked for is sent once; times are right |
| Flash records, `MEMORY/memory_my.c` | regions of the flash, month table | address of a time, save, read | W25QXX, RTC | distinct times have distinct addresses inside their region |
| Bluetooth, `BLUETOOTH/bluetooth.c` | station parameters | modify, query | flash | no lost update |
| Ethernet, `HARDWARE/DM9000`, `ethernetif.c`, `lwip_comm.c` | chip lock, receive semaphore, masks, PHY power | init, send, receive, interrupt, PHY power | interrupt, lwIP's two tasks, stop task, FTP task | no frame left unannounced, sends end, lock released, chip not restarted under use |
| lwIP port, `LWIP/arch/sys_arch.c`, `timers.c` | list of timeouts | set a timeout, fetch a message with a timeout | tcpip_thread, kernel queue | each timer fires, and the others keep their time |
| Serial flash, `HARDWARE/W25QXX` | one sector buffer | write any block: check, erase, program pages | the save functions | the neighbours of a block survive its write |
| `MALLOC/malloc.c`, `HARDWARE/SDIO`, `FATFS/src/diskio.c`, serial ports, sensors | block table; registers | first-fit allocation, block I/O | each other | see the hazards in `PROJECT.json` |

How they interact: `basic_message_task` starts a period, resumes the FTP task and waits for
`g_save_picture_flag`; it hands a picture to `gprs_task` through the semaphore, or posts
`ENTER_STOP_MODE`; `gprs_task` suspends `receive_command`, uploads, resumes it and posts
`ENTER_STOP_MODE`; `stopmode_task` waits 20 s, suspends six tasks, hangs up, arms the alarm,
cuts the power and halts; the alarm interrupt posts `WAKE_UP_MODE`; `stopmode_task` powers
up, restarts the network chip, dials, and resumes five tasks. Mode commands of the master
suspend and resume the stop and basic tasks in between.

The hard behaviours: tasks suspend and resume each other with no nesting and at any point of
the other's work; flags outlive the period they belong to; timeouts (120 s, 20 s, 5 ms polls)
race with late answers; results of posts are not looked at; the alarm arithmetic mixes BCD
and binary; the modem answers late or not at all. `PROJECT.json` lists each one at its line.

## 2. Modules

| Module | Contents |
|---|---|
| `RtcAlarm` | the arithmetic of `SetNextFiveMinuteAlarm` |
| `RtuTasks` | the tasks, the kernel calls they make, the stop-mode cycle, the clock and the alarm; EXTENDS `RtcAlarm` |
| `GprsDial` | `GPRS_4G_Init`: stages, commands, answers, error processing |
| `PictureUpload` | `SendPictureToServer`: reading, numbering, sending and resending packets |
| `FlashRecords` | the address of a sample in the serial flash (`GetAddress`), as operators |
| `QueryPackets` | the answer to a time-period query, with samples stored meanwhile; EXTENDS `FlashRecords` |
| `MCQueryPackets` | the queries TLC asks |
| `MessageQueue` | what a bounded queue promises: post or refuse, deliver in order, hand over |
| `Kernel` | queue, semaphore, suspension, delay and tick over ready list, wait lists and control blocks; implements `MessageQueue` |
| `TimerSet` | what a set of independent timers promises |
| `LwipTimers`, `MCLwipTimers` | lwIP's list of differences and the fetch that measures time for it; implements `TimerSet` |
| `StationFlash`, `MCStationFlash` | `W25QXX_Write` with sector rewrite, page programming and power cuts |
| `EthDriver` | the DM9000 driver between lwIP's tasks, its interrupt, the PHY switch and the stop cycle |
| `RtuTasksProofs` (with `RtcAlarm`), `GprsDialProofs`, `PictureUploadProofs`, `QueryPacketsProofs` (with `FlashRecords`), `KernelProofs`, `LwipTimersProofs`, `StationFlashProofs`, `EthDriverProofs` | theorems |

How they fit: `RtuTasks` uses the queue, suspension and delays that `Kernel` models; `Kernel` shows
that the queue is the sequence `RtuTasks` takes it for, `QueueIsUsedAsPromised` that the tasks use it so. `LwipTimers` runs in tcpip_thread, one of
the two tasks of `EthDriver`; the stop cycle around both is that of `RtuTasks`, of which
`EthDriver` has the two suspends, the two resumes and the restart of the chip. `FlashRecords` says
where a record lies, `StationFlash` how it gets there.

### RtuTasks: correspondence

`pcB`, `pcG`, `pcR`, `pcS` are the places where the four tasks can be preempted between
effects on shared state; an action is the code between two such places. One call of
`OSTaskSuspend` or `OSTaskResume` in `stopmode_task` is one step (`StopParks`,
`StopResumes`), because an interrupt or a task of higher priority can come between them.
`susp` is the set of tasks whose `OS_STAT_SUSPEND` bit is set: a bit, so suspends do not nest
(`os_task.c`). `Post` follows `OSQPost`: a message goes into the TCB of a task that pends
(`inbox`), into the ring (`queue`) when there is room, and is refused otherwise (`overflow`
records that). `flag` is `g_save_picture_flag`, `stopFlag` is `g_stop_mode_flag`, `phy` the
PHY switched off by the FTP server after a picture and on by `DM9000_Init`, `poe` and `boot`
the camera's supply and how long the camera (external) takes to deliver, `powered` the
supplies of `PWR_OFF` and `PWCTRL_GPIO_Init`.

Time is the clock's: `minute` and `part`, `UPM` parts to a minute (six of 10 s, or two of 30 s). A delay of n parts is n ticks of
`Tick`, and `Tick` waits until no task has immediate work, since the work itself takes
milliseconds. The alarm fires at second 50 of its minute: `due` marks that the instant is
ahead in the last part, so that an interrupt falls between any two steps of the tasks.
While the CPU is halted the clock runs and the delays do not: the system tick is stopped.
`wait_time` is a loop counter of a task and stands still while the task is suspended.

Choices of the model. Actions interleave freely: a task of lower priority may step before one
of higher priority, which only adds behaviours. The 120 s wait, the 20 s delay, the dial, the upload and the
hang-up take up to the given parts. The 20 s delay ends exactly at its end
(`StopDelayEnds` waits for `left = 0`). The wait loop may see the picture up to and including the moment its
counter runs out (`BasicSeesPicture` and `BasicGivesUp` are both possible at `wait = 0`), so that its last
looks are not rounded down to the part before. The hang-up, the dial and the upload (`StopHangsUp`,
`StopDialed`, `GprsDone`) may end at any moment up to their bound. `OS_ENTER_CRITICAL` around the upload is not modelled: the SD card driver works in
polling mode and ends each sector read with an unconditional `cpsie i`, so that the critical
section is over with the first sector. `g_respose_flag` is never set, `FTP_TIME_INTERVAL_MINUTES`
is 5, so the branch of `basic_message_task` without a picture is never taken.

### GprsDial: correspondence

`Script` lists the twelve AT commands of the three stages with the answer awaited, the number
of polls (500 and 200 polls become `LongWait` and `ShortWait`) and the tries. `SendCmd`,
`PollMatches`, `PollWaits` and `PollTimesOut` are one try, one poll and the end of
`gprs_send_cmd`; `Attempt` is the body of `GPRS_4G_Init`'s loop up to the first command,
`SetFlags` what the last command of a stage sets, `ErrProcess` is `err_process` with the reset.
The modem is external: it owes `OK` and the result text to each command and pays in order, at
any later time, with an error text, or never. The receive interrupt writes a burst at the
start of the buffer; a burst shorter than the previous one leaves the tail of that readable
to `strstr`, so the buffer either holds the burst alone or the burst and what was there.

### PictureUpload: correspondence

`pc` follows the control through `SendPictureToServer` (`Open`, `Read`, `ReadsEnd`),
`gprs_send_string_len` (`Ask` to `SendAgain`) and `CheckReceive` (`Check`). `left` is
`pic_size`, which counts down, `pos` the position of `f_read` in the file; they are two
variables because the end mark is decided by the one and the content by the other. A packet is
its number, its end mark and the bytes of the file it holds; addresses, times, CRC and lengths
are left out. `f_open` and `f_read` may fail at any call.

Two things the code does are easy to overlook. A missing prompt does not stop a packet:
it is sent all the same (`PromptMissing`), and goes lost unless the modem had accepted the
command and only the prompt was late. And only the packet whose number is 2 modulo 256 is
sent again, when no `OK` is in the receive buffer 10 ms after it was sent (`AskAgain`): a modem
that answers later gets it twice. `send_atcipsend_erro_count` lives across uploads
and is compared with `==`, so all values above the limit are alike and are one value here.

The modem is external: `AT+CIPSEND` makes it await data or not, whether or not
its prompt arrives; in command mode a packet is noise to it. `CheckReceive` writes a NUL after
the latest burst, which may hide older texts from `strstr`. Between two uploads the
station sleeps with the modem off, so `Open` finds it in command mode. Packet
numbers are not cut to 12 bits: that takes a picture of 3.6 MB. `g_single_retransmit_count` is
only logged.

### FlashRecords and QueryPackets: correspondence

`FlashRecords` has the arithmetic of `GetAddress`: `DaysBefore` is the sum its loop makes,
`Groups` the number of five-minute intervals, `Base` the four regions. `s_monthday[1]`, the
days of February, is a static that every caller rewrites for its year, so the operators
take it as the argument `feb`, and `QueryPackets` has it as a variable.

In `QueryPackets`, `pc` follows `test_SendTimePeriodData`: `GetMonthDays` sets February
(`SetFebruary`) and copies the table (`CountHours` counts from the copy), `GetAddress` sets it again
(`SetFebruaryAgain`) and sums (`FindAddress`), then packets go out one by one. `Save` is
`basic_message_task` storing a sample: it has the higher priority, so it may come between any two of these
steps, and never inside the other way round. A packet is its number, the count, the
addresses read and the length its header announces; the bytes themselves, the CRC and the end mark (always
ETB) are left out. `hour_groups` is unsigned: where its sum is negative, and where the
loop over the months cannot end in its unsigned char, `CountGoesWrong` takes the task to a
place it does not leave.

### Kernel: correspondence

A service call is atomic up to the point where it calls `OS_Sched` and blocks; the
rest of `OSQPend` and `OSSemPend` is a second step (`QPendReturn`, `SemPendReturn`) that the task
takes when it is the ready task of the highest priority. `tcb` has the fields the services touch:
`pend` and `susp` are `OSTCBStat`, `statPend` is `OSTCBStatPend`, `dly` is `OSTCBDly`, `msg` is
`OSTCBMsg`. `ready`, `qWait` and `semWait` are sets where the code has bit tables. A message
passes through the control block of a waiting task or through the ring, as in `OSQPost`. Two
details decide the properties: the tick that ends a wait leaves the task in the wait list until it runs, so a
post in between still reaches it; and a task that returns from `OSQPend` clears its whole
status. The tasks make their calls in any order. A post to the queue or the semaphore has no caller in the model: it
comes from any task or from an interrupt, as WAKE_UP does from `EXTI0_IRQHandler` (`thread.c:390`), also while no
task is ready or one that timed out has not yet returned.

`Promise` in `Kernel` maps the ring read from `OSQOut` on to the sequence of `MessageQueue`, the wait
list to its waiting tasks, and `OSTCBMsg` to what has been handed over.

### LwipTimers: correspondence

`timeouts` is the list, an entry holding the difference to the one before it. `FetchMessage` is
`sys_timeouts_mbox_fetch` when a message comes before the first timeout is over, with
`TimeNeeded` the arithmetic of `sys_arch_mbox_fetch` on the 32-bit clock (`WordMax`); `Expire` is
the other outcome; `HandleMessage` is what a message may do: connections come and go and
`tcp_timer_needed` is called. `lived`, a ghost, measures true time since the timer was armed.
`LeftOf` maps the list to `TimerSet`: the sum of the differences up to a timer is its time.
`TimersAssumption` has the build's three timers: with TCP's, two that run for ever.

### StationFlash: correspondence

`pc` follows `W25QXX_Write`: the target looked at (`NeedsErase`, `StillErased`), erased,
programmed a page at a time, next sector. A buffer to write has a cell for each place of its block and no
two alike; `pBuffer` is how far the pointer has been moved on in it (`NextSector`), `Given` what the target
gets from there. `image` is `W25QXX_BUFFER` or the caller's data,
`addr` and `rest` the locals of `W25QXX_Write_NoCheck`; it is indexed by cell, which stands for the steps that
function's `pBuffer` and `WriteAddr` take together. Programming clears bits: a cell that is not FF keeps
its value or is spoilt. `PowerCut` comes at any step; a page or an erase under way
may have reached any of its cells. `kept` remembers what each block should read back. One write runs at
a time (see the hazard at `w25qxx.c:169`), and no block is longer than a sector, as in
`memory_my.c` and `protocol.c`.

### EthDriver: correspondence

`pcT`, `pcI` and `pcS` are the places of tcpip_thread in `DM9000_SendPacket`, of the input task in
`ethernetif_input` and `DM9000_Receive_Packet`, and of the stop task. A step is taken only by the task of the
highest priority that can run (`TcpipRuns`, `InputRuns`, `LowerRuns`), and only when no interrupt is
latched. The mutex is handed on by `OSMutexPost` to the task that waits. The 10 ms delay in
`DM9000_PHY_ReadReg`, reached from the wait loop of a send, is where lower tasks and so the stop task come in
(`phywait`). The chip is external: flags `prs` and `pts` of its status register, mask `imr`, receiver `rcr`,
the latch `irq` of the falling edge. The ghosts `shed` and `cut` mark a frame given up for
want of a pbuf and a reset under a send.

## 3. Runs

| Run | Shows |
|---|---|
| `task_cycle` | uploads up to 30 s, dials up to 60 s, no commands, any start minute, rain at any moment of a sleep: every slot is sampled, every stop request halts the CPU, the station samples for ever; it never halts on an alarm that cannot fire, never cuts the power under an upload, and while the power is off and during the restart of supplies, Ethernet chip and modem all their users, `receive_command` and `gprs_task` among them, are suspended or idle; without power the wake-up is always in this slot and still ahead |
| `mode_commands` | mode commands at any moment of the hour, uploads up to a minute: one slot in `Message_Q` beside the control block of the stop task is enough for every message, and the slot is used; nobody drives an unpowered peripheral (`UnpoweredParked`); `g_stop_mode_flag` never comes down without a WAKE_UP in its place (`WakeUpNotDropped`) |
| `gprs_dial` | whatever the modem does a dial returns, its result agrees with the flags, no later flag survives a failure, a failed dial has reset the modem |
| `picture_upload` | whatever modem and server answer: packets arrive in order, the end mark is on the last, success means every byte was sent and the modem takes commands again, the number of packets announced is the number sent (but for sizes that are a multiple of 900), every upload returns |
| `query_packets` | an answer of up to 35 hours holds the records of its period, each once and in order, also over the ends of days, months and February, unless a sample of a year with another February comes in between; packets are numbered as announced, lengths agree (but for the full packets of water levels), a query within a year whose end is not before its beginning is answered (but perhaps not one from February 29) |
| `long_query` (violation) | from the third full packet on an answer skips records |
| `long_upload` (violation) | with an upload of 60 s stop mode can be entered in minute 9, 19, 29, 39 or 49, where the alarm byte becomes 0x0E, 0x1E, ...: the station sleeps for ever |
| `kernel` | three tasks, every service, posts to queue and semaphore from interrupts too: ready list and wait lists agree with the control blocks, no one waits beside what it waits for, every call in progress is waiting, timed out or served, a wait with a timeout ends, and the queue implements `MessageQueue` |
| `lwip_timers` | messages at any tick, connections that come and go, a clock that wraps: the list implements `TimerSet`, the TCP timer runs exactly when it should, every timer fires again |
| `station_flash` | blocks in, beside and across sectors, power cuts at any step: a block reads back cell for cell what was written to it, the other blocks keep their contents, only erased cells are programmed |
| `eth_driver` | frames, faults, sends, PHY switch and stop cycles: no frame is left unannounced, every send ends (but see `cut` and `Wedged`) |
| `eth_send_cut` (violation) | a send suspended in its delay waits for ever after the wake-up has reset the chip |

Requirements the code does not meet, stated in the modules and not among the runs (added to the
run's configuration each is violated): `FlagIsFresh` of `RtuTasks` (a picture stored
after the 120 s wait leaves its flag to the next period), `NoCommandsWhileSending` of `RtuTasks`
(`receive_command` is then resumed in the middle of the next upload), `AnswerIsForThisCommand` of
`GprsDial` (a late answer is taken for the answer to this command), `NoTimerEarly` of `LwipTimers`
(a message in the tick of the fetch is charged a whole wrap of the clock, so the next timer
fires at once).

Three of those in the runs depend on the length of an upload. `WakeUpPending` fails with the uploads of `long_upload` and of `mode_commands`,
as `AlarmWillFire` does, which is why `mode_commands` has the weaker `WakeUpNotDropped`. `UnpoweredParked` and `WakesOnlyParked` hold with
uploads of a minute and fail with uploads of two: such an upload may end while the station sleeps, and `gprs_task` then
resumes `receive_command` (`thread.c:184`) with its chips unpowered. What is left of them for uploads of any length is
`HeldWhileUnpowered`, the same without `receive_command` and `gprs_task`, a theorem.

Bounds. In `task_cycle` a part is 10 s, which divides the code's delays (120 s, 20 s, one
minute) and holds the hang-up of about 10 s (`MaxHangUp` = 1). It explores a full hour from every start minute with no horizon.
In its resolution the limits are sharp: with `MaxSend` = 4 `AlarmWillFire` and `WakeUpPending` fail, with `MaxDial` = 7 `EverySlotSampled`
does. How many seconds more the code stands, within a part, the model does not tell; the code checks neither. The real
worst case of a dial is three attempts of some 47 s each, above the limit: a station with a
silent modem misses slots. `long_upload` is `task_cycle` with uploads of up to a minute.

`mode_commands` explores every hour with no horizon either, in parts of 30 s, with the 120 s of the wait, the
20 s delay as one part, uploads and dials of up to a minute. `N_MESSAGE` is 1, the code's is 5: with the message handed
to a waiting stop task that leaves room for two, and the run uses both. It does not reach further: the code's own
notes (`USER/version.txt`) speak of uploads of two minutes and more. Outside the runs, with parts of a minute and uploads of two or three, commands make
the queue refuse a message when it has two slots; whether five can be exceeded is open. The state space is then too large to
exhaust; random walks over some 200 million states with three and with five slots met no refusal. Without
commands, uploads of three minutes bring it to three messages at most.

`BootAlarms` = {4, 255}: an alarm left by an earlier run, or none. In `gprs_dial` polls shrink to
2 and 1: only their order and their end matter, and `MaxOwed` = 2 lets one command's
answers arrive while the next command waits. Three attempts, tries and the error count are the code's. In `picture_upload` the packet
length is 2 and the sizes are 0, 4 (a multiple) and 11: six packets, so that with `LowByte` = 4
the sixth looks like the second, as the 258th does. One poll stands for 400 and
`MaxErrors` = 2 for 5: an upload of six packets reaches and passes the limit, also
with failures counted in the one before. `MaxOwed` = 3 holds the three answers of one packet;
answers to a second one, or beyond the three, are dropped, which the modem may do anyway.
In `query_packets` the clock shows 2025 and the queries are of 2024 (leap) and 2025: spans of 1,
12, 13, 24, 28 and 35 hours (a short packet, a full one, a rest of one hour, no rest), within a day, to
midnight written as hour 0, over the ends of January, February, June and the year, from
February 29, to the next year's same month, and one whose end is before its beginning, which is lost. The count and the addresses are linear in the hours
between such ends. `SameFebruary` names the queries whose answer cannot depend on
the year of `Save`; without it `PeriodCovered` fails.

`kernel`: three priorities give a task above, between and below; two slots and two messages
make the ring wrap and fill; timeouts for ever and of one tick; semaphore up to one. `lwip_timers`: the build's
three timers with intervals 8, 12 and 20 ms for 250 ms, 1 s and 5 s, ticks of 2 ms, a word of 20 bits
that TLC can multiply by 1000, and a clock at 7 and at its last value before the wrap.
`station_flash`: two sectors of four cells, pages of two: a block across a page's end, one across a
sector's end and one beside it, two buffers for each, whose cells all differ. `eth_driver`: two frames in the
receive buffer, semaphore up to two, two faults; a fault counts only frames that cannot be
taken, everything else repeats without bound.

Fairness. Tasks that are ready and not suspended get the CPU (uC/OS-II is preemptive and every
task delays or pends in its loop), pending interrupts are taken, time passes. Nothing
forces the camera to deliver, the master to send, the rain to fall or the modem to answer.
In `Kernel` the tick comes, and a task that has the processor goes on with its call; no task
is made to post. In `LwipTimers` the thread's loop goes on. In `EthDriver` a latched
interrupt is taken, a transmission with power ends, a stop goes on to its wake-up; the two tasks get strong
fairness, because they are suspended again and again but run for at least the 20 s of
`thread.c:293` between two stops, against delays of some milliseconds.

Deadlock is checked in every run but those of `EthDriver`, where a frame of odd length read away
without a pbuf stops everything below it.

## 4. Proofs

Every invariant and action property of the passing runs is a theorem, and so are both refinements; `NeverRefused` and `UnpoweredParked` are
theorems without mode commands only.
A theorem holds for every value of the constants that satisfies the named assumptions
(durations are naturals, the queue has a slot, alarms are bytes, blocks of the flash do not overlap, the build
has three timers, the values of the clock are words, queries name hours).

**RtuTasks, with or without commands, uploads and dials of any length.**

* `TypeCorrect`: TypeOK is inductive as it stands.
* `HeldWhileUnpoweredAlways`: the invariant is strengthened by what `stopmode_task` has
  achieved at each place: while `pcS = "park"` the first `step - 1` tasks of `ParkOrder` that
  are among `HeldTasks` are suspended, from there to the resumes all of them are. It is inductive because
  the actions that resume one of those tasks run in a task that is itself suspended by then
  (`BasicCapture` resumes the FTP task, but the basic task is parked before it), and no
  other action resumes them. `receive_command` is not among them: `gprs_task`, which is never suspended, resumes it.
* `WakeUpNotDroppedAlways`: strengthened by "from `StopSetsFlag` to the halt the flag is set or
  a WAKE_UP was posted": the alarm may come before the WFI, and then the message waits in the queue.
* `AlarmIsAhead`, `AlarmFiresIff`: the alarm arithmetic for all sixty minutes. The first: set in one of the first
  four minutes of a slot, the alarm is the BCD of the slot's last minute, later in the same hour; set in minute 4, 14, 24,
  34, 44, 54 or 59 it is that of the minute five later. The second: the other five, minutes 9, 19, 29, 39 and 49, and no others give an alarm that never fires.
* `WorkAlwaysRunsOut`: `Work` counts what is left of what has begun (a message is a turn of the stop task's
  loop, an upload or a slot ends in a message, an alarm in one, a powered PHY in at most one picture); every step but `Tick`
  and the mode commands lowers it, those two add at most 39, and at zero nothing holds the tick back. So the
  tasks cannot keep each other busy for ever: what `StopRequestServed` and `SamplesForEver` need of safety within a part
  of a minute. That the phases themselves follow on each other is `CycleInv`.
* `QueueIsUsedAsPromised`: the two variables and the place that stand for `Message_Q` take only steps of `MessageQueue`,
  the module `Kernel` is proved to implement; the message received is the one `stopmode_task` serves. What
  a receive returned is not kept in the state, so it is stated of the steps (the value is the parameter of `MessageQ`); `Init` has the stop
  task already in its first `OSQPend`.

**RtuTasks, the cycle without commands.** `UploadOverAtPowerOffAlways`, `WakesOnlyParkedAlways`, `UnpoweredParkedAlways`,
`WakeUpPendingAlways`, `AlarmWillFireAlways`, `NeverRefusedAlways` and `EverySlotSampledAlways` assume `CycleFits`: no mode
commands, and the waiting, the upload, the delay and the hang-up of a period fit in three minutes;
the last assumes also that a dial ends within a minute. These are conditions the code nowhere checks; they
say what it needs, and the model needs all of it: the values of `task_cycle` meet the bound of three minutes (18 parts) and that on the dial
(6 parts) with equality, and one part more breaks the properties (section 3). The start minute, the alarm found at power-up, the
rain and the camera are arbitrary, and a message queue of one slot is enough.

The inductive invariant is `CycleInv`: there is one token in the station, and its place bounds the
time since the period began. Either nothing is asked of anybody (`Polls`), or the period has been sampled and
the basic task is at work on it, or the semaphore or `gprs_task` has it, or ENTER_STOP is posted (`Working`), or
the stop task has it (`Stopping`), or the wake-up is to come: the flag, or one WAKE_UP (`Sleeping`),
or it is being served (`Waking`). Each handover passes on the bound on `Elapsed` minus what the phase
may take. That is why the basic task cannot start a second period before it is
parked, why the alarm is set before the fifth minute, and why the tick that would end the sleep's period waits
for the alarm. While the stop task has the token `receive_command` stays suspended too, because `gprs_task`, which
alone could resume it, waits without a count. The theorems cannot be had one by one: no second request
(`NeverRefused`) needs the bound, and the bound needs that only one phase is active.

**GprsDial.** `DialTypeCorrect`, `FlagsInOrderAlways`, `ResultTellsFlagsAlways`, `FailedDialHasResetAlways`: the invariant
ties the flags to the stage of the command being sent, and the error count to the
attempts used: in a dial that has not reset, at least as many errors have been counted as attempts were used.
`DialRunsDown`: every step of the task decreases the rank of dial time left, command, tries, place and polls, in
that order, whatever the modem answers, so that a dial has no endless run of its own steps.

**PictureUpload.** `UploadTypeCorrect`, `EndMarkHonestAlways`, `CompleteUploadAlways`,
`ModemAwaitsCommandsAlways`, `InOrderOnceAlways`: the invariant has three parts. `FileInv`
keeps the two counts of the file together (`left = size - pos`), so that the end mark,
decided by `pic_size`, agrees with what was read. `LineInv` says that the bytes sent are those
before the packet under way, then with it. `OrderInv` says that what was delivered last
is an earlier packet, or the one under way; at the resend it is numbered like the second.
`AnnouncedIsSentAlways` adds `CountInv`: n packets read hold n packet lengths, or, when the
file ended in the last, more than n - 1 of them; the quotient that was announced follows. `UploadRunsDown`: every step of the task decreases the rank
of bytes left, place and polls.

**FlashRecords and QueryPackets.**

* `RecordsApart`, `RecordInRegion`: for all dates of the century. The months of a
  year do not overlap (`MonthsApart`), so a day of the year tells its month; hours and intervals are the
  last digits of a number in base 24 and 12 (`LastDigit`), so an interval tells its time. They
  assume the February of the record's own year, which is what the shared table does not
  guarantee.
* `QueryTypeCorrect`, `PacketsNumberedAlways`, `LengthHonestAlways`: for any set of queries and any current year. The
  invariant is strengthened by "nothing is sent before the address is known, and while
  packets go out `i` is one more than their number".
* `PeriodCoveredAlways`: `FebInv` says when the shared table is that of the query's year, wherever `Save`
  comes in; `HoursInv` that the hours counted reach from the first record to the address after the last
  (`CountReaches`: the loop over the months adds what `DaysBefore` does); `SentInv` that what
  is sent are full packets in a row from the first record. The proof attempt showed that a query from one year
  to the same month of the next must be excepted: `CountHours` does not look at the years.
* `AnswerRunsDown`: every step of an answer decreases the steps to its first packet, then the packets left, whatever
  samples are stored meanwhile; and the hours are lost (an endless loop, or a negative number) for no query within
  one year whose end is not before its beginning (`OrderedCounts`), except from a February 29 that the table may not have.

**Kernel.**

* `TypeCorrect`, `ReadyListAlwaysTrue`, `CallsAlwaysAccountedFor`, `NeverIdleWait`: the four
  are proved together, with `RingTrue` (the distance from `OSQOut` to `OSQIn` is the number of
  entries), since each needs the others: that a post readies the task it serves needs that a
  listed task is still in its call, and that needs the ready list.
* `QueueKeepsPromise`: every behaviour of `Kernel` is one of `MessageQueue`. `StoreAppends` and
  `TakeRemoves` show that storing at `OSQIn` and taking at `OSQOut` are append and tail of the sequence
  read from `OSQOut` on; the other steps stutter or change only what has been handed over.
* `BoundedWaitRunsDown`: of a call with a timeout, or one that was served, no step raises the ticks left and each tick
  lowers them; at zero the task of the highest priority has the processor unless it is suspended.

**LwipTimers.** `TimersTypeOK`, `TimersAreKept`, and the refinement `ListImplementsSet`: every behaviour of the
list of differences is one of `TimerSet`, for all intervals, ticks and clocks. The invariant adds `DueInv`: no timer
is due later than its interval. Inserting an entry and shortening its successor leaves the sums up to all the
others alone, taking the head off subtracts its time from all (`SumRecursion` and the lemmas on it).
`EveryTimerRunsDown`: an armed timer has at most its interval left, and every step of the thread fires it, takes time
off it, or handles one of the timers due before it; a fetch that is answered at once still takes a millisecond off.
The place at which `sys_timeout` inserts is counted, not searched; that the entries due no later are a
beginning of the list follows because no difference is negative.

**StationFlash.** `ProgramsOnlyErased`, `BlocksAreKept`: for all pages, sectors and places of the blocks. `CallInv`
places the write in its block (what is done, what is left, offset zero after the first sector), `ImageInv` says
that what is still to be programmed is erased and what has been is the image, and `KeptInv` that the
neighbours' values are in the flash or, while their sector is rewritten, in the image.

**EthDriver.** `NoFrameStrandedAlways`: strengthened by `LowLineLatched` (while an unmasked flag is up its edge is
latched), `MaskedForATime` (only a sender in its loop, or the stop task before its unmasking,
masks a receiving chip), `FramesAnnounced` (frames whose flag was taken down have a count or
the input task on its way) and `StoppedEmpty` (a chip just reset holds none). `DriverTypeCorrect`, and `ChipLockedAlways`: the two tasks are at
the chip only as owners of `dm9000lock`, and neither waits for a lock that is free; the stop task, which resets the
chip without the lock, is outside it. `SendRunsDown`: a sender in its loop whose chip is not reset under it has
its flag up, the power off, or its frame on the way (`SenderServed`, by `SenderInv`); no step takes it further from its end, and its looks and
the end of the transmission bring it nearer; what lies before the lock is handed over in finitely many steps, or a fault is used up.

Each inductive invariant was checked with TLC on the constants of its run before it was proved, `CycleInv`
also for one, two and four parts per minute and a queue of one slot, and `CoverInv` on 4563 queries.

Where a proof needs induction over a number (the sums of `SumUpTo`), it is done
by the least element of a set of counterexamples (`LeastOf`, from the well-foundedness of the strict subsets of a
finite set): the induction theorems of the library take an operator, which the provers cannot
instantiate.

Only model-checked: liveness (`StopRequestServed`, `SamplesForEver`, `DialReturns`,
`UploadReturns`, `QueryReturns`, `BoundedWaitEnds`, `EveryTimerFires`, `SendEnds`), which needs fairness and
ENABLED. Their safety half is proved: a rank that no step raises and the steps under fairness lower, for `DialReturns`,
`UploadReturns`, `QueryReturns`, `BoundedWaitEnds`, `EveryTimerFires` and `SendEnds`; for the two of `RtuTasks` only that the work between
two ticks runs out. Also model-checked only: `NeverRefused` and `UnpoweredParked` with mode commands, for uploads of up to a minute.

## 5. Not modelled, and the plan

Not modelled, and why:

* Contents and layout of messages, logging, sensors and register-level drivers: data without control.
* The vendored stacks. Of some 174000 lines of implementation the greater part is FatFs (with
  its code pages), lwIP, the STM32 libraries, CMSIS and the USB library, which this project
  does not own and models only where its own tasks live in them (`timers.c`, `ethernetif.c`, the
  kernel's services). The map therefore covers a small share of the whole, and most of the control of
  the station's own code.
* The FTP session, so far: what the rest of the station sees of a stored picture is in `RtuTasks`. Its
  data connections come from PORT (the `select(0, ...)` of PASV sees no descriptor and fails after 3 s); the
  session's hazards are its unclosed and reused socket numbers.
* The Bluetooth commands: the RAM copy of the parameters is never loaded, so that each command replaces
  the stored block whatever it interleaves with.
* Mailboxes and semaphores of `sys_arch.c` beyond the fetch: they are the queue and semaphore of `Kernel`.
* The allocator: which callers overlap is decided in vendored code.
* Two flash writes at once: they spoil each other by the shared sector buffer.

Order of the work to come:

1. Theorems: a bound on the messages in `Message_Q` with mode commands, which needs one on the upload.
2. The second reading of the clock in `SaveAndGetData_FiveMinute`, with a finer `Tick`.
3. `FtpSession`: PORT and STOR over connections that stall or fail, two pictures per period, the socket table.
4. The hour message of `protocol.c`.
