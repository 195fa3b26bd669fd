------------------------------- MODULE GprsDial -------------------------------
(***************************************************************************)
(* Connecting the 4G modem (4G/4g.c): GPRS_4G_Init drives gprs_init,       *)
(* gprs_net_config and gprs_connect, a script of AT commands each sent and *)
(* awaited by gprs_send_cmd, and err_process after a failure.              *)
(*                                                                         *)
(* The modem (external) answers the commands in order, late or never.  Its *)
(* answers reach the one DMA buffer of USART2, which each burst overwrites *)
(* from the start: a short burst leaves the tail of an older one behind.   *)
(***************************************************************************)
EXTENDS Integers, Sequences

CONSTANTS
  LongWait, ShortWait, \* polls of a 500- and of a 200-poll command, abstracted
  MaxOwed              \* answers the modem may owe at once (bound of the model)

ASSUME WaitAssumption == LongWait \in Nat \ {0} /\ ShortWait \in Nat \ {0}
ASSUME OwedAssumption == MaxOwed \in Nat

\* The commands of gprs_init (1-5), gprs_net_config (6-10) and gprs_connect (11-12),
\* with the answer awaited, the polls of one try and the tries.
Script == <<
  [ack |-> "OK",       wait |-> LongWait,  tries |-> 5],   \* AT
  [ack |-> "OK",       wait |-> ShortWait, tries |-> 2],   \* AT+CPIN?
  [ack |-> "OK",       wait |-> ShortWait, tries |-> 2],   \* AT+CPSI?
  [ack |-> "OK",       wait |-> ShortWait, tries |-> 2],   \* AT+CGATT?
  [ack |-> "OK",       wait |-> ShortWait, tries |-> 5],   \* ATE0
  [ack |-> "NETCLOSE", wait |-> LongWait,  tries |-> 2],   \* AT+NETCLOSE
  [ack |-> "OK",       wait |-> ShortWait, tries |-> 2],   \* AT+CIPMODE=0
  [ack |-> "OK",       wait |-> ShortWait, tries |-> 2],   \* AT+CIPHEAD=1
  [ack |-> "OK",       wait |-> ShortWait, tries |-> 2],   \* AT+CSOCKSETPN=1
  [ack |-> "NETOPEN",  wait |-> LongWait,  tries |-> 1],   \* AT+NETOPEN
  [ack |-> "CIPOPEN",  wait |-> LongWait,  tries |-> 2],   \* AT+CIPOPEN=0
  [ack |-> "CIPOPEN",  wait |-> LongWait,  tries |-> 2] >> \* AT+CIPOPEN=1

Commands == 1 .. 12
LastOfInit == 5
LastOfNetConfig == 10
LastOfConnect == 12

VARIABLES
  pc,                \* "start", "send", "poll", "error", or "done" between two dials
  time,              \* attempts left in GPRS_4G_Init
  cmd, tries, polls, \* command of the script, tries and polls left to it
  initFlag, netFlag, connectFlag, \* s_gprs_init_flag, s_gprs_net_flag, s_gprs_connect_flag
  errorCnt,          \* s_error_cnt
  result,            \* what GPRS_4G_Init returned last
  resetDone,         \* 1 when GPRS_Reset was called in this dial
  owed,              \* answers the modem owes: the awaited text and the command
  buf, stat,         \* answers in DMA_usart2_Buf, g_usart2_receive_stat
  matched            \* the command whose answer gprs_send_cmd accepted last

flags == <<initFlag, netFlag, connectFlag>>
scriptVars == <<cmd, tries, polls>>
linkVars == <<owed, buf, stat>>
vars == <<pc, time, scriptVars, flags, errorCnt, result, resetDone, linkVars, matched>>

Answers == [ack : {"OK", "NETCLOSE", "NETOPEN", "CIPOPEN", "ERROR"}, of : Commands]

TypeOK ==
  /\ pc \in {"start", "send", "poll", "error", "done"}
  /\ time \in 0 .. 3
  /\ cmd \in Commands /\ tries \in 0 .. 5 /\ polls \in Nat
  /\ initFlag \in {0, 1} /\ netFlag \in {0, 1} /\ connectFlag \in {0, 1}
  /\ errorCnt \in 0 .. 255
  /\ result \in {0, -1} /\ resetDone \in {0, 1}
  /\ owed \in Seq(Answers) /\ buf \subseteq Answers /\ stat \in {0, 1}
  /\ matched \in Commands \cup {0}

Init ==
  /\ pc = "done" /\ time = 0
  /\ cmd = 1 /\ tries = 0 /\ polls = 0
  /\ initFlag = 0 /\ netFlag = 0 /\ connectFlag = 0
  /\ errorCnt = 0 /\ result = -1 /\ resetDone = 1
  /\ owed = <<>> /\ buf = {} /\ stat = 0
  /\ matched = 0

-------------------------------------------------------------------------------
(* gprs_send_cmd                                                           *)

\* The answers a command brings: OK, then the text of its own if it has one.
AnswersTo(c) ==
  IF Script[c].ack = "OK"
    THEN <<[ack |-> "OK", of |-> c]>>
    ELSE <<[ack |-> "OK", of |-> c], [ack |-> Script[c].ack, of |-> c]>>

\* Start awaiting command c of the script.
Issue(c) == cmd' = c /\ tries' = Script[c].tries /\ polls' = 0 /\ pc' = "send"

\* A try: the command goes out.  The modem answers it unless it owes too much already.
SendCmd ==
  /\ pc = "send" /\ tries > 0
  /\ tries' = tries - 1
  /\ polls' = Script[cmd].wait
  /\ pc' = "poll"
  /\ owed' = IF Len(owed) + 2 <= MaxOwed THEN owed \o AnswersTo(cmd) ELSE owed
  /\ UNCHANGED <<time, cmd, flags, errorCnt, result, resetDone, buf, stat, matched>>

Matches == {a \in buf : a.ack = Script[cmd].ack}

\* Mutant of SetFlags: gprs_connect forgets its flag.
SetFlagsButConnect(c) ==
  /\ initFlag' = IF c = LastOfInit THEN 1 ELSE initFlag
  /\ netFlag' = IF c = LastOfNetConfig THEN 1 ELSE netFlag
  /\ UNCHANGED connectFlag

\* The stage flag that the last command of a stage sets.
SetFlags(c) ==
  /\ initFlag' = IF c = LastOfInit THEN 1 ELSE initFlag
  /\ netFlag' = IF c = LastOfNetConfig THEN 1 ELSE netFlag
  /\ connectFlag' = IF c = LastOfConnect THEN 1 ELSE connectFlag

\* A poll finds a burst with the awaited text: the buffer is cleared, the script goes on.
PollMatches ==
  /\ pc = "poll" /\ polls > 0 /\ stat = 1 /\ Matches # {}
  /\ \E a \in Matches : matched' = a.of
  /\ stat' = 0 /\ buf' = {}
  /\ SetFlags(cmd)
  /\ IF cmd = LastOfConnect
       THEN pc' = "done" /\ result' = 0 /\ UNCHANGED scriptVars
       ELSE Issue(cmd + 1) /\ UNCHANGED result
  /\ UNCHANGED <<time, errorCnt, resetDone, owed>>

\* Mutant of PollWaits: the polls are not counted down.
PollWaitsForEver ==
  /\ pc = "poll" /\ polls > 0
  /\ stat = 0 \/ Matches = {}
  /\ stat' = 0
  /\ UNCHANGED <<pc, time, scriptVars, flags, errorCnt, result, resetDone, owed, buf, matched>>

\* A poll that finds nothing, or a burst without the awaited text, which stays in the buffer.
PollWaits ==
  /\ pc = "poll" /\ polls > 0
  /\ stat = 0 \/ Matches = {}
  /\ stat' = 0
  /\ polls' = polls - 1
  /\ UNCHANGED <<pc, time, cmd, tries, flags, errorCnt, result, resetDone, owed, buf, matched>>

\* The polls of a try are used up: another try, or the command's error code.
PollTimesOut ==
  /\ pc = "poll" /\ polls = 0
  /\ pc' = IF tries > 0 THEN "send" ELSE "error"
  /\ UNCHANGED <<time, scriptVars, flags, errorCnt, result, resetDone, linkVars, matched>>

-------------------------------------------------------------------------------
(* GPRS_4G_Init and err_process                                            *)

\* The flags cleared, three attempts ahead.  The power was off, the modem owes nothing.
Dial ==
  /\ pc = "done"
  /\ time' = 3
  /\ initFlag' = 0 /\ netFlag' = 0 /\ connectFlag' = 0
  /\ pc' = "start" /\ resetDone' = 0
  /\ owed' = <<>>
  /\ UNCHANGED <<scriptVars, errorCnt, result, buf, stat, matched>>

\* while(time--): an attempt runs the first stage whose flag is missing, or all is over.
Attempt ==
  /\ pc = "start"
  /\ IF time = 0
       THEN pc' = "done" /\ result' = -1 /\ UNCHANGED <<time, scriptVars>>
       ELSE /\ time' = time - 1
            /\ Issue(IF initFlag = 0 THEN 1
                     ELSE IF netFlag = 0 THEN LastOfInit + 1 ELSE LastOfNetConfig + 1)
            /\ UNCHANGED result
  /\ UNCHANGED <<flags, errorCnt, resetDone, linkVars, matched>>

\* Mutant of CountError: the errors of earlier attempts are forgotten.
CountErrorForgets == (IF cmd = 1 THEN 4 ELSE 0) + 1

\* What err_process counts: no answer to AT counts as enough for a reset.
CountError == (IF cmd = 1 THEN 4 ELSE errorCnt) + 1

\* Mutant of ErrProcess: only the first flag is cleared.
ErrProcessClearsInit ==
  /\ pc = "error"
  /\ initFlag' = 0
  /\ IF CountError >= 3
       THEN errorCnt' = 0 /\ resetDone' = 1 /\ owed' = <<>>
       ELSE errorCnt' = CountError /\ UNCHANGED <<resetDone, owed>>
  /\ pc' = "start"
  /\ UNCHANGED <<time, scriptVars, netFlag, connectFlag, result, buf, stat, matched>>

\* err_process: the flags cleared, and from three errors on GPRS_Reset.
ErrProcess ==
  /\ pc = "error"
  /\ initFlag' = 0 /\ netFlag' = 0 /\ connectFlag' = 0
  /\ IF CountError >= 3
       THEN errorCnt' = 0 /\ resetDone' = 1 /\ owed' = <<>>
       ELSE errorCnt' = CountError /\ UNCHANGED <<resetDone, owed>>
  /\ pc' = "start"
  /\ UNCHANGED <<time, scriptVars, result, buf, stat, matched>>

-------------------------------------------------------------------------------
(* The modem and the idle-line interrupt of USART2                         *)

\* USART2_IRQHandler: a burst is in the buffer, before what it leaves of older ones.
Receive(a) ==
  /\ stat' = 1
  /\ buf' \in {{a}, buf \cup {a}}

ModemAnswers ==
  /\ owed # <<>>
  /\ Receive(Head(owed)) \/ Receive([Head(owed) EXCEPT !.ack = "ERROR"])
  /\ owed' = Tail(owed)
  /\ UNCHANGED <<pc, time, scriptVars, flags, errorCnt, result, resetDone, matched>>

ModemStaysSilent ==
  /\ owed # <<>>
  /\ owed' = Tail(owed)
  /\ UNCHANGED <<pc, time, scriptVars, flags, errorCnt, result, resetDone, buf, stat, matched>>

Device == Dial \/ Attempt \/ SendCmd \/ PollMatches \/ PollWaits \/ PollTimesOut \/ ErrProcess
Next == Device \/ ModemAnswers \/ ModemStaysSilent

\* The task that dials gets the CPU; the modem owes nobody anything.
Spec == Init /\ [][Next]_vars
FairSpec == Spec /\ WF_vars(Device)

-------------------------------------------------------------------------------
(* Properties                                                              *)

\* The modem counts as connected only when it is initialised and configured, and as
\* configured only when it is initialised: no failure leaves a later flag behind.
FlagsInOrder == connectFlag <= netFlag /\ netFlag <= initFlag

\* GPRS_4G_Init returns 0 with every flag set, and -1 with every flag clear.
ResultTellsFlags ==
  pc = "done" =>
    IF result = 0 THEN connectFlag = 1 ELSE initFlag = 0 /\ netFlag = 0 /\ connectFlag = 0

\* A dial that gives up has reset the modem at least once, whatever errors earlier dials
\* left in s_error_cnt.
FailedDialHasReset == pc = "done" /\ result = -1 => resetDone = 1

\* Every dial returns, however late or silent the modem is.
DialReturns == pc = "start" ~> pc = "done"

\* gprs_send_cmd reports success only for an answer to the command it has sent
\* (its header: it returns 0 when the reply has been received successfully). The code does
\* not keep it: a late answer to an earlier try or command is taken. README, section 3.
AnswerIsForThisCommand == [][PollMatches => matched' = cmd]_vars
===============================================================================
