----------------------------- MODULE PictureUpload -----------------------------
(***************************************************************************)
(* Sending the stored picture to the server (4G/4g.c): SendPictureToServer *)
(* reads the file in packets; UpdateFrameContentData numbers each and      *)
(* marks the last; gprs_send_string_len announces it with AT+CIPSEND,      *)
(* awaits the prompt, sends it, and sends the second packet again when no  *)
(* OK has come 10 ms later; CheckReceive looks for the server's answer.    *)
(*                                                                         *)
(* The modem and the server (external) answer late or never.  A packet is  *)
(* delivered when its bytes reach a modem that has accepted AT+CIPSEND; to *)
(* a modem in command mode they are noise.  As in GprsDial, a burst of     *)
(* answers may leave the tail of an older one in the buffer.               *)
(***************************************************************************)
EXTENDS Integers, Sequences

CONSTANTS
  PktLen,     \* TRANS_CONTENT_LEN: bytes of the file in a packet
  Sizes,      \* sizes the picture file may have
  MaxErrors,  \* MAX_AT_CIPSEND_ERRO_TIMES
  LowByte,    \* 256: packet numbers alike in their low byte look alike to the resend
  Polls,      \* polls of an AT+CIPSEND, abstracted
  MaxOwed     \* answers the modem may owe at once (bound of the model)

ASSUME PacketAssumption == PktLen \in Nat \ {0} /\ Sizes \subseteq Nat
ASSUME RetryAssumption == MaxErrors \in Nat \ {0} /\ LowByte \in Nat /\ LowByte > 2
ASSUME LinkAssumption == Polls \in Nat \ {0} /\ MaxOwed \in Nat

VARIABLES
  pc,            \* place in SendPictureToServer
  size, pos,     \* the open file and the read position
  left, curSn, new, \* pic_size, cur_sn and open_new_picture_flag
  announced,     \* total packets announced in every packet
  frame,         \* the packet under way: number, end mark, bytes of the file
  polls, errCount, \* polls left, send_atcipsend_erro_count
  result,        \* what SendPictureToServer returned last
  mode, owed,    \* the modem: "cmd" or "data" (awaiting a packet); answers it owes
  buf, stat,     \* texts in DMA_usart2_Buf, g_usart2_receive_stat
  sentTo,        \* history: bytes of the file sent without a gap
  got            \* history: last packet delivered, and how many times

fileVars == <<size, pos, left, curSn, new, announced, frame>>
linkVars == <<mode, owed, buf, stat>>
history == <<sentTo, got>>
vars == <<pc, fileVars, polls, errCount, result, linkVars, history>>

Texts == {"PROMPT", "OK", "SENT", "DOWN", "ERROR"}
Frames == [sn : Nat, end : {"ETX", "ETB"}, from : Nat, to : Nat]

TypeOK ==
  /\ pc \in {"idle", "read", "ask", "prompt", "payload", "verify", "resent", "again", "check"}
  /\ size \in Sizes \cup {0} /\ pos \in 0 .. size
  /\ left \in Int /\ curSn \in Nat \ {0} /\ new \in {0, 1}
  /\ announced \in Nat /\ frame \in Frames
  /\ polls \in 0 .. Polls /\ errCount \in 0 .. MaxErrors + 1
  /\ result \in {0, -1}
  /\ mode \in {"cmd", "data"} /\ owed \in Seq(Texts)
  /\ buf \subseteq Texts /\ stat \in {0, 1}
  /\ sentTo \in Nat
  /\ got \in [frame : Frames, copies : Nat]

NoFrame == [sn |-> 0, end |-> "ETB", from |-> 0, to |-> 0]

Init ==
  /\ pc = "idle"
  /\ size = 0 /\ pos = 0 /\ left = 0 /\ curSn = 1 /\ new = 0
  /\ announced = 0 /\ frame = NoFrame
  /\ polls = 0 /\ errCount = 0 /\ result = -1
  /\ mode = "cmd" /\ owed = <<>> /\ buf = {} /\ stat = 0
  /\ sentTo = 0 /\ got = [frame |-> NoFrame, copies |-> 0]

-------------------------------------------------------------------------------
(* The modem's side of the line                                            *)

Owe(texts) == owed' = IF Len(owed) + Len(texts) <= MaxOwed THEN owed \o texts ELSE owed

\* AT+CIPSEND reaches the modem, which accepts it or not.
Command ==
  \/ mode' = "data" /\ Owe(<<"PROMPT">>)
  \/ mode' = "cmd" /\ Owe(<<"ERROR">>)

\* The bytes of the packet reach the modem.
Payload ==
  /\ mode' = "cmd"
  /\ sentTo' = IF frame.from = sentTo THEN frame.to ELSE sentTo
  /\ IF mode = "data"
       THEN /\ got' = [frame |-> frame,
                       copies |-> IF got.frame = frame THEN got.copies + 1 ELSE 1]
            /\ Owe(<<"OK", "SENT", "DOWN">>)
       ELSE UNCHANGED <<got, owed>>

\* USART2_IRQHandler: a burst is in the buffer, before what it leaves of older ones.
Receive(text) == stat' = 1 /\ buf' \in {{text}, buf \cup {text}}

ModemAnswers ==
  /\ owed # <<>>
  /\ Receive(Head(owed))
  /\ owed' = Tail(owed)
  /\ UNCHANGED <<pc, fileVars, polls, errCount, result, mode, history>>

ModemStaysSilent ==
  /\ owed # <<>>
  /\ owed' = Tail(owed)
  /\ UNCHANGED <<pc, fileVars, polls, errCount, result, mode, buf, stat, history>>

-------------------------------------------------------------------------------
(* SendPictureToServer and UpdateFrameContentData                          *)

Return(r) == pc' = "idle" /\ result' = r

\* Mutant of TotalPackets: whole packets only.
WholePackets(bytes) == bytes \div PktLen

TotalPackets(bytes) == bytes \div PktLen + 1

\* The file is opened, the number of packets worked out.  Between two uploads the station
\* has slept with the modem's power off.
Open ==
  /\ pc = "idle"
  /\ size' \in Sizes
  /\ pos' = 0 /\ left' = size'
  /\ announced' = TotalPackets(size')
  /\ new' = 1
  /\ mode' = "cmd" /\ owed' = <<>>
  /\ sentTo' = 0 /\ got' = [frame |-> NoFrame, copies |-> 0]
  /\ pc' = "read"
  /\ UNCHANGED <<curSn, frame, polls, errCount, result, buf, stat>>

OpenFails ==
  /\ pc = "idle"
  /\ Return(-1)
  /\ UNCHANGED <<fileVars, polls, errCount, linkVars, history>>

\* What f_read returns: the bytes of a packet, or those left in the file.
BytesRead == IF size - pos < PktLen THEN size - pos ELSE PktLen

\* Mutant of EndMark: the last packet of a file read to its end counts as one of many.
EndMarkTooLate(rest) == IF rest < 0 THEN "ETX" ELSE "ETB"

\* ETX when nothing of the picture is left after the packet.
EndMark(rest) == IF rest <= 0 THEN "ETX" ELSE "ETB"

\* Mutant of Read: open_new_picture_flag stays set.
ReadKeepsNew ==
  /\ pc = "read" /\ BytesRead > 0
  /\ pos' = pos + BytesRead /\ left' = left - BytesRead
  /\ LET sn == IF new = 1 THEN 1 ELSE curSn
     IN  /\ frame' = [sn |-> sn, end |-> EndMark(left'), from |-> pos, to |-> pos']
         /\ curSn' = sn + 1
  /\ pc' = "ask"
  /\ UNCHANGED <<size, new, announced, polls, errCount, result, linkVars, history>>

\* The next bytes of the file become the packet under way.
Read ==
  /\ pc = "read" /\ BytesRead > 0
  /\ pos' = pos + BytesRead /\ left' = left - BytesRead
  /\ LET sn == IF new = 1 THEN 1 ELSE curSn
     IN  /\ frame' = [sn |-> sn, end |-> EndMark(left'), from |-> pos, to |-> pos']
         /\ curSn' = sn + 1
  /\ new' = 0
  /\ pc' = "ask"
  /\ UNCHANGED <<size, announced, polls, errCount, result, linkVars, history>>

\* Mutant of ReadsEnd: a short read counts as the end of the file.
ReadsEndOnShortRead ==
  /\ pc = "read" /\ BytesRead < PktLen
  /\ Return(0)
  /\ UNCHANGED <<fileVars, polls, errCount, linkVars, history>>

\* f_read returns no byte: the picture is sent.
ReadsEnd ==
  /\ pc = "read" /\ BytesRead = 0
  /\ Return(0)
  /\ UNCHANGED <<fileVars, polls, errCount, linkVars, history>>

ReadFails ==
  /\ pc = "read"
  /\ Return(-1)
  /\ UNCHANGED <<fileVars, polls, errCount, linkVars, history>>

-------------------------------------------------------------------------------
(* gprs_send_string_len and CheckReceive                                   *)

Ask ==
  /\ pc = "ask"
  /\ Command
  /\ polls' = Polls
  /\ pc' = "prompt"
  /\ UNCHANGED <<fileVars, errCount, result, buf, stat, history>>

\* The poll of gprs_send_cmd finds the awaited text in a new burst.
Sees(text) == polls > 0 /\ stat = 1 /\ text \in buf

PromptSeen ==
  /\ pc = "prompt" /\ Sees("PROMPT")
  /\ stat' = 0 /\ buf' = {}
  /\ errCount' = 0
  /\ pc' = "payload"
  /\ UNCHANGED <<fileVars, polls, result, mode, owed, history>>

Awaited == IF pc = "prompt" THEN "PROMPT" ELSE "SENT"

\* Mutant of PollAgain: the polls are not counted.
PollAgainForEver ==
  /\ pc \in {"prompt", "resent"} /\ polls > 0 /\ ~Sees(Awaited)
  /\ stat' = 0
  /\ UNCHANGED <<pc, fileVars, polls, errCount, result, mode, owed, buf, history>>

\* A poll of gprs_send_cmd without the awaited text.
PollAgain ==
  /\ pc \in {"prompt", "resent"} /\ polls > 0 /\ ~Sees(Awaited)
  /\ stat' = 0
  /\ polls' = polls - 1
  /\ UNCHANGED <<pc, fileVars, errCount, result, mode, owed, buf, history>>

\* send_atcipsend_erro_count + 1; beyond MaxErrors its values are alike to the code.
CountError == IF errCount > MaxErrors THEN errCount ELSE errCount + 1

\* No prompt: the packet is sent all the same, unless this failure is the one too many.
PromptMissing ==
  /\ pc = "prompt" /\ polls = 0
  /\ errCount' = CountError
  /\ IF errCount' = MaxErrors
       THEN Return(-1)
       ELSE pc' = "payload" /\ UNCHANGED result
  /\ UNCHANGED <<fileVars, polls, linkVars, history>>

SendPacket ==
  /\ pc = "payload"
  /\ Payload
  /\ pc' = "verify"
  /\ UNCHANGED <<fileVars, polls, errCount, result, buf, stat>>

\* 10 ms later the buffer holds an OK, or the packet is not one that looks like the second.
Verified ==
  /\ pc = "verify"
  /\ "OK" \in buf \/ frame.sn % LowByte # 2
  /\ pc' = "check"
  /\ UNCHANGED <<fileVars, polls, errCount, result, linkVars, history>>

\* No OK for the second packet: AT+CIPSEND once more, +CIPSEND: awaited.
AskAgain ==
  /\ pc = "verify"
  /\ "OK" \notin buf /\ frame.sn % LowByte = 2
  /\ Command
  /\ polls' = Polls
  /\ pc' = "resent"
  /\ UNCHANGED <<fileVars, errCount, result, buf, stat, history>>

\* +CIPSEND: has come, or the polls are over: the packet is sent again in either case.
AskAgainEnds ==
  /\ pc = "resent"
  /\ \/ Sees("SENT") /\ stat' = 0 /\ buf' = {}
     \/ polls = 0 /\ UNCHANGED <<stat, buf>>
  /\ pc' = "again"
  /\ UNCHANGED <<fileVars, polls, errCount, result, mode, owed, history>>

\* Mutant of SendAgain: the command was repeated, the packet is not.
SendAgainForgotten ==
  /\ pc = "again"
  /\ pc' = "check"
  /\ UNCHANGED <<fileVars, polls, errCount, result, linkVars, history>>

SendAgain ==
  /\ pc = "again"
  /\ Payload
  /\ pc' = "check"
  /\ UNCHANGED <<fileVars, polls, errCount, result, buf, stat>>

\* CheckReceive ends the latest burst with a NUL, which may hide the older texts behind it.
\* Whatever the server answered, or nothing, the next packet follows.
Check ==
  /\ pc = "check"
  /\ stat' = 0
  /\ buf' \in {buf} \cup (IF stat = 1 THEN {{text} : text \in buf} ELSE {})
  /\ pc' = "read"
  /\ UNCHANGED <<fileVars, polls, errCount, result, mode, owed, history>>

-------------------------------------------------------------------------------
Task == Open \/ OpenFails \/ Read \/ ReadsEnd \/ ReadFails \/ Ask \/ PromptSeen \/ PollAgain
        \/ PromptMissing \/ SendPacket \/ Verified \/ AskAgain \/ AskAgainEnds \/ SendAgain
        \/ Check
Next == Task \/ ModemAnswers \/ ModemStaysSilent

Spec == Init /\ [][Next]_vars
\* gprs_task gets the CPU; modem, server and file system owe it nothing.
FairSpec == Spec /\ WF_vars(Task)

-------------------------------------------------------------------------------
(* Properties                                                              *)

\* The server never gets a packet out of order, and gets one twice only when its number
\* ends like that of the second packet (the resend of gprs_send_string_len).
InOrderOnce ==
  [][got' # got /\ got'.copies > 0 =>
       \/ got'.frame.sn > got.frame.sn
       \/ got'.frame = got.frame /\ got.frame.sn % LowByte = 2 /\ got'.copies = 2]_vars

\* The packet with the last bytes of the picture, and no other, says that none follows.
EndMarkHonest ==
  got.copies > 0 => (got.frame.end = "ETX" <=> got.frame.to = size)

\* When the upload returns 0 every byte of the picture has been put on the line.
CompleteUpload == pc = "idle" /\ result = 0 => sentTo = size

\* ... and the packets sent are as many as every packet has announced, except when the
\* size is a multiple of TRANS_CONTENT_LEN: one more is announced then.
AnnouncedIsSent ==
  pc = "idle" /\ result = 0 /\ size % PktLen # 0 => announced = curSn - 1

\* An upload that returns 0 leaves the modem ready for commands: the gprs_disconnect that
\* follows is not swallowed as picture data.
ModemAwaitsCommands == pc = "idle" /\ result = 0 => mode = "cmd"

\* Every upload returns, whatever the modem and the server do.
UploadReturns == pc = "read" ~> pc = "idle"
===============================================================================
