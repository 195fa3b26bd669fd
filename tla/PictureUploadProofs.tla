-------------------------- MODULE PictureUploadProofs --------------------------
(***************************************************************************)
(* Theorems of PictureUpload, for every packet length, picture, number of  *)
(* polls and behaviour of the modem.  Inv says where in the file each step *)
(* of the upload stands: what has been read, put on the line, delivered.   *)
(***************************************************************************)
EXTENDS PictureUpload, SequenceTheorems, TLAPS

\* A packet has been built from the bytes just read and is under way.
UnderWay == {"ask", "prompt", "payload", "verify", "resent", "again", "check"}
NotYetSent == {"ask", "prompt", "payload"}
Sent == {"verify", "resent", "again", "check"}

\* What is left of the picture, and what the packet under way holds, follow from pos.
FileInv ==
  /\ left = size - pos
  /\ pc \in UnderWay => /\ frame.from < frame.to /\ frame.to = pos
                        /\ frame.end = "ETX" <=> pos = size

\* The bytes put on the line are those before the packet under way, then with it.
LineInv ==
  /\ pc \in NotYetSent => sentTo = frame.from
  /\ pc \in Sent \cup {"read"} => sentTo = pos
  /\ pc \in {"read", "ask", "verify", "check"} => mode = "cmd"
  /\ pc = "idle" /\ result = 0 => sentTo = size /\ mode = "cmd"

\* Numbers grow, and a packet delivered twice is under way for the second time.
OrderInv ==
  /\ pc \in UnderWay => new = 0 /\ frame.sn = curSn - 1 /\ frame.sn > 0
  /\ got.copies = 0 => got.frame = NoFrame
  /\ got.copies > 0 => (got.frame.end = "ETX" <=> got.frame.to = size)
  /\ pc = "read" /\ new = 1 => got.copies = 0
  /\ pc = "read" /\ new = 0 => got.frame.sn < curSn
  /\ pc \in NotYetSent => got.frame.sn < frame.sn
  /\ pc \in Sent => \/ got.frame.sn < frame.sn
                    \/ got.frame = frame /\ got.copies \in 1 .. 2
  /\ pc \in {"verify", "resent", "again"} => got.copies <= 1 \/ got.frame.sn < frame.sn
  /\ pc \in {"resent", "again"} => frame.sn % LowByte = 2

\* n full packets.
Whole(n) == n * PktLen

\* After n packets from the file, all full or, at its end, all but the last one.
Counted(n, p, bytes) ==
  \/ p = Whole(n)
  \/ p = bytes /\ n > 0 /\ Whole(n - 1) < bytes /\ bytes < Whole(n)

\* The number announced is that of the open file, and the numbers count the packets read.
CountInv ==
  /\ pc \in UnderWay \cup {"read"} => announced = TotalPackets(size)
  /\ pc = "read" /\ new = 1 => pos = 0
  /\ pc \in UnderWay \/ (pc = "read" /\ new = 0) => Counted(curSn - 1, pos, size)
  /\ AnnouncedIsSent

Inv == FileInv /\ LineInv /\ OrderInv

-------------------------------------------------------------------------------
\* What the modem owes stays a sequence of its texts.
LEMMA OweType ==
  ASSUME owed \in Seq(Texts), NEW texts \in Seq(Texts), Owe(texts)
  PROVE  owed' \in Seq(Texts)
  <1>1. owed \o texts \in Seq(Texts)
    BY ConcatProperties
  <1> QED
    BY <1>1 DEF Owe

LEMMA CommandType ==
  ASSUME owed \in Seq(Texts), Command
  PROVE  mode' \in {"cmd", "data"} /\ owed' \in Seq(Texts)
  <1>1. <<"PROMPT">> \in Seq(Texts) /\ <<"ERROR">> \in Seq(Texts)
    BY DEF Texts
  <1> QED
    BY <1>1, OweType DEF Command

LEMMA PayloadType ==
  ASSUME TypeOK, Payload
  PROVE  /\ mode' \in {"cmd", "data"} /\ owed' \in Seq(Texts) /\ sentTo' \in Nat
         /\ got' \in [frame : Frames, copies : Nat]
  <1>1. <<"OK", "SENT", "DOWN">> \in Seq(Texts)
    BY DEF Texts
  <1>2. owed' \in Seq(Texts)
    BY <1>1, OweType DEF Payload, TypeOK
  <1>3. got' \in [frame : Frames, copies : Nat]
    BY DEF Payload, TypeOK
  <1> QED
    BY <1>2, <1>3 DEF Payload, TypeOK, Frames

LEMMA TotalPacketsType ==
  ASSUME NEW bytes \in Sizes
  PROVE  TotalPackets(bytes) \in Nat
  <1>1. bytes \in Nat /\ PktLen \in Nat /\ PktLen > 0
    BY PacketAssumption
  <1>2. bytes \div PktLen \in Int
    BY <1>1
  <1>3. bytes \div PktLen >= 0
    BY <1>1, Z3
  <1> QED
    BY <1>2, <1>3 DEF TotalPackets

LEMMA TypeInit == Init => TypeOK
  <1> SUFFICES ASSUME Init PROVE TypeOK
    OBVIOUS
  <1>1. owed \in Seq(Texts)
    BY DEF Init
  <1> QED
    BY <1>1, RetryAssumption, LinkAssumption DEF Init, TypeOK, NoFrame, Frames

LEMMA TypeStep == TypeOK /\ [Next]_vars => TypeOK'
  <1> SUFFICES ASSUME TypeOK, [Next]_vars PROVE TypeOK'
    OBVIOUS
  <1> USE PacketAssumption, RetryAssumption, LinkAssumption
      DEF vars, fileVars, linkVars, history
  <1>1. CASE Open
    <2>1. TotalPackets(size') \in Nat
      BY <1>1, TotalPacketsType DEF Open
    <2>2. owed' \in Seq(Texts)
      BY <1>1 DEF Open
    <2> QED
      BY <1>1, <2>1, <2>2 DEF Open, TypeOK, NoFrame, Frames
  <1>2. CASE OpenFails
    BY <1>2 DEF OpenFails, Return, TypeOK
  <1>3. CASE Read
    <2>1. pos' \in 0 .. size /\ pos \in Nat /\ pos' \in Nat
      BY <1>3 DEF Read, BytesRead, TypeOK
    <2>2. frame' \in Frames /\ curSn' \in Nat \ {0} /\ left' \in Int
      BY <1>3, <2>1 DEF Read, BytesRead, EndMark, TypeOK, Frames
    <2> QED
      BY <1>3, <2>1, <2>2 DEF Read, TypeOK
  <1>4. CASE ReadsEnd \/ ReadFails
    BY <1>4 DEF ReadsEnd, ReadFails, Return, TypeOK
  <1>5. CASE Ask \/ AskAgain
    <2>1. Command
      BY <1>5 DEF Ask, AskAgain
    <2>2. mode' \in {"cmd", "data"} /\ owed' \in Seq(Texts)
      BY <2>1, CommandType DEF TypeOK
    <2>3. /\ polls' = Polls /\ pc' \in {"prompt", "resent"}
          /\ UNCHANGED <<fileVars, errCount, result, buf, stat, history>>
      BY <1>5 DEF Ask, AskAgain
    <2> QED
      BY <2>2, <2>3 DEF TypeOK
  <1>6. CASE PromptSeen \/ PollAgain \/ Verified \/ AskAgainEnds
    <2>1. CASE PromptSeen
      BY <2>1 DEF PromptSeen, TypeOK
    <2>4. CASE PollAgain
      <3>1. polls' \in 0 .. Polls
        BY <2>4 DEF PollAgain, TypeOK
      <3> QED
        BY <2>4, <3>1 DEF PollAgain, TypeOK
    <2>2. CASE Verified
      <3>1. /\ pc' = "check"
            /\ UNCHANGED <<fileVars, polls, errCount, result, linkVars, history>>
        BY <2>2 DEF Verified
      <3> QED
        BY <3>1 DEF TypeOK
    <2>3. CASE AskAgainEnds
      BY <2>3 DEF AskAgainEnds, TypeOK
    <2> QED
      BY <1>6, <2>1, <2>2, <2>3, <2>4
  <1>7. CASE PromptMissing
    BY <1>7 DEF PromptMissing, CountError, Return, TypeOK
  <1>8. CASE SendPacket \/ SendAgain
    BY <1>8, PayloadType DEF SendPacket, SendAgain, TypeOK
  <1>9. CASE Check
    BY <1>9 DEF Check, TypeOK
  <1>10. CASE ModemAnswers \/ ModemStaysSilent
    <2>1. owed # <<>>
      BY <1>10 DEF ModemAnswers, ModemStaysSilent
    <2>2. Head(owed) \in Texts /\ Tail(owed) \in Seq(Texts)
      BY <2>1, HeadTailProperties DEF TypeOK
    <2> QED
      BY <1>10, <2>2 DEF ModemAnswers, ModemStaysSilent, Receive, TypeOK
  <1>11. CASE UNCHANGED vars
    BY <1>11 DEF TypeOK
  <1> QED
    BY <1>1, <1>2, <1>3, <1>4, <1>5, <1>6, <1>7, <1>8, <1>9, <1>10, <1>11 DEF Next, Task

\* For every packet length, picture and modem: the upload's variables keep their types;
\* gprs_send_cmd's poll count never passes zero, the failure count never its limit by two.
THEOREM UploadTypeCorrect == Spec => []TypeOK
  BY TypeInit, TypeStep, PTL DEF Spec

-------------------------------------------------------------------------------
LEMMA InvInit == Init => Inv
  BY DEF Init, Inv, FileInv, LineInv, OrderInv, UnderWay, NotYetSent, Sent, NoFrame

LEMMA FileStep == TypeOK /\ FileInv /\ [Next]_vars => FileInv'
  <1> SUFFICES ASSUME TypeOK, FileInv, [Next]_vars PROVE FileInv'
    OBVIOUS
  <1> USE PacketAssumption DEF vars, fileVars, linkVars, history, FileInv, UnderWay
  <1>1. CASE Open
    <2>1. size' \in Nat /\ pos' = 0 /\ left' = size' /\ pc' = "read"
      BY <1>1 DEF Open
    <2>2. left' = size' - pos'
      <3>1. \A n \in Nat : n - 0 = n
        OBVIOUS
      <3> QED
        BY <2>1, <3>1
    <2>3. pc' \notin UnderWay
      BY <2>1
    <2> QED
      BY <2>2, <2>3
  <1>2. CASE OpenFails \/ ReadsEnd \/ ReadFails
    <2>1. pc' = "idle" /\ UNCHANGED fileVars
      BY <1>2 DEF OpenFails, ReadsEnd, ReadFails, Return
    <2> QED
      BY <2>1
  <1>3. CASE Read
    <2>1. pos \in Nat /\ size \in Nat /\ BytesRead \in Nat /\ BytesRead > 0
      BY <1>3 DEF Read, BytesRead, TypeOK
    <2>2. frame'.from = pos /\ frame'.to = pos + BytesRead /\ frame'.end = EndMark(left')
      BY <1>3 DEF Read
    <2>3. left' = size - pos' /\ pos' = pos + BytesRead /\ size' = size
      BY <1>3, <2>1 DEF Read, TypeOK
    <2>4. pos' <= size
      BY <2>1, <2>3 DEF BytesRead, TypeOK
    <2>5. frame'.end = "ETX" <=> pos' = size'
      BY <2>1, <2>2, <2>3, <2>4 DEF EndMark
    <2> QED
      BY <2>1, <2>2, <2>3, <2>5
  <1>4. CASE Ask \/ AskAgain
    <2>1. pc \in UnderWay /\ UNCHANGED fileVars
      BY <1>4 DEF Ask, AskAgain
    <2> QED
      BY <2>1
  <1>5. CASE PromptSeen \/ PollAgain \/ PromptMissing
    <2>1. pc \in UnderWay /\ UNCHANGED fileVars
      BY <1>5 DEF PromptSeen, PollAgain, PromptMissing
    <2> QED
      BY <2>1
  <1>6. CASE SendPacket \/ Verified \/ AskAgainEnds \/ SendAgain \/ Check
    <2>1. pc \in UnderWay /\ UNCHANGED fileVars
      BY <1>6 DEF SendPacket, Verified, AskAgainEnds, SendAgain, Check
    <2> QED
      BY <2>1
  <1>7. CASE ModemAnswers \/ ModemStaysSilent \/ UNCHANGED vars
    BY <1>7 DEF ModemAnswers, ModemStaysSilent
  <1> QED
    BY <1>1, <1>2, <1>3, <1>4, <1>5, <1>6, <1>7 DEF Next, Task

LEMMA LineStep == TypeOK /\ FileInv /\ LineInv /\ [Next]_vars => LineInv'
  <1> SUFFICES ASSUME TypeOK, FileInv, LineInv, [Next]_vars PROVE LineInv'
    OBVIOUS
  <1> USE PacketAssumption
      DEF vars, fileVars, linkVars, history, LineInv, UnderWay, NotYetSent, Sent
  <1>1. CASE Open
    BY <1>1 DEF Open
  <1>2. CASE OpenFails \/ ReadFails
    BY <1>2 DEF OpenFails, ReadFails, Return
  <1>3. CASE Read
    BY <1>3 DEF Read
  <1>4. CASE ReadsEnd
    <2>1. pos = size
      BY <1>4 DEF ReadsEnd, BytesRead, TypeOK
    <2> QED
      BY <1>4, <2>1 DEF ReadsEnd, Return
  <1>5. CASE Ask
    BY <1>5 DEF Ask
  <1>6. CASE AskAgain
    <2>1. pc = "verify" /\ pc' = "resent" /\ UNCHANGED <<fileVars, history>>
      BY <1>6 DEF AskAgain
    <2> QED
      BY <2>1
  <1>7. CASE PromptSeen
    BY <1>7 DEF PromptSeen
  <1>8. CASE PollAgain
    BY <1>8 DEF PollAgain
  <1>9. CASE PromptMissing
    BY <1>9 DEF PromptMissing, Return
  <1>10. CASE SendPacket \/ SendAgain
    <2>1. mode' = "cmd" /\ UNCHANGED fileVars
      BY <1>10 DEF SendPacket, SendAgain, Payload
    <2>2. frame.to = pos /\ frame.from < frame.to
      BY <1>10 DEF SendPacket, SendAgain, FileInv
    <2>3. sentTo' = pos
      BY <1>10, <2>2 DEF SendPacket, SendAgain, Payload
    <2>4. pc' \in {"verify", "check"}
      BY <1>10 DEF SendPacket, SendAgain
    <2> QED
      BY <2>1, <2>3, <2>4
  <1>11. CASE Verified
    <2>1. pc = "verify" /\ pc' = "check" /\ UNCHANGED <<fileVars, mode, history>>
      BY <1>11 DEF Verified
    <2> QED
      BY <2>1
  <1>12. CASE AskAgainEnds \/ Check
    BY <1>12 DEF AskAgainEnds, Check
  <1>13. CASE ModemAnswers \/ ModemStaysSilent \/ UNCHANGED vars
    BY <1>13 DEF ModemAnswers, ModemStaysSilent
  <1> QED
    BY <1>1, <1>2, <1>3, <1>4, <1>5, <1>6, <1>7, <1>8, <1>9, <1>10, <1>11, <1>12, <1>13
       DEF Next, Task

LEMMA OrderStep == TypeOK /\ FileInv /\ LineInv /\ OrderInv /\ [Next]_vars => OrderInv'
  <1> SUFFICES ASSUME TypeOK, FileInv, LineInv, OrderInv, [Next]_vars PROVE OrderInv'
    OBVIOUS
  <1> USE DEF vars, fileVars, linkVars, history, UnderWay, NotYetSent, Sent
  <1>1. CASE Open
    BY <1>1 DEF Open, OrderInv
  <1>2. CASE OpenFails \/ ReadsEnd \/ ReadFails
    <2>1. pc' = "idle" /\ UNCHANGED <<fileVars, history>>
      BY <1>2 DEF OpenFails, ReadsEnd, ReadFails, Return
    <2> QED
      BY <2>1 DEF OrderInv
  <1>3. CASE Read
    <2>1. got.frame.sn \in Nat /\ curSn \in Nat \ {0}
      BY DEF TypeOK, Frames
    <2>2. new = 1 => got.frame.sn = 0
      BY <1>3 DEF Read, OrderInv, NoFrame
    <2>3. got.frame.sn < frame'.sn /\ frame'.sn = curSn' - 1 /\ frame'.sn > 0
      BY <1>3, <2>1, <2>2 DEF Read, OrderInv, TypeOK
    <2>4. pc' = "ask" /\ new' = 0 /\ UNCHANGED <<size, got>>
      BY <1>3 DEF Read, linkVars
    <2> QED
      BY <2>3, <2>4 DEF OrderInv
  <1>4. CASE Ask
    BY <1>4 DEF Ask, OrderInv
  <1>5. CASE PromptSeen \/ PollAgain
    BY <1>5 DEF PromptSeen, PollAgain, OrderInv
  <1>6. CASE PromptMissing
    BY <1>6 DEF PromptMissing, Return, OrderInv
  <1>7. CASE SendPacket
    <2>1. got.frame.sn < frame.sn /\ new = 0 /\ frame.sn = curSn - 1 /\ frame.sn > 0
          /\ got.frame.sn \in Nat /\ frame.sn \in Nat
      BY <1>7 DEF SendPacket, OrderInv, TypeOK, Frames
    <2>2. got.frame # frame
      BY <2>1
    <2>3. got' = [frame |-> frame, copies |-> 1] \/ got' = got
      BY <1>7, <2>2 DEF SendPacket, Payload
    <2>4. pc' = "verify" /\ UNCHANGED <<size, pos, new, frame, curSn>>
      BY <1>7 DEF SendPacket, fileVars
    <2>5. frame.end = "ETX" <=> frame.to = size
      BY <1>7 DEF SendPacket, FileInv
    <2> QED
      BY <2>1, <2>3, <2>4, <2>5 DEF OrderInv
  <1>8. CASE Verified \/ AskAgain
    BY <1>8 DEF Verified, AskAgain, OrderInv
  <1>9. CASE AskAgainEnds
    BY <1>9 DEF AskAgainEnds, OrderInv
  <1>10. CASE SendAgain
    BY <1>10 DEF SendAgain, Payload, OrderInv, FileInv, TypeOK, Frames
  <1>11. CASE Check
    BY <1>11 DEF Check, OrderInv, TypeOK, Frames
  <1>12. CASE ModemAnswers \/ ModemStaysSilent \/ UNCHANGED vars
    BY <1>12 DEF ModemAnswers, ModemStaysSilent, OrderInv
  <1> QED
    BY <1>1, <1>2, <1>3, <1>4, <1>5, <1>6, <1>7, <1>8, <1>9, <1>10, <1>11, <1>12
       DEF Next, Task

LEMMA InvStep == TypeOK /\ Inv /\ [Next]_vars => Inv'
  BY FileStep, LineStep, OrderStep DEF Inv

-------------------------------------------------------------------------------
\* Multiples of the packet length.
LEMMA Multiples ==
  ASSUME NEW L \in Nat \ {0}, NEW n \in Nat
  PROVE  n * L \in Nat /\ (n + 1) * L = n * L + L /\ (n * L) % L = 0
  BY Z3

LEMMA Quotient ==
  ASSUME NEW L \in Nat \ {0}, NEW n \in Nat, NEW s \in Nat, n * L <= s, s < n * L + L
  PROVE  s \div L = n
  BY Z3

LEMMA WholeNext ==
  /\ Whole(0) = 0
  /\ \A n \in Nat : Whole(n) \in Nat /\ Whole(n + 1) = Whole(n) + PktLen /\ Whole(n) % PktLen = 0
  BY Multiples, PacketAssumption DEF Whole

\* When the last byte is read, the packets are as many as were announced.
LEMMA CountedIsAnnounced ==
  ASSUME NEW n \in Nat, NEW bytes \in Nat, Counted(n, bytes, bytes), bytes % PktLen # 0
  PROVE  TotalPackets(bytes) = n
  <1>1. bytes # Whole(n)
    BY WholeNext
  <1>2. n > 0 /\ Whole(n - 1) < bytes /\ bytes < Whole(n)
    BY <1>1 DEF Counted
  <1>3. PICK m \in Nat : m = n - 1 /\ n = m + 1
    BY <1>2
  <1>4. Whole(m) < bytes /\ bytes < Whole(m) + PktLen /\ Whole(m) \in Nat
    BY <1>2, <1>3, WholeNext
  <1>5. PktLen \in Nat \ {0} /\ m * PktLen <= bytes /\ bytes < m * PktLen + PktLen
    BY <1>4, PacketAssumption DEF Whole
  <1>6. bytes \div PktLen = m
    BY <1>5, Quotient
  <1> QED
    BY <1>3, <1>6 DEF TotalPackets

\* A packet is read from the file.
LEMMA CountedNext ==
  ASSUME NEW n \in Nat, NEW p \in Nat, NEW bytes \in Nat, NEW read \in Nat \ {0},
         Counted(n, p, bytes), p + read <= bytes,
         read = PktLen \/ (read < PktLen /\ p + read = bytes)
  PROVE  Counted(n + 1, p + read, bytes)
  <1>1. p = Whole(n)
    BY DEF Counted
  <1>2. Whole(n) \in Nat /\ Whole(n + 1) = Whole(n) + PktLen /\ PktLen \in Nat
    BY WholeNext, PacketAssumption
  <1>3. n + 1 > 0 /\ (n + 1) - 1 = n
    OBVIOUS
  <1>4. CASE read = PktLen
    BY <1>1, <1>2, <1>4 DEF Counted
  <1>5. CASE read < PktLen /\ p + read = bytes
    BY <1>1, <1>2, <1>3, <1>5 DEF Counted
  <1> QED
    BY <1>4, <1>5

LEMMA CountStep == TypeOK /\ OrderInv /\ CountInv /\ [Next]_vars => CountInv'
  <1> SUFFICES ASSUME TypeOK, OrderInv, CountInv, [Next]_vars PROVE CountInv'
    OBVIOUS
  <1> USE DEF vars, fileVars, linkVars, history, UnderWay
  <1>t. size \in Nat /\ pos \in Nat /\ pos <= size /\ curSn \in Nat \ {0} /\ PktLen \in Nat \ {0}
    BY PacketAssumption DEF TypeOK
  <1>a. ASSUME pc' # "idle" \/ result' # 0
        PROVE  AnnouncedIsSent'
    BY <1>a DEF AnnouncedIsSent
  <1>1. CASE Open
    <2>1. pc' = "read" /\ pos' = 0 /\ announced' = TotalPackets(size') /\ new' = 1
      BY <1>1 DEF Open
    <2> QED
      BY <2>1, <1>a DEF CountInv
  <1>2. CASE OpenFails \/ ReadFails
    <2>1. pc' = "idle" /\ result' = -1
      BY <1>2 DEF OpenFails, ReadFails, Return
    <2> QED
      BY <2>1, <1>a DEF CountInv
  <1>3. CASE Read
    <2>1. BytesRead \in Nat \ {0} /\ pos + BytesRead <= size
          /\ (BytesRead = PktLen \/ (BytesRead < PktLen /\ pos + BytesRead = size))
      BY <1>3, <1>t DEF Read, BytesRead
    <2>2. PICK n \in Nat : curSn' = n + 2 /\ Counted(n, pos, size)
      <3>1. CASE new = 1
        <4>1. pos = 0 /\ curSn' = 0 + 2
          BY <1>3, <3>1 DEF Read, CountInv
        <4>2. Counted(0, pos, size)
          BY <4>1, WholeNext DEF Counted
        <4> QED
          BY <4>1, <4>2
      <3>2. CASE new # 1
        <4>1. new = 0 /\ curSn' = curSn + 1
          BY <1>3, <3>2 DEF Read, TypeOK
        <4>2. Counted(curSn - 1, pos, size)
          BY <1>3, <4>1 DEF Read, CountInv
        <4>3. curSn - 1 \in Nat /\ curSn' = (curSn - 1) + 2
          BY <1>t, <4>1
        <4> QED
          BY <4>2, <4>3
      <3> QED
        BY <3>1, <3>2
    <2>3. Counted(n + 1, pos + BytesRead, size)
      BY <1>t, <2>1, <2>2, CountedNext
    <2>4. pos' = pos + BytesRead /\ size' = size /\ pc' = "ask" /\ announced' = announced
      BY <1>3 DEF Read
    <2>5. curSn' - 1 = n + 1
      BY <2>2
    <2>6. announced' = TotalPackets(size')
      BY <1>3, <2>4 DEF Read, CountInv
    <2> QED
      BY <2>3, <2>4, <2>5, <2>6, <1>a DEF CountInv
  <1>4. CASE ReadsEnd
    <2>1. pc = "read" /\ pc' = "idle" /\ pos = size /\ UNCHANGED fileVars
      BY <1>4, <1>t DEF ReadsEnd, BytesRead, Return
    <2>2. size % PktLen # 0 => announced = curSn - 1
      <3> SUFFICES ASSUME size % PktLen # 0
                   PROVE  announced = curSn - 1
        OBVIOUS
      <3>1. new = 0
        <4>1. Whole(0) % PktLen = 0 /\ Whole(0) = 0
          BY WholeNext
        <4>2. size # 0
          BY <4>1
        <4> QED
          BY <2>1, <4>2 DEF CountInv, TypeOK
      <3>2. Counted(curSn - 1, size, size) /\ announced = TotalPackets(size)
        BY <2>1, <3>1 DEF CountInv
      <3>3. curSn - 1 \in Nat
        BY <1>t
      <3> QED
        BY <1>t, <3>2, <3>3, CountedIsAnnounced
    <2> QED
      BY <2>1, <2>2 DEF CountInv, AnnouncedIsSent
  <1>5. CASE Check
    <2>1. pc = "check" /\ pc' = "read" /\ UNCHANGED fileVars /\ new = 0
      BY <1>5 DEF Check, OrderInv
    <2> QED
      BY <2>1, <1>a DEF CountInv
  <1>6. ASSUME pc \in UnderWay, UNCHANGED fileVars,
               pc' \in UnderWay \/ (pc' = "idle" /\ result' = -1)
        PROVE  CountInv'
    BY <1>6, <1>a DEF CountInv
  <1>7. CASE Ask \/ AskAgain
    <2>1. pc \in UnderWay /\ pc' \in UnderWay /\ UNCHANGED fileVars
      BY <1>7 DEF Ask, AskAgain
    <2> QED
      BY <2>1, <1>6
  <1>8. CASE PromptSeen \/ PollAgain \/ PromptMissing
    <2>1. pc \in UnderWay /\ UNCHANGED fileVars /\ (pc' \in UnderWay \/ (pc' = "idle" /\ result' = -1))
      BY <1>8 DEF PromptSeen, PollAgain, PromptMissing, Return
    <2> QED
      BY <2>1, <1>6
  <1>9. CASE SendPacket \/ Verified \/ AskAgainEnds \/ SendAgain
    <2>1. pc \in UnderWay /\ pc' \in UnderWay /\ UNCHANGED fileVars
      BY <1>9 DEF SendPacket, Verified, AskAgainEnds, SendAgain
    <2> QED
      BY <2>1, <1>6
  <1>10. CASE ModemAnswers \/ ModemStaysSilent \/ UNCHANGED vars
    <2>1. UNCHANGED <<pc, fileVars, result>>
      BY <1>10 DEF ModemAnswers, ModemStaysSilent
    <2> QED
      BY <2>1 DEF CountInv, AnnouncedIsSent
  <1> QED
    BY <1>1, <1>2, <1>3, <1>4, <1>5, <1>7, <1>8, <1>9, <1>10 DEF Next, Task

LEMMA CountInit == Init => CountInv
  BY DEF Init, CountInv, AnnouncedIsSent, UnderWay

-------------------------------------------------------------------------------
LEMMA Invariance == Spec => [](TypeOK /\ Inv /\ CountInv)
  <1>1. Inv => OrderInv
    BY DEF Inv
  <1> QED
    BY <1>1, TypeInit, TypeStep, InvInit, InvStep, CountInit, CountStep, PTL DEF Spec

\* For every picture whose size is no multiple of TRANS_CONTENT_LEN: the packets that an
\* upload sends are as many as each of them announces (UpdateFrameContentData).
THEOREM AnnouncedIsSentAlways == Spec => []AnnouncedIsSent
  <1>1. CountInv => AnnouncedIsSent
    BY DEF CountInv
  <1> QED
    BY <1>1, Invariance, PTL

\* For every picture: ETX is on the packet that ends the picture and on no other that the
\* server gets (UpdateFrameContentData).
THEOREM EndMarkHonestAlways == Spec => []EndMarkHonest
  <1>1. Inv => EndMarkHonest
    BY DEF Inv, OrderInv, EndMarkHonest
  <1> QED
    BY <1>1, Invariance, PTL

\* For every picture: SendPictureToServer returns 0 only after its last byte has been sent.
THEOREM CompleteUploadAlways == Spec => []CompleteUpload
  <1>1. Inv => CompleteUpload
    BY DEF Inv, LineInv, CompleteUpload
  <1> QED
    BY <1>1, Invariance, PTL

\* For every modem: after an upload that returns 0 the modem takes AT commands again.
THEOREM ModemAwaitsCommandsAlways == Spec => []ModemAwaitsCommands
  <1>1. Inv => ModemAwaitsCommands
    BY DEF Inv, LineInv, ModemAwaitsCommands
  <1> QED
    BY <1>1, Invariance, PTL

\* For every modem and picture: packets arrive in order, and the resend of
\* gprs_send_string_len can repeat only a packet whose number ends like the second's, once.
THEOREM InOrderOnceAlways == Spec => InOrderOnce
  <1> DEFINE Orderly ==
        got' # got /\ got'.copies > 0 =>
          \/ got'.frame.sn > got.frame.sn
          \/ got'.frame = got.frame /\ got.frame.sn % LowByte = 2 /\ got'.copies = 2
  <1>1. TypeOK /\ Inv /\ [Next]_vars => [Orderly]_vars
    <2> SUFFICES ASSUME TypeOK, Inv, [Next]_vars PROVE Orderly
      OBVIOUS
    <2>1. CASE SendPacket
      BY <2>1 DEF SendPacket, Payload, Inv, OrderInv, NotYetSent, TypeOK, Frames
    <2>2. CASE SendAgain
      <3>1. frame.sn % LowByte = 2
        BY <2>2 DEF SendAgain, Inv, OrderInv
      <3>2. \/ got.frame.sn < frame.sn
            \/ got.frame = frame /\ got.copies = 1
        BY <2>2 DEF SendAgain, Inv, OrderInv, Sent, TypeOK, Frames
      <3>3. got' # got => got'.frame = frame
                          /\ got'.copies = IF got.frame = frame THEN got.copies + 1 ELSE 1
        BY <2>2 DEF SendAgain, Payload
      <3> QED
        BY <3>1, <3>2, <3>3 DEF TypeOK, Frames
    <2>3. CASE Open
      BY <2>3 DEF Open
    <2>4. CASE ~(SendPacket \/ SendAgain \/ Open)
      <3>1. UNCHANGED got
        BY <2>4 DEF Next, Task, OpenFails, Read, ReadsEnd, ReadFails, Ask, PromptSeen,
                    PollAgain, PromptMissing, Verified, AskAgain, AskAgainEnds, Check,
                    ModemAnswers, ModemStaysSilent, vars, history
      <3> QED
        BY <3>1
    <2> QED
      BY <2>1, <2>2, <2>3, <2>4
  <1> QED
    BY <1>1, Invariance, PTL DEF Spec, InOrderOnce
-------------------------------------------------------------------------------
(* What makes every upload end.                                            *)

\* The places of a packet, counted down to the next read and to the return.
Phase ==
  CASE pc = "ask" -> 8 [] pc = "prompt" -> 7 [] pc = "payload" -> 6 [] pc = "verify" -> 5
    [] pc = "resent" -> 4 [] pc = "again" -> 3 [] pc = "check" -> 2 [] pc = "read" -> 1
    [] OTHER -> 0

\* What an upload has left: bytes of the file, places of the packet under way, polls.
UploadRank == <<size - pos, Phase, polls>>

\* The lexicographic order of such triples.
LexLess(a, b) ==
  \/ a[1] < b[1]
  \/ a[1] = b[1] /\ a[2] < b[2]
  \/ a[1] = b[1] /\ a[2] = b[2] /\ a[3] < b[3]

RankNatural == \A k \in 1 .. 3 : UploadRank[k] \in Nat

\* A step of the upload takes it down, a step of the modem leaves it alone.
UploadAdvances ==
  [][pc # "idle" => IF Task THEN LexLess(UploadRank', UploadRank)
                            ELSE UploadRank' = UploadRank]_vars

LEMMA RankStep ==
  ASSUME TypeOK, Next, pc # "idle"
  PROVE  IF Task THEN LexLess(UploadRank', UploadRank) ELSE UploadRank' = UploadRank
<1> USE DEF UploadRank, LexLess, Phase, fileVars, linkVars, history
<1>0. size \in Nat /\ pos \in Nat /\ pos <= size /\ polls \in Nat /\ PktLen \in Nat \ {0}
  BY PacketAssumption, LinkAssumption DEF TypeOK
<1>1. ASSUME Task PROVE LexLess(UploadRank', UploadRank)
  <2>1. CASE Open \/ OpenFails
    BY <2>1 DEF Open, OpenFails
  <2>2. CASE Read
    <3>1. BytesRead \in 1 .. size - pos
      BY <1>0, <2>2 DEF Read, BytesRead
    <3>2. size' = size /\ pos' = pos + BytesRead
      BY <2>2 DEF Read
    <3>3. size' - pos' < size - pos
      BY <1>0, <3>1, <3>2
    <3> QED
      BY <3>3
  <2>3. CASE ReadsEnd \/ ReadFails
    BY <1>0, <2>3 DEF ReadsEnd, ReadFails, Return
  <2>4. CASE Ask
    BY <1>0, <2>4 DEF Ask
  <2>5. CASE PromptSeen
    BY <1>0, <2>5 DEF PromptSeen
  <2>6. CASE PollAgain
    BY <1>0, <2>6 DEF PollAgain
  <2>7. CASE PromptMissing
    BY <1>0, <2>7 DEF PromptMissing, Return
  <2>8. CASE SendPacket
    BY <1>0, <2>8 DEF SendPacket
  <2>9. CASE Verified
    BY <1>0, <2>9 DEF Verified
  <2>10. CASE AskAgain
    BY <1>0, <2>10 DEF AskAgain
  <2>11. CASE AskAgainEnds
    BY <1>0, <2>11 DEF AskAgainEnds
  <2>12. CASE SendAgain
    BY <1>0, <2>12 DEF SendAgain
  <2>13. CASE Check
    BY <1>0, <2>13 DEF Check
  <2> QED
    BY <1>1, <2>1, <2>2, <2>3, <2>4, <2>5, <2>6, <2>7, <2>8, <2>9, <2>10, <2>11, <2>12, <2>13
    DEF Task
<1>2. ASSUME ~Task PROVE UploadRank' = UploadRank
  BY <1>2 DEF Next, ModemAnswers, ModemStaysSilent
<1> QED
  BY <1>1, <1>2

\* No upload goes on for ever, whatever modem and server do: each step of
\* SendPictureToServer takes what it has left down in a well-founded order (bytes of the
\* file, places of the packet, polls), the resend of the second packet included.
THEOREM UploadRunsDown == Spec => []RankNatural /\ UploadAdvances
<1>1. TypeOK => RankNatural
  <2> SUFFICES ASSUME TypeOK PROVE RankNatural
    OBVIOUS
  <2>1. size \in Nat /\ pos \in 0 .. size /\ polls \in Nat
    BY PacketAssumption, LinkAssumption DEF TypeOK
  <2>2. Phase \in Nat
    BY DEF Phase
  <2> QED
    BY <2>1, <2>2 DEF RankNatural, UploadRank
<1>2. TypeOK /\ [Next]_vars =>
        [pc # "idle" => IF Task THEN LexLess(UploadRank', UploadRank)
                                ELSE UploadRank' = UploadRank]_vars
  BY RankStep
<1> QED
  BY <1>1, <1>2, UploadTypeCorrect, PTL DEF Spec, UploadAdvances
===============================================================================
