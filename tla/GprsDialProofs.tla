---------------------------- MODULE GprsDialProofs ----------------------------
(***************************************************************************)
(* The three invariants of GPRS_4G_Init, for every number of polls and     *)
(* every behaviour of the modem.                                           *)
(***************************************************************************)
EXTENDS GprsDial, TLAPS

USE DEF vars, scriptVars, flags, linkVars, Commands, LastOfInit, LastOfNetConfig,
        LastOfConnect

\* Where the script stands tells which flags are set; and a dial without a reset has
\* added one to s_error_cnt for each attempt that failed, so that the third one resets.
DialInv ==
  /\ pc \in {"start", "send", "poll", "error", "done"}
  /\ time \in 0 .. 3 /\ cmd \in Commands
  /\ errorCnt \in 0 .. 2
  /\ resetDone \in {0, 1}
  /\ initFlag \in {0, 1} /\ netFlag \in {0, 1} /\ connectFlag \in {0, 1}
  /\ pc = "start" => initFlag = 0 /\ netFlag = 0 /\ connectFlag = 0
  /\ pc \in {"send", "poll", "error"} =>
       /\ initFlag = (IF cmd > 5 THEN 1 ELSE 0)
       /\ netFlag = (IF cmd > 10 THEN 1 ELSE 0)
       /\ connectFlag = 0
  /\ pc = "done" => ResultTellsFlags /\ FlagsInOrder /\ FailedDialHasReset
  /\ pc = "start" /\ resetDone = 0 => errorCnt + time >= 3
  /\ pc \in {"send", "poll", "error"} /\ resetDone = 0 => errorCnt + time >= 2

LEMMA DialInit == Init => DialInv
BY DEF Init, DialInv, ResultTellsFlags, FlagsInOrder, FailedDialHasReset

LEMMA DialStep == DialInv /\ [Next]_vars => DialInv'
<1> SUFFICES ASSUME DialInv, [Next]_vars PROVE DialInv'
  OBVIOUS
<1> USE DEF ResultTellsFlags, FlagsInOrder, FailedDialHasReset
<1>1. CASE Dial
  BY <1>1 DEF Dial, DialInv
<1>2. CASE Attempt
  BY <1>2 DEF Attempt, Issue, DialInv
<1>3. CASE SendCmd
  BY <1>3 DEF SendCmd, DialInv
<1>4. CASE PollMatches
  <2>1. CASE cmd = 12
    BY <1>4, <2>1 DEF PollMatches, SetFlags, DialInv
  <2>2. CASE cmd # 12
    BY <1>4, <2>2 DEF PollMatches, SetFlags, Issue, DialInv
  <2> QED
    BY <2>1, <2>2
<1>5. CASE PollWaits
  BY <1>5 DEF PollWaits, DialInv
<1>6. CASE PollTimesOut
  BY <1>6 DEF PollTimesOut, DialInv
<1>7. CASE ErrProcess
  <2>1. CASE CountError >= 3
    BY <1>7, <2>1 DEF ErrProcess, CountError, DialInv
  <2>2. CASE CountError < 3
    BY <1>7, <2>2 DEF ErrProcess, CountError, DialInv
  <2> QED
    BY <2>1, <2>2 DEF CountError, DialInv
<1>8. CASE ModemAnswers \/ ModemStaysSilent
  BY <1>8 DEF ModemAnswers, ModemStaysSilent, DialInv
<1>9. CASE UNCHANGED vars
  BY <1>9 DEF DialInv
<1> QED
  BY <1>1, <1>2, <1>3, <1>4, <1>5, <1>6, <1>7, <1>8, <1>9 DEF Next, Device

\* For every modem: connected implies configured implies initialised (the three flags that
\* decide which stage an attempt of GPRS_4G_Init runs).
THEOREM FlagsInOrderAlways == Spec => []FlagsInOrder
<1>1. DialInv => FlagsInOrder
  BY DEF DialInv, FlagsInOrder
<1> QED
  BY <1>1, DialInit, DialStep, PTL DEF Spec

\* For every modem: GPRS_4G_Init returns 0 with all flags set and -1 with all flags clear.
THEOREM ResultTellsFlagsAlways == Spec => []ResultTellsFlags
<1>1. DialInv => ResultTellsFlags
  BY DEF DialInv, ResultTellsFlags
<1> QED
  BY <1>1, DialInit, DialStep, PTL DEF Spec

\* For every modem: three failed attempts reset it, although s_error_cnt starts a dial
\* with whatever the dials before have left in it.
THEOREM FailedDialHasResetAlways == Spec => []FailedDialHasReset
<1>1. DialInv => FailedDialHasReset
  BY DEF DialInv, FailedDialHasReset
<1> QED
  BY <1>1, DialInit, DialStep, PTL DEF Spec
-------------------------------------------------------------------------------
(* Types, and what makes every dial end.                                   *)

LEMMA ScriptType ==
  ASSUME NEW c \in Commands
  PROVE  /\ Script[c].wait \in Nat /\ Script[c].tries \in 1 .. 5
         /\ AnswersTo(c) \in Seq(Answers)
<1>1. Script[c].wait \in Nat /\ Script[c].tries \in 1 .. 5
  BY WaitAssumption DEF Script
<1>2. Script[c].ack \in {"OK", "NETCLOSE", "NETOPEN", "CIPOPEN"}
  BY DEF Script
<1>3. [ack |-> "OK", of |-> c] \in Answers /\ [ack |-> Script[c].ack, of |-> c] \in Answers
  BY <1>2 DEF Answers
<1> QED
  BY <1>1, <1>3 DEF AnswersTo

\* What TypeOK says beyond DialInv.
TypeInv ==
  /\ tries \in 0 .. 5 /\ polls \in Nat
  /\ result \in {0, -1} /\ stat \in {0, 1}
  /\ matched \in Commands \cup {0}
  /\ owed \in Seq(Answers) /\ buf \subseteq Answers

LEMMA TypeStep == DialInv /\ TypeInv /\ [Next]_vars => TypeInv'
<1> SUFFICES ASSUME DialInv, TypeInv, [Next]_vars PROVE TypeInv'
  OBVIOUS
<1> USE DEF TypeInv
<1>0. cmd \in 1 .. 12
  BY DEF DialInv
<1>1. CASE Dial
  BY <1>1 DEF Dial
<1>2. CASE Attempt
  <2>1. CASE time = 0
    BY <1>2, <2>1 DEF Attempt
  <2>2. CASE time # 0
    <3>1. PICK c \in Commands : Issue(c)
      BY <1>2, <2>2 DEF Attempt
    <3>2. Script[c].tries \in 1 .. 5
      BY <3>1, ScriptType
    <3>3. tries' \in 0 .. 5 /\ polls' \in Nat
      BY <3>1, <3>2 DEF Issue
    <3> QED
      BY <1>2, <2>2, <3>3 DEF Attempt
  <2> QED
    BY <2>1, <2>2
<1>3. CASE SendCmd
  <2>1. PICK c \in Commands : c = cmd
    BY <1>0
  <2>2. AnswersTo(c) \in Seq(Answers) /\ Script[c].wait \in Nat
    BY ScriptType
  <2>3. owed \o AnswersTo(c) \in Seq(Answers)
    BY <2>2
  <2>4. owed' \in Seq(Answers)
    BY <1>3, <2>1, <2>3 DEF SendCmd
  <2>5. polls' \in Nat /\ tries' \in 0 .. 5
    BY <1>3, <2>1, <2>2 DEF SendCmd
  <2> QED
    BY <1>3, <2>4, <2>5 DEF SendCmd
<1>4. CASE PollMatches
  <2>1. matched' \in Commands
    BY <1>4 DEF PollMatches, Matches, Answers
  <2>2. CASE cmd = 12
    BY <1>4, <2>1, <2>2 DEF PollMatches
  <2>3. CASE cmd # 12
    <3>1. cmd + 1 \in Commands /\ Issue(cmd + 1)
      BY <1>0, <1>4, <2>3 DEF PollMatches
    <3>2. PICK c \in Commands : c = cmd + 1
      BY <3>1
    <3>3. Script[c].tries \in 1 .. 5
      BY ScriptType
    <3>4. tries' \in 0 .. 5 /\ polls' \in Nat
      BY <3>1, <3>2, <3>3 DEF Issue
    <3> QED
      BY <1>4, <2>1, <2>3, <3>4 DEF PollMatches
  <2> QED
    BY <2>2, <2>3
<1>5. CASE PollWaits
  BY <1>5 DEF PollWaits
<1>6. CASE PollTimesOut
  BY <1>6 DEF PollTimesOut
<1>7. CASE ErrProcess
  <2>1. owed' = <<>> \/ owed' = owed
    BY <1>7, Zenon DEF ErrProcess
  <2>2. owed' \in Seq(Answers)
    <3>1. CASE owed' = <<>>
      BY <3>1
    <3>2. CASE owed' = owed
      BY <3>2 DEF TypeInv
    <3> QED
      BY <2>1, <3>1, <3>2
  <2>3. UNCHANGED <<tries, polls, result, stat, matched, buf>>
    BY <1>7, Zenon DEF ErrProcess
  <2> QED
    BY <2>2, <2>3
<1>8. CASE ModemAnswers
  <2>1. Head(owed) \in Answers /\ Tail(owed) \in Seq(Answers)
    BY <1>8 DEF ModemAnswers
  <2>2. [Head(owed) EXCEPT !.ack = "ERROR"] \in Answers
    BY <2>1 DEF Answers
  <2>3. PICK a \in Answers : Receive(a)
    BY <1>8, <2>1, <2>2 DEF ModemAnswers
  <2>4. buf' \subseteq Answers /\ stat' = 1
    BY <2>3 DEF Receive
  <2> QED
    BY <1>8, <2>1, <2>4 DEF ModemAnswers
<1>9. CASE ModemStaysSilent
  BY <1>9 DEF ModemStaysSilent
<1>10. CASE UNCHANGED vars
  BY <1>10
<1> QED
  BY <1>1, <1>2, <1>3, <1>4, <1>5, <1>6, <1>7, <1>8, <1>9, <1>10 DEF Next, Device

LEMMA TypeInit == Init => TypeInv
BY DEF Init, TypeInv

\* For every modem the variables of a dial keep their types: no count of tries, polls or
\* errors goes below zero (the code's are unsigned char), none of the script's commands
\* is sent beyond the twelfth.
THEOREM DialTypeCorrect == Spec => []TypeOK
<1>1. DialInv /\ TypeInv => TypeOK
  BY DEF DialInv, TypeInv, TypeOK
<1> QED
  BY <1>1, DialInit, DialStep, TypeInit, TypeStep, PTL DEF Spec

\* The place of a dial, counted down within a try and after the last one.
Phase ==
  CASE pc = "poll" -> 3 [] pc \in {"send", "error"} -> 2 [] pc = "start" -> 1 [] OTHER -> 0

\* What a dial has left: attempts, commands, tries, the rest of a try, polls.
DialRank == <<time, 12 - cmd, tries, Phase, polls>>

\* The lexicographic order of such lists.
LexLess(a, b) ==
  \/ a[1] < b[1]
  \/ a[1] = b[1] /\ a[2] < b[2]
  \/ a[1] = b[1] /\ a[2] = b[2] /\ a[3] < b[3]
  \/ a[1] = b[1] /\ a[2] = b[2] /\ a[3] = b[3] /\ a[4] < b[4]
  \/ a[1] = b[1] /\ a[2] = b[2] /\ a[3] = b[3] /\ a[4] = b[4] /\ a[5] < b[5]

RankNatural == \A k \in 1 .. 5 : DialRank[k] \in Nat

\* A step of the dial takes it down, a step of the modem leaves it alone.
DialAdvances ==
  [][pc # "done" => IF Device THEN LexLess(DialRank', DialRank) ELSE DialRank' = DialRank]_vars

LEMMA RankStep ==
  ASSUME DialInv, TypeInv, Next, pc # "done"
  PROVE  IF Device THEN LexLess(DialRank', DialRank) ELSE DialRank' = DialRank
<1> USE DEF DialRank, LexLess, Phase
<1>0. /\ cmd \in 1 .. 12 /\ time \in 0 .. 3 /\ tries \in 0 .. 5 /\ polls \in Nat
      /\ pc \in {"start", "send", "poll", "error"}
  BY DEF DialInv, TypeInv
<1>1. ASSUME Device PROVE LexLess(DialRank', DialRank)
  <2>1. CASE Dial
    BY <2>1 DEF Dial
  <2>2. CASE Attempt
    <3>1. CASE time = 0
      BY <1>0, <2>2, <3>1 DEF Attempt
    <3>2. CASE time # 0
      BY <1>0, <2>2, <3>2 DEF Attempt
    <3> QED
      BY <3>1, <3>2
  <2>3. CASE SendCmd
    BY <1>0, <2>3 DEF SendCmd
  <2>4. CASE PollMatches
    <3>1. CASE cmd = 12
      BY <1>0, <2>4, <3>1 DEF PollMatches
    <3>2. CASE cmd # 12
      BY <1>0, <2>4, <3>2 DEF PollMatches, Issue
    <3> QED
      BY <3>1, <3>2
  <2>5. CASE PollWaits
    BY <1>0, <2>5 DEF PollWaits
  <2>6. CASE PollTimesOut
    BY <1>0, <2>6 DEF PollTimesOut
  <2>7. CASE ErrProcess
    BY <1>0, <2>7 DEF ErrProcess
  <2> QED
    BY <1>1, <2>1, <2>2, <2>3, <2>4, <2>5, <2>6, <2>7 DEF Device
<1>2. ASSUME ~Device PROVE DialRank' = DialRank
  BY <1>2 DEF Next, ModemAnswers, ModemStaysSilent
<1> QED
  BY <1>1, <1>2

\* No dial goes on for ever, whatever the modem does: each step of GPRS_4G_Init takes what it
\* has left down in a well-founded order (attempts, commands, tries, polls), also where a late
\* answer lets it skip polls or a new attempt begins the script again.
THEOREM DialRunsDown == Spec => []RankNatural /\ DialAdvances
<1>1. DialInv /\ TypeInv => RankNatural
  BY DEF DialInv, TypeInv, RankNatural, DialRank, Phase
<1>2. DialInv /\ TypeInv /\ [Next]_vars =>
        [pc # "done" => IF Device THEN LexLess(DialRank', DialRank) ELSE DialRank' = DialRank]_vars
  BY RankStep
<1> QED
  BY <1>1, <1>2, DialInit, DialStep, TypeInit, TypeStep, PTL DEF Spec, DialAdvances
===============================================================================
