------------------------------- MODULE RtcAlarm -------------------------------
(***************************************************************************)
(* The alarm arithmetic of HARDWARE/SD3078/sd3078rtc.c.  The SD3078 clock  *)
(* keeps its minute in BCD, and SetNextFiveMinuteAlarm works on both the   *)
(* binary and the BCD form of it.  Alarm registers are bytes; an alarm     *)
(* fires in the minute whose BCD form equals the register, so a register   *)
(* that is not the BCD of a minute never fires.                            *)
(***************************************************************************)
EXTENDS Integers

Minutes == 0 .. 59

\* The byte the clock holds for the binary minute m.
ToBCD(m) == (m \div 10) * 16 + (m % 10)

\* Mutants of LastMinuteOfSlot: the next slot's last minute; the slot's first minute after.
LastMinuteOfNextSlot(m) == ((m \div 5) + 2) * 5 - 1
MinuteAfterSlot(m) == ((m \div 5) + 1) * 5

\* Last minute of the five-minute slot that holds minute m: ((m / 5) + 1) * 5 - 1.
LastMinuteOfSlot(m) == ((m \div 5) + 1) * 5 - 1

\* SetNextFiveMinuteAlarm: the byte written to the alarm's minute register.
\* In the last minute of a slot the code moves on to the next slot by adding
\* 5 to the BCD byte.
NextAlarm(m) ==
  LET byte == ToBCD(LastMinuteOfSlot(m))
  IN  IF ToBCD(m) >= byte
        THEN IF byte < 89 THEN byte + 5 ELSE 4
        ELSE byte

\* An alarm byte that some minute of the hour matches.
Fires(byte) == \E m \in Minutes : ToBCD(m) = byte
===============================================================================
