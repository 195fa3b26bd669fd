------------------------------ MODULE QueryPackets ------------------------------
(***************************************************************************)
(* The answer to a time-period query (protocol.c, test_SendTimePeriodData):*)
(* receive_command counts the hours of the period, finds the first record  *)
(* in the flash and sends packets of up to twelve hours of records.        *)
(*                                                                         *)
(* Both the count and the address use the month table of memory_my.c, in   *)
(* which February is set for the year at hand. basic_message_task, whose   *)
(* priority is higher, sets it for the current year whenever it stores a   *)
(* sample, between any two steps of the answer.                            *)
(***************************************************************************)
EXTENDS FlashRecords, Sequences

CONSTANTS
  Now,       \* the year the clock shows
  Periods    \* the queries the centre may send

ASSUME NowAssumption == Now \in 0 .. 99

\* The times a query names: full hours.
Hours == {d \in Dates : d.minute = 0}

\* A query names its first hour, the hour after its last, and an element; "other" stands
\* for the elements the station does not store.
ASSUME PeriodsAssumption ==
  Periods \subseteq [first : Hours, last : Hours, kind : Kinds \union {"other"}]

VARIABLES
  pc,       \* where receive_command is in the answer
  query,    \* the query being answered
  feb,      \* s_monthday[1]
  hours,    \* hour_groups
  i,        \* the number of the next packet
  addr,     \* read_address
  sent      \* the packets of the answer so far

vars == <<pc, query, feb, hours, i, addr, sent>>

-------------------------------------------------------------------------------
(* Arithmetic *)

HoursPerPacket == 12

\* The bytes of so many hours: twelve records each.
Bytes(kind, n) == n * 12 * RecordLen(kind)

MonthIntervalShort(first, last) == (last.month - first.month - 2) % 256

\* month_interval, an unsigned char: the whole months between first and last.
MonthInterval(first, last) == (last.month - first.month - 1) % 256

\* The loop over these months counts in an unsigned char too, and cannot end beyond 255.
CountEnds(first, last) == first.month = last.month \/ first.month + MonthInterval(first, last) < 256

\* GetHourGroupsByTimperiod, for a period that its loop can count. Within one day an end at hour 0 is taken for hour 24.
HourGroups(first, last, f) ==
  IF first.month # last.month
    THEN (DaysBefore(f)[last.month] - DaysBefore(f)[first.month] - MonthDays(f)[first.month]) * 24
         + (MonthDays(f)[first.month] - first.day) * 24 + 24 - first.hour
         + (last.day - 1) * 24 + last.hour
  ELSE IF first.day # last.day
    THEN (last.day - first.day - 1) * 24 + 24 - first.hour + last.hour
  ELSE (IF last.hour = 0 THEN 24 ELSE last.hour) - first.hour

\* hour_groups is unsigned: a negative sum is some four thousand million hours.
Countable(first, last, f) == CountEnds(first, last) /\ HourGroups(first, last, f) >= 0

\* The packets that hold twelve hours, and the hours left for a shorter one.
FullPackets == hours \div HoursPerPacket
Remainder == hours % HoursPerPacket
TotalRoundedUp == FullPackets + 1
TotalPackets == IF hours <= HoursPerPacket THEN 1
                ELSE FullPackets + (IF Remainder # 0 THEN 1 ELSE 0)

\* The record bytes a full packet of a longer answer announces: as for rainfall.
AnnouncedFull == Bytes("rain", HoursPerPacket)

\* A packet: its number and their count, the records read, and the record bytes that its
\* length field tells.
Packet(sn, from, len, announced) ==
  [sn |-> sn, total |-> TotalPackets, addr |-> from, len |-> len, announced |-> announced]

-------------------------------------------------------------------------------
(* receive_command *)

Init ==
  /\ pc = "idle" /\ query \in Periods /\ feb = 28
  /\ hours = 0 /\ i = 1 /\ addr = 0 /\ sent = << >>

\* A query arrives.
Receive ==
  /\ pc = "idle"
  /\ query' \in Periods
  /\ pc' = "days" /\ hours' = 0 /\ i' = 1 /\ addr' = 0 /\ sent' = << >>
  /\ UNCHANGED feb

\* GetMonthDays sets February for the year of the query.
SetFebruary ==
  /\ pc = "days"
  /\ feb' = Feb(query.first.year) /\ pc' = "count"
  /\ UNCHANGED <<query, hours, i, addr, sent>>

\* It copies the table, from which the hours are counted.
CountHours ==
  /\ pc = "count" /\ Countable(query.first, query.last, feb)
  /\ hours' = HourGroups(query.first, query.last, feb)
  /\ pc' = IF query.kind \in Kinds THEN "leap" ELSE "idle"
  /\ UNCHANGED <<query, feb, i, addr, sent>>

\* The count never ends, or wraps: then packets would go out for years.
CountGoesWrong ==
  /\ pc = "count" /\ ~Countable(query.first, query.last, feb)
  /\ pc' = "lost"
  /\ UNCHANGED <<query, feb, hours, i, addr, sent>>

\* GetAddress sets February again.
SetFebruaryAgain ==
  /\ pc = "leap"
  /\ feb' = Feb(query.first.year) /\ pc' = "address"
  /\ UNCHANGED <<query, hours, i, addr, sent>>

\* It sums the months.
FindAddress ==
  /\ pc = "address"
  /\ addr' = Address(query.first, query.kind, feb) /\ pc' = "send"
  /\ UNCHANGED <<query, feb, hours, i, sent>>

\* Up to twelve hours are one packet.
SendOnly ==
  /\ pc = "send" /\ hours <= HoursPerPacket
  /\ sent' = <<Packet(1, addr, Bytes(query.kind, hours), Bytes(query.kind, hours))>>
  /\ pc' = "idle"
  /\ UNCHANGED <<query, feb, hours, i, addr>>

\* A packet of twelve hours. The address moves by i - 1 packets.
SendFull ==
  /\ pc = "send" /\ hours > HoursPerPacket /\ i <= FullPackets
  /\ addr' = addr + (i - 1) * Bytes(query.kind, HoursPerPacket)
  /\ sent' = Append(sent, Packet(i, addr', Bytes(query.kind, HoursPerPacket), AnnouncedFull))
  /\ i' = i + 1
  /\ UNCHANGED <<pc, query, feb, hours>>

SendRestFromOldAddress ==
  /\ pc = "send" /\ hours > HoursPerPacket /\ i > FullPackets /\ Remainder # 0
  /\ sent' = Append(sent, Packet(i, addr, Bytes(query.kind, Remainder), Bytes(query.kind, Remainder)))
  /\ pc' = "idle"
  /\ UNCHANGED <<query, feb, hours, i, addr>>

SendRestWithOldLength ==
  /\ pc = "send" /\ hours > HoursPerPacket /\ i > FullPackets /\ Remainder # 0
  /\ addr' = addr + Bytes(query.kind, HoursPerPacket)
  /\ sent' = Append(sent, Packet(i, addr', Bytes(query.kind, Remainder), AnnouncedFull))
  /\ pc' = "idle"
  /\ UNCHANGED <<query, feb, hours, i>>

\* The packet of the remaining hours.
SendRest ==
  /\ pc = "send" /\ hours > HoursPerPacket /\ i > FullPackets /\ Remainder # 0
  /\ addr' = addr + Bytes(query.kind, HoursPerPacket)
  /\ sent' = Append(sent, Packet(i, addr', Bytes(query.kind, Remainder), Bytes(query.kind, Remainder)))
  /\ pc' = "idle"
  /\ UNCHANGED <<query, feb, hours, i>>

\* No hours remain.
SendEnds ==
  /\ pc = "send" /\ hours > HoursPerPacket /\ i > FullPackets /\ Remainder = 0
  /\ pc' = "idle"
  /\ UNCHANGED <<query, feb, hours, i, addr, sent>>

\* basic_message_task stores a sample of now, and GetAddress sets February.
Save ==
  /\ feb' = Feb(Now)
  /\ UNCHANGED <<pc, query, hours, i, addr, sent>>

Answer ==
  SetFebruary \/ CountHours \/ CountGoesWrong \/ SetFebruaryAgain \/ FindAddress
  \/ SendOnly \/ SendFull \/ SendRest \/ SendEnds

Next == Receive \/ Answer \/ Save

Spec == Init /\ [][Next]_vars

\* Between two samples, receive_command gets the CPU.
FairSpec == Spec /\ WF_vars(Answer)

-------------------------------------------------------------------------------
(* Properties *)

\* The places of the answer and the ranges of its variables: an answer never has more than
\* the packets it counted.
TypeOK ==
  /\ pc \in {"idle", "days", "count", "lost", "leap", "address", "send"}
  /\ query \in Periods /\ feb \in 28 .. 29
  /\ hours \in Nat /\ addr \in Nat
  /\ i \in 1 .. FullPackets + 1
  /\ Len(sent) <= TotalPackets

\* The count and the address of a query within one year do not depend on the current year.
SameFebruary(q) == Feb(q.first.year) = Feb(Now) \/ q.last.month <= 2

\* The address after the last record of a query: midnight at the end of the day when first
\* and last are on one day.
LastAddress(q) ==
  LET midnight == q.last.hour = 0 /\ q.last.day = q.first.day /\ q.last.month = q.first.month
  IN  Address(q.last, q.kind, Feb(q.last.year))
      + (IF midnight THEN Bytes(q.kind, 24) ELSE 0)

Answered == pc = "idle" /\ sent # << >>

\* The packets of an answer hold the records of its period, each once and in order: the
\* reads of SendTimePerioadData_upframe are adjacent from the first record to the last. The
\* code achieves that up to two full packets and a rest, within one year (the count does not
\* look at the years), and when the samples stored meanwhile are of a year with the same
\* February.
PeriodCovered ==
  Answered /\ hours <= 35 /\ query.first.year = query.last.year /\ SameFebruary(query) =>
    /\ sent[1].addr = Address(query.first, query.kind, Feb(query.first.year))
    /\ \A k \in 1 .. Len(sent) - 1 : sent[k + 1].addr = sent[k].addr + sent[k].len
    /\ sent[Len(sent)].addr + sent[Len(sent)].len = LastAddress(query)

\* The packets of an answer are numbered from 1 to the count that each of them announces
\* (total_pkts_sn), whatever the count was based on.
PacketsNumbered ==
  /\ \A k \in 1 .. Len(sent) : sent[k].sn = k /\ sent[k].total = TotalPackets
  /\ Answered => Len(sent) = TotalPackets

\* The length field of a packet (frame_id_len) counts the record bytes that follow; the
\* full packets of a long water-level answer count them as rainfall.
LengthHonest ==
  \A k \in 1 .. Len(sent) :
    \/ sent[k].announced = sent[k].len
    \/ query.kind = "water" /\ hours > HoursPerPacket /\ k <= FullPackets

\* The queries whose hours can be counted whatever the month table holds: within one year, the
\* end not before the beginning; but not always from February 29, which the month table of
\* another year may not have.
Answerable(q) ==
  /\ q.first.year = q.last.year
  /\ \/ q.first.month < q.last.month
     \/ q.first.month = q.last.month /\ q.first.day < q.last.day
     \/ /\ q.first.month = q.last.month /\ q.first.day = q.last.day
        /\ q.last.hour = 0 \/ q.first.hour <= q.last.hour
  /\ SameFebruary(q) \/ q.first.month # 2 \/ q.first.day # 29

\* Such a query is answered, and receive_command is back at its loop: GetHourGroupsByTimperiod
\* neither loops for ever nor counts a negative number of hours.
QueryReturns == (pc = "days" /\ Answerable(query)) ~> (pc = "idle")

\* Every packet but the first starts where the one before it ended (protocol.c:1160: the
\* data go out in units of twelve hours).
EveryPacketNext ==
  \A k \in 1 .. Len(sent) - 1 : sent[k + 1].addr = sent[k].addr + sent[k].len
===============================================================================
