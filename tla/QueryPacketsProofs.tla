-------------------------- MODULE QueryPacketsProofs ---------------------------
(***************************************************************************)
(* Every five minutes of every year of this century have a record of their *)
(* own, inside their region and clear of the station's parameters; and the *)
(* packets of the answer to a time-period query are numbered as they       *)
(* announce, for every set of queries and whatever the month table holds.  *)
(***************************************************************************)
EXTENDS QueryPackets, TLAPS

\* The date of a record: its minute is a multiple of 5.
Slots == {d \in Dates : d.minute % 5 = 0}

\* The day of the year, from 0.
DayOf(date, f) == DaysBefore(f)[date.month] + date.day - 1

LEMMA FebType == \A year : Feb(year) \in 28 .. 29
  BY DEF Feb

\* A month's sum is that of the month before it and its days: DaysBefore is what the loop
\* of GetAddress adds up.
LEMMA MonthsAddUp ==
  ASSUME NEW f \in 28 .. 29, NEW m \in 1 .. 11
  PROVE  DaysBefore(f)[m + 1] = DaysBefore(f)[m] + MonthDays(f)[m]
  <1>1. m = 1 \/ m = 2 \/ m = 3 \/ m = 4 \/ m = 5 \/ m = 6 \/ m = 7 \/ m = 8 \/ m = 9
        \/ m = 10 \/ m = 11
    OBVIOUS
  <1> QED
    BY <1>1 DEF DaysBefore, MonthDays

\* Months do not overlap, and the last one ends with the year.
LEMMA MonthsApart ==
  ASSUME NEW f \in 28 .. 29, NEW m \in 1 .. 12
  PROVE  /\ DaysBefore(f)[m] \in Nat /\ MonthDays(f)[m] \in 28 .. 31
         /\ DaysBefore(f)[m] + MonthDays(f)[m] <= 337 + f
         /\ \A n \in 1 .. 12 : m < n => DaysBefore(f)[m] + MonthDays(f)[m] <= DaysBefore(f)[n]
  <1>1. m = 1 \/ m = 2 \/ m = 3 \/ m = 4 \/ m = 5 \/ m = 6 \/ m = 7 \/ m = 8 \/ m = 9
        \/ m = 10 \/ m = 11 \/ m = 12
    OBVIOUS
  <1>2. /\ DaysBefore(f)[m] \in Nat /\ MonthDays(f)[m] \in 28 .. 31
        /\ DaysBefore(f)[m] + MonthDays(f)[m] <= 337 + f
    BY <1>1 DEF DaysBefore, MonthDays
  <1>3. ASSUME NEW n \in 1 .. 12, m < n
        PROVE  DaysBefore(f)[m] + MonthDays(f)[m] <= DaysBefore(f)[n]
    <2>1. n = 2 \/ n = 3 \/ n = 4 \/ n = 5 \/ n = 6 \/ n = 7 \/ n = 8 \/ n = 9
          \/ n = 10 \/ n = 11 \/ n = 12
      BY <1>3
    <2> QED
      BY <1>1, <2>1, <1>3 DEF DaysBefore, MonthDays
  <1> QED
    BY <1>2, <1>3

LEMMA SlotType ==
  ASSUME NEW d \in Slots
  PROVE  /\ d.year \in 0 .. 99 /\ d.month \in 1 .. 12 /\ d.day \in 1 .. 31
         /\ d.hour \in 0 .. 23 /\ d.minute \in 0 .. 59 /\ d.minute % 5 = 0
         /\ d.day <= MonthDays(Feb(d.year))[d.month]
         /\ d = [year |-> d.year, month |-> d.month, day |-> d.day,
                 hour |-> d.hour, minute |-> d.minute]
  BY DEF Slots, Dates

\* The day of the year is one of its days, and tells month and day.
LEMMA DayOfYear ==
  ASSUME NEW d \in Slots
  PROVE  DayOf(d, Feb(d.year)) \in Nat /\ DayOf(d, Feb(d.year)) <= 365
  <1> DEFINE f == Feb(d.year)
             s == DaysBefore(f)[d.month]
             k == MonthDays(f)[d.month]
  <1>1. f \in 28 .. 29
    BY FebType
  <1>2. s \in Nat /\ k \in 28 .. 31 /\ s + k <= 337 + f
    BY <1>1, SlotType, MonthsApart
  <1>3. d.day \in 1 .. 31 /\ d.day <= k
    BY SlotType
  <1>4. DayOf(d, f) = s + d.day - 1
    BY DEF DayOf
  <1> HIDE DEF f, s, k
  <1>5. s + d.day - 1 \in Nat /\ s + d.day - 1 <= 365
    BY <1>1, <1>2, <1>3
  <1>6. DayOf(d, f) \in Nat /\ DayOf(d, f) <= 365
    BY <1>4, <1>5
  <1> QED
    BY <1>6 DEF f

\* Two days of two months, at s and t of lengths k and l, are the same only in one month.
LEMMA SameDay ==
  ASSUME NEW s \in Int, NEW t \in Int, NEW k \in Int, NEW l \in Int,
         NEW m \in Int, NEW n \in Int, NEW c \in Int, NEW d \in Int,
         1 <= c, c <= k, 1 <= d, d <= l, m < n => s + k <= t, n < m => t + l <= s,
         s + c - 1 = t + d - 1
  PROVE  m = n
  OBVIOUS

LEMMA DayTellsMonth ==
  ASSUME NEW a \in Slots, NEW b \in Slots, a.year = b.year,
         DayOf(a, Feb(a.year)) = DayOf(b, Feb(b.year))
  PROVE  a.month = b.month /\ a.day = b.day
  <1> DEFINE f == Feb(a.year)
             m == a.month
             n == b.month
             s == DaysBefore(f)[m]
             t == DaysBefore(f)[n]
             k == MonthDays(f)[m]
             l == MonthDays(f)[n]
  <1>1. f \in 28 .. 29
    BY FebType
  <1>2. m \in 1 .. 12 /\ n \in 1 .. 12 /\ a.day \in 1 .. 31 /\ b.day \in 1 .. 31
    BY SlotType
  <1>3. a.day <= k /\ b.day <= l
    BY SlotType
  <1>4. s + a.day - 1 = t + b.day - 1
    BY DEF DayOf
  <1> HIDE DEF f, m, n
  <1>5. s \in Nat /\ k \in 28 .. 31 /\ t \in Nat /\ l \in 28 .. 31
    BY <1>1, <1>2, MonthsApart
  <1>6. (m < n => s + k <= t) /\ (n < m => t + l <= s)
    BY <1>1, <1>2, MonthsApart
  <1>7. s \in Int /\ t \in Int /\ k \in Int /\ l \in Int /\ m \in Int /\ n \in Int
        /\ a.day \in Int /\ b.day \in Int /\ 1 <= a.day /\ 1 <= b.day
    BY <1>2, <1>5
  <1> HIDE DEF s, t, k, l
  <1>8. m = n
    BY <1>3, <1>4, <1>6, <1>7, SameDay
  <1>9. s = t
    BY <1>8 DEF s, t
  <1>10. a.day = b.day
    BY <1>4, <1>7, <1>9
  <1> QED
    BY <1>8, <1>10 DEF m, n

LEMMA FiveMinutes ==
  ASSUME NEW d \in Slots
  PROVE  d.minute \div 5 \in 0 .. 11 /\ d.minute = 5 * (d.minute \div 5)
  BY SlotType

LEMMA GroupsOfDay ==
  ASSUME NEW d, NEW f
  PROVE  Groups(d, f) = (DayOf(d, f) * 24 + d.hour) * 12 + d.minute \div 5
  BY DEF Groups, DayOf

\* A number in base 12, or 24, has one last digit.
LEMMA LastDigit ==
  ASSUME NEW base \in {12, 24}, NEW u \in Nat, NEW v \in Nat, NEW p \in 0 .. base - 1,
         NEW q \in 0 .. base - 1, u * base + p = v * base + q
  PROVE  u = v /\ p = q
  <1>1. CASE base = 12
    BY <1>1
  <1>2. CASE base = 24
    BY <1>2
  <1> QED
    BY <1>1, <1>2

\* Two times of a year never share an interval.
LEMMA GroupsApart ==
  ASSUME NEW a \in Slots, NEW b \in Slots, a.year = b.year,
         Groups(a, Feb(a.year)) = Groups(b, Feb(b.year))
  PROVE  a = b
  <1> DEFINE f == Feb(a.year)
             x == DayOf(a, f)
             y == DayOf(b, f)
             p == a.minute \div 5
             q == b.minute \div 5
  <1>1. f \in 28 .. 29
    BY FebType
  <1>2. x \in Nat /\ y \in Nat
    BY DayOfYear
  <1>3. p \in 0 .. 11 /\ q \in 0 .. 11 /\ a.minute = 5 * p /\ b.minute = 5 * q
    BY FiveMinutes
  <1>4. a.hour \in 0 .. 23 /\ b.hour \in 0 .. 23
    BY SlotType
  <1>5. (x * 24 + a.hour) * 12 + p = (y * 24 + b.hour) * 12 + q
    BY GroupsOfDay
  <1> HIDE DEF f, x, y, p, q
  <1>6. x = y /\ a.hour = b.hour /\ p = q
    <2>1. x * 24 + a.hour \in Nat /\ y * 24 + b.hour \in Nat
      BY <1>2, <1>4
    <2>2. x * 24 + a.hour = y * 24 + b.hour /\ p = q
      BY <1>3, <1>5, <2>1, LastDigit
    <2> QED
      BY <1>2, <1>4, <2>2, LastDigit
  <1>7. a.month = b.month /\ a.day = b.day
    BY <1>6, DayTellsMonth DEF x, y, f
  <1> QED
    BY <1>3, <1>6, <1>7, SlotType

LEMMA GroupsType ==
  ASSUME NEW d \in Slots
  PROVE  Groups(d, Feb(d.year)) \in Nat /\ Groups(d, Feb(d.year)) <= 105407
  <1> DEFINE f == Feb(d.year)
             x == DayOf(d, f)
             p == d.minute \div 5
             h == d.hour
  <1>1. f \in 28 .. 29
    BY FebType
  <1>2. x \in Nat /\ x <= 365
    BY DayOfYear
  <1>3. p \in 0 .. 11
    BY FiveMinutes
  <1>4. h \in 0 .. 23
    BY SlotType
  <1>5. Groups(d, f) = (x * 24 + h) * 12 + p
    BY GroupsOfDay
  <1> HIDE DEF f, x, p, h
  <1>7. (x * 24 + h) * 12 + p \in Nat /\ (x * 24 + h) * 12 + p <= 105407
    BY <1>2, <1>3, <1>4
  <1>8. Groups(d, f) \in Nat /\ Groups(d, f) <= 105407
    BY <1>5, <1>7
  <1> QED
    BY <1>8 DEF f

LEMMA BaseType ==
  \A year, kind : Base(year, kind) \in Nat
  BY DEF Base

-------------------------------------------------------------------------------
\* The records of two different times of a year do not overlap (GetAddress, with the month
\* table of that year): no sample overwrites another.
THEOREM RecordsApart ==
  ASSUME NEW a \in Slots, NEW b \in Slots, a.year = b.year, a # b, NEW kind \in Kinds
  PROVE  LET s == Address(a, kind, Feb(a.year))
             t == Address(b, kind, Feb(b.year))
         IN  s + RecordLen(kind) <= t \/ t + RecordLen(kind) <= s
  <1> DEFINE g == Groups(a, Feb(a.year))
             h == Groups(b, Feb(b.year))
             base == Base(a.year, kind)
             len == RecordLen(kind)
  <1>1. g # h
    BY GroupsApart
  <1>2. g \in Nat /\ h \in Nat
    BY GroupsType
  <1>6. base \in Int
    BY BaseType
  <1>3. len \in {3, 4}
    BY DEF RecordLen
  <1>4. /\ Address(a, kind, Feb(a.year)) = base + len * g
        /\ Address(b, kind, Feb(b.year)) = base + len * h
    BY DEF Address
  <1> HIDE DEF g, h, base, len
  <1>5. base + len * g + len <= base + len * h \/ base + len * h + len <= base + len * g
    <2>1. CASE len = 3
      BY <2>1, <1>1, <1>2, <1>6
    <2>2. CASE len = 4
      BY <2>2, <1>1, <1>2, <1>6
    <2> QED
      BY <1>3, <2>1, <2>2
  <1> QED
    BY <1>4, <1>5 DEF len

\* A record lies in the region of its kind and of its year's parity, and rainfall records
\* end before the address of the station's parameters.
THEOREM RecordInRegion ==
  ASSUME NEW d \in Slots, NEW kind \in Kinds
  PROVE  LET s == Address(d, kind, Feb(d.year))
             base == Base(d.year, kind)
         IN  /\ base <= s
             /\ s + RecordLen(kind) <= base + 421632
             /\ kind = "rain" => s + RecordLen(kind) <= base + 316224
             /\ base + 421632 < base + SpecialBase
  <1> DEFINE g == Groups(d, Feb(d.year))
             base == Base(d.year, kind)
  <1>1. g \in Nat /\ g <= 105407
    BY GroupsType
  <1>5. base \in Int
    BY BaseType
  <1>2. Address(d, kind, Feb(d.year)) = base + RecordLen(kind) * g
    BY DEF Address
  <1> HIDE DEF g, base
  <1>3. CASE kind = "rain"
    <2>1. Address(d, kind, Feb(d.year)) = base + 3 * g
      BY <1>2, <1>3 DEF RecordLen
    <2>2. RecordLen(kind) = 3
      BY <1>3 DEF RecordLen
    <2>3. base <= base + 3 * g /\ base + 3 * g + 3 <= base + 316224
          /\ base + 421632 < base + SpecialBase
      BY <1>1, <1>5 DEF SpecialBase
    <2> QED
      BY <2>1, <2>2, <2>3, <1>1, <1>5 DEF base
  <1>4. CASE kind = "water"
    <2>1. Address(d, kind, Feb(d.year)) = base + 4 * g
      BY <1>2, <1>4 DEF RecordLen
    <2>2. RecordLen(kind) = 4
      BY <1>4 DEF RecordLen
    <2>3. base <= base + 4 * g /\ base + 4 * g + 4 <= base + 421632
          /\ base + 421632 < base + SpecialBase
      BY <1>1, <1>5 DEF SpecialBase
    <2> QED
      BY <2>1, <2>2, <2>3, <1>1, <1>4, <1>5 DEF base
  <1> QED
    BY <1>3, <1>4 DEF Kinds

-------------------------------------------------------------------------------

Packets == [sn : Nat, total : Nat, addr : Nat, len : Nat, announced : Nat]

Places == {"idle", "days", "count", "lost", "leap", "address", "send"}

TypeInv ==
  /\ pc \in Places
  /\ query \in Periods /\ feb \in 28 .. 29
  /\ hours \in Nat /\ addr \in Nat /\ i \in Nat \ {0}
  /\ sent \in Seq(Packets)

\* Until the first packet nothing is sent. While packets go out, i is the next one's number,
\* and never beyond the one after the last full packet.
NumberInv ==
  /\ i <= FullPackets + 1 /\ Len(sent) <= TotalPackets
  /\ pc \in {"days", "count", "leap", "address", "lost"} => sent = << >> /\ i = 1
  /\ pc = "send" => i = Len(sent) + 1
  /\ pc = "send" /\ hours <= HoursPerPacket => i = 1
  /\ PacketsNumbered

IInv == TypeInv /\ NumberInv

-------------------------------------------------------------------------------
LEMMA PeriodType ==
  ASSUME NEW q \in Periods
  PROVE  q.first \in Slots
  <1>1. q.first \in Hours
    BY PeriodsAssumption
  <1>2. 0 % 5 = 0
    OBVIOUS
  <1> QED
    BY <1>1, <1>2 DEF Hours, Slots

\* The address that the code computes with whichever February.
LEMMA AddressType ==
  ASSUME NEW d \in Slots, NEW f \in 28 .. 29, NEW kind
  PROVE  Address(d, kind, f) \in Nat
  <1> DEFINE s == DaysBefore(f)[d.month]
             p == d.minute \div 5
             h == d.hour
             base == Base(d.year, kind)
             len == RecordLen(kind)
  <1>1. s \in Nat
    BY SlotType, MonthsApart
  <1>2. p \in 0 .. 11 /\ h \in 0 .. 23 /\ d.day \in 1 .. 31
    BY FiveMinutes, SlotType
  <1>3. base \in Nat /\ len \in {3, 4}
    BY BaseType DEF RecordLen
  <1>4. Address(d, kind, f) = base + len * (((s + d.day - 1) * 24 + h) * 12 + p)
    BY DEF Address, Groups
  <1> HIDE DEF s, p, h, base, len
  <1>5. ((s + d.day - 1) * 24 + h) * 12 + p \in Nat
    BY <1>1, <1>2
  <1>6. ASSUME NEW g \in Nat
        PROVE  base + len * g \in Nat
    <2>1. CASE len = 3
      BY <2>1, <1>3
    <2>2. CASE len = 4
      BY <2>2, <1>3
    <2> QED
      BY <1>3, <2>1, <2>2
  <1> QED
    BY <1>4, <1>5, <1>6

\* The sum of hours is a number, whichever months the query names.
LEMMA HourGroupsType ==
  ASSUME NEW first \in Hours, NEW last \in Hours, NEW f \in 28 .. 29
  PROVE  HourGroups(first, last, f) \in Int
  <1> DEFINE s == DaysBefore(f)[first.month]
             t == DaysBefore(f)[last.month]
             k == MonthDays(f)[first.month]
  <1>1. /\ first.month \in 1 .. 12 /\ last.month \in 1 .. 12 /\ first.day \in Int
        /\ last.day \in Int /\ first.hour \in Int /\ last.hour \in Int
    BY DEF Hours, Dates
  <1>2. s \in Nat /\ t \in Nat /\ k \in Int
    BY <1>1, MonthsApart
  <1>3. HourGroups(first, last, f) =
          IF first.month # last.month
            THEN (t - s - k) * 24 + (k - first.day) * 24 + 24 - first.hour
                 + (last.day - 1) * 24 + last.hour
          ELSE IF first.day # last.day
            THEN (last.day - first.day - 1) * 24 + 24 - first.hour + last.hour
          ELSE (IF last.hour = 0 THEN 24 ELSE last.hour) - first.hour
    BY DEF HourGroups
  <1> HIDE DEF s, t, k
  <1> QED
    BY <1>1, <1>2, <1>3

LEMMA BytesType == \A kind : \A n \in Nat : Bytes(kind, n) \in Nat
  BY DEF Bytes, RecordLen

\* Division by twelve.
LEMMA Twelfths ==
  ASSUME NEW n \in Nat
  PROVE  /\ n \div 12 \in Nat /\ n % 12 \in 0 .. 11 /\ n = 12 * (n \div 12) + (n % 12)
  BY Z3

LEMMA CountBounds ==
  ASSUME NEW n \in Nat
  PROVE  /\ 1 <= (n \div 12) + 1
         /\ 0 <= IF n <= 12 THEN 1 ELSE (n \div 12) + (IF n % 12 # 0 THEN 1 ELSE 0)
  BY Twelfths

\* How many packets there are.
LEMMA PacketCount ==
  ASSUME hours \in Nat
  PROVE  /\ FullPackets \in Nat /\ TotalPackets \in Nat \ {0} /\ Remainder \in Nat
         /\ hours <= HoursPerPacket => TotalPackets = 1
         /\ hours > HoursPerPacket =>
              TotalPackets = FullPackets + (IF Remainder # 0 THEN 1 ELSE 0)
         /\ hours > HoursPerPacket => FullPackets >= 1
  <1>1. FullPackets \in Nat /\ Remainder \in Nat /\ hours = 12 * FullPackets + Remainder
        /\ Remainder < 12
    BY Twelfths DEF FullPackets, Remainder, HoursPerPacket
  <1> QED
    BY <1>1 DEF TotalPackets, HoursPerPacket

LEMMA PacketType ==
  ASSUME hours \in Nat, NEW sn \in Nat, NEW from \in Nat, NEW len \in Nat, NEW announced \in Nat
  PROVE  /\ Packet(sn, from, len, announced) \in Packets
         /\ Packet(sn, from, len, announced).sn = sn
         /\ Packet(sn, from, len, announced).total = TotalPackets
  BY PacketCount DEF Packet, Packets

\* A packet that has the next number keeps the answer numbered.
LEMMA NumbersGrow ==
  ASSUME hours \in Nat, sent \in Seq(Packets), NEW p \in Packets,
         p.sn = Len(sent) + 1, p.total = TotalPackets,
         \A k \in 1 .. Len(sent) : sent[k].sn = k /\ sent[k].total = TotalPackets
  PROVE  \A k \in 1 .. Len(Append(sent, p)) :
           Append(sent, p)[k].sn = k /\ Append(sent, p)[k].total = TotalPackets
  OBVIOUS

-------------------------------------------------------------------------------
LEMMA InitInv == Init => IInv
  <1> SUFFICES ASSUME Init PROVE IInv
    OBVIOUS
  <1>1. hours = 0 /\ i = 1 /\ sent = << >> /\ pc = "idle" /\ addr = 0 /\ feb = 28
        /\ query \in Periods
    BY DEF Init
  <1>2. TypeInv
    BY <1>1 DEF TypeInv, Places
  <1>3. NumberInv
    BY <1>1, PacketCount DEF NumberInv, PacketsNumbered, Answered, HoursPerPacket
  <1> QED
    BY <1>2, <1>3 DEF IInv

LEMMA TypeStep == TypeInv /\ [Next]_vars => TypeInv'
  <1> SUFFICES ASSUME TypeInv, [Next]_vars
               PROVE  TypeInv'
    OBVIOUS
  <1> USE DEF TypeInv
  <1>1. CASE Receive
    BY <1>1 DEF Receive, Places
  <1>2. CASE SetFebruary
    BY <1>2, FebType DEF SetFebruary, Places
  <1>3. CASE CountHours
    <2>1. HourGroups(query.first, query.last, feb) \in Nat
      <3>1. query.first \in Hours /\ query.last \in Hours
        BY PeriodsAssumption
      <3> QED
        BY <1>3, <3>1, HourGroupsType DEF CountHours, Countable
    <2> QED
      BY <1>3, <2>1 DEF CountHours, Places
  <1>4. CASE CountGoesWrong
    BY <1>4 DEF CountGoesWrong, Places
  <1>5. CASE SetFebruaryAgain
    BY <1>5, FebType DEF SetFebruaryAgain, Places
  <1>6. CASE FindAddress
    BY <1>6, PeriodType, AddressType DEF FindAddress, Places
  <1>7. CASE SendOnly
    <2>1. PICK b \in Nat : b = Bytes(query.kind, hours)
      BY BytesType
    <2>2. PICK p \in Packets : p = Packet(1, addr, b, b)
      <3>1. 1 \in Nat /\ addr \in Nat /\ hours \in Nat
        OBVIOUS
      <3> QED
        BY <3>1, PacketType
    <2>3. sent' = <<p>> /\ pc' = "idle" /\ UNCHANGED <<query, feb, hours, i, addr>>
      BY <1>7, <2>1, <2>2 DEF SendOnly
    <2>4. <<p>> \in Seq(Packets)
      OBVIOUS
    <2> QED
      BY <2>3, <2>4, Zenon DEF Places
  <1>8. CASE SendFull
    <2>1. Bytes(query.kind, HoursPerPacket) \in Nat /\ AnnouncedFull \in Nat
      BY BytesType DEF AnnouncedFull, HoursPerPacket
    <2>2. addr' \in Nat
      <3> DEFINE b == Bytes(query.kind, HoursPerPacket)
      <3>1. b = 432 \/ b = 576
        BY DEF Bytes, RecordLen, HoursPerPacket
      <3>2. addr' = addr + (i - 1) * b
        BY <1>8 DEF SendFull
      <3> HIDE DEF b
      <3>3. CASE b = 432
        BY <3>2, <3>3
      <3>4. CASE b = 576
        BY <3>2, <3>4
      <3> QED
        BY <3>1, <3>3, <3>4
    <2> QED
      BY <1>8, <2>1, <2>2, PacketCount DEF SendFull, Packet, Packets
  <1>9. CASE SendRest
    <2>1. Bytes(query.kind, HoursPerPacket) \in Nat /\ Bytes(query.kind, Remainder) \in Nat
      BY BytesType, PacketCount DEF HoursPerPacket
    <2>2. addr' \in Nat
      BY <1>9, <2>1 DEF SendRest
    <2> QED
      BY <1>9, <2>1, <2>2, PacketCount DEF SendRest, Packet, Packets, Places
  <1>10. CASE SendEnds
    BY <1>10 DEF SendEnds, Places
  <1>11. CASE Save
    BY <1>11, FebType DEF Save
  <1>12. CASE UNCHANGED vars
    BY <1>12 DEF vars
  <1> QED
    BY <1>1, <1>2, <1>3, <1>4, <1>5, <1>6, <1>7, <1>8, <1>9, <1>10, <1>11, <1>12
    DEF Next, Answer

LEMMA NumberStep == IInv /\ [Next]_vars => NumberInv'
  <1> SUFFICES ASSUME TypeInv, NumberInv, [Next]_vars
               PROVE  NumberInv'
    BY DEF IInv
  <1>t. /\ hours \in Nat /\ i \in Nat \ {0} /\ sent \in Seq(Packets) /\ addr \in Nat
        /\ hours' \in Nat /\ addr' \in Nat
    BY TypeStep DEF TypeInv
  <1>c. 1 <= FullPackets' + 1 /\ 0 <= TotalPackets'
    BY <1>t, CountBounds DEF TotalPackets, FullPackets, Remainder, HoursPerPacket
  <1>s. hours' = hours => FullPackets' = FullPackets /\ TotalPackets' = TotalPackets
    BY DEF FullPackets, TotalPackets, Remainder
  \* Before the first packet.
  <1>1. ASSUME sent' = << >>, i' = 1, pc' # "idle"
        PROVE  NumberInv'
    <2>1. Len(sent') = 0
      BY <1>1
    <2>2. i' <= FullPackets' + 1 /\ Len(sent') <= TotalPackets'
      BY <1>1, <1>c, <2>1
    <2>3. PacketsNumbered'
      BY <1>1, <2>1 DEF PacketsNumbered, Answered
    <2> QED
      BY <1>1, <2>1, <2>2, <2>3 DEF NumberInv
  <1>2. CASE Receive
    BY <1>2, <1>1 DEF Receive
  <1>3. CASE SetFebruary
    BY <1>3, <1>1 DEF SetFebruary, NumberInv
  <1>4. CASE CountHours
    <2>1. sent' = << >> /\ i' = 1 /\ pc' \in {"leap", "idle"}
      BY <1>4 DEF CountHours, NumberInv
    <2> QED
      <3>1. Len(sent') = 0
        BY <2>1
      <3>2. i' <= FullPackets' + 1 /\ Len(sent') <= TotalPackets'
        BY <2>1, <1>c, <3>1
      <3>3. PacketsNumbered'
        BY <2>1, <3>1 DEF PacketsNumbered, Answered
      <3> QED
        BY <2>1, <3>1, <3>2, <3>3 DEF NumberInv
  <1>5. CASE CountGoesWrong
    BY <1>5, <1>1 DEF CountGoesWrong, NumberInv
  <1>6. CASE SetFebruaryAgain
    BY <1>6, <1>1 DEF SetFebruaryAgain, NumberInv
  <1>7. CASE FindAddress
    BY <1>7, <1>1 DEF FindAddress, NumberInv
  <1>8. CASE SendOnly
    <2> DEFINE p == Packet(1, addr, Bytes(query.kind, hours), Bytes(query.kind, hours))
    <2>1. p.sn = 1 /\ p.total = TotalPackets
      BY <1>t, BytesType, PacketCount DEF Packet, Packets
    <2>2. hours' = hours /\ sent' = <<p>> /\ pc' = "idle" /\ i' = i /\ i = 1 /\ hours <= HoursPerPacket
      BY <1>8 DEF SendOnly, NumberInv
    <2>3. TotalPackets = 1
      BY <1>t, <2>2, PacketCount
    <2> HIDE DEF p
    <2> QED
      BY <2>1, <2>2, <2>3, <1>c, <1>s DEF NumberInv, PacketsNumbered, Answered
  <1>9. CASE SendFull
    <2> DEFINE p == Packet(i, addr', Bytes(query.kind, HoursPerPacket), AnnouncedFull)
    <2>1. Bytes(query.kind, HoursPerPacket) \in Nat /\ AnnouncedFull \in Nat
      BY BytesType DEF AnnouncedFull, HoursPerPacket
    <2>2. p \in Packets /\ p.sn = i /\ p.total = TotalPackets
      BY <1>t, <2>1, PacketCount DEF Packet, Packets
    <2>3. /\ hours' = hours /\ sent' = Append(sent, p) /\ pc' = "send" /\ i' = i + 1
          /\ i <= FullPackets /\ hours > HoursPerPacket /\ i = Len(sent) + 1
      BY <1>9 DEF SendFull, NumberInv
    <2>4. TotalPackets >= FullPackets /\ FullPackets \in Nat /\ TotalPackets \in Nat
      BY <1>t, <2>3, PacketCount
    <2> HIDE DEF p
    <2>5. \A k \in 1 .. Len(sent') : sent'[k].sn = k /\ sent'[k].total = TotalPackets
      BY <1>t, <2>2, <2>3, NumbersGrow DEF NumberInv, PacketsNumbered
    <2>6. Len(sent') = Len(sent) + 1
      BY <1>t, <2>3
    <2> QED
      BY <1>s, <1>t, <2>3, <2>4, <2>5, <2>6 DEF NumberInv, PacketsNumbered, Answered, HoursPerPacket
  <1>10. CASE SendRest
    <2> DEFINE p == Packet(i, addr', Bytes(query.kind, Remainder), Bytes(query.kind, Remainder))
    <2>1. Bytes(query.kind, Remainder) \in Nat
      BY <1>t, BytesType, PacketCount
    <2>2. p \in Packets /\ p.sn = i /\ p.total = TotalPackets
      BY <1>t, <2>1, PacketCount DEF Packet, Packets
    <2>3. /\ hours' = hours /\ sent' = Append(sent, p) /\ pc' = "idle" /\ i' = i
          /\ i > FullPackets /\ i <= FullPackets + 1 /\ hours > HoursPerPacket /\ i = Len(sent) + 1
          /\ Remainder # 0
      BY <1>10 DEF SendRest, NumberInv
    <2>4. TotalPackets = FullPackets + 1 /\ FullPackets \in Nat
      BY <1>t, <2>3, PacketCount
    <2> HIDE DEF p
    <2>5. \A k \in 1 .. Len(sent') : sent'[k].sn = k /\ sent'[k].total = TotalPackets
      BY <1>t, <2>2, <2>3, NumbersGrow DEF NumberInv, PacketsNumbered
    <2>6. Len(sent') = Len(sent) + 1
      BY <1>t, <2>3
    <2> QED
      BY <1>s, <1>t, <2>3, <2>4, <2>5, <2>6 DEF NumberInv, PacketsNumbered, Answered
  <1>11. CASE SendEnds
    <2>1. /\ hours' = hours /\ sent' = sent /\ pc' = "idle" /\ i' = i
          /\ i > FullPackets /\ i <= FullPackets + 1 /\ hours > HoursPerPacket /\ i = Len(sent) + 1
          /\ Remainder = 0
      BY <1>11 DEF SendEnds, NumberInv
    <2>2. TotalPackets = FullPackets /\ FullPackets \in Nat
      BY <1>t, <2>1, PacketCount
    <2> QED
      BY <1>s, <1>t, <2>1, <2>2 DEF NumberInv, PacketsNumbered, Answered
  <1>12. ASSUME UNCHANGED <<pc, hours, i, sent>>
         PROVE  NumberInv'
    BY <1>12, <1>s DEF NumberInv, PacketsNumbered, Answered
  <1>13. CASE Save
    BY <1>12, <1>13 DEF Save
  <1>14. CASE UNCHANGED vars
    BY <1>12, <1>14 DEF vars
  <1> QED
    BY <1>2, <1>3, <1>4, <1>5, <1>6, <1>7, <1>8, <1>9, <1>10, <1>11, <1>13, <1>14
    DEF Next, Answer

\* The strengthened invariant holds throughout.
LEMMA InvHolds == Spec => []IInv
  <1>1. IInv /\ [Next]_vars => IInv'
    BY TypeStep, NumberStep DEF IInv
  <1> QED
    BY InitInv, <1>1, PTL DEF Spec

-------------------------------------------------------------------------------
\* The types of the answer's variables, and an answer never has more packets than it counted
\* (test_SendTimePeriodData), for any set of queries.
THEOREM QueryTypeCorrect == Spec => []TypeOK
  <1>1. IInv => TypeOK
    BY DEF IInv, TypeInv, NumberInv, TypeOK, Places
  <1> QED
    BY InvHolds, <1>1, PTL

\* The packets of an answer are numbered from 1 to the count they announce
\* (test_SendTimePeriodData, total_pkts_sn), also when the count is of the wrong February.
THEOREM PacketsNumberedAlways == Spec => []PacketsNumbered
  <1>1. IInv => PacketsNumbered
    BY DEF IInv, NumberInv
  <1> QED
    BY InvHolds, <1>1, PTL

-------------------------------------------------------------------------------
\* Only the full packets of a long water-level answer announce another length.
LengthInv ==
  /\ pc \in {"leap", "address", "send"} => query.kind \in Kinds
  /\ LengthHonest

\* Appending a packet keeps what holds of the packets before it.
LEMMA Appended ==
  ASSUME NEW s \in Seq(Packets), NEW p \in Packets
  PROVE  /\ Append(s, p) \in Seq(Packets) /\ Len(Append(s, p)) = Len(s) + 1
         /\ \A k \in 1 .. Len(s) : Append(s, p)[k] = s[k]
         /\ Append(s, p)[Len(s) + 1] = p
  OBVIOUS

\* The packet that SendFull or SendRest makes.
LEMMA NextPacket ==
  ASSUME IInv, NEW n \in {HoursPerPacket, Remainder}, NEW announced \in Nat, addr' \in Nat
  PROVE  LET p == Packet(i, addr', Bytes(query.kind, n), announced)
         IN  /\ p \in Packets /\ p.addr = addr' /\ p.len = Bytes(query.kind, n)
             /\ p.announced = announced
  <1>1. n \in Nat /\ TotalPackets \in Nat /\ i \in Nat
    BY PacketCount DEF IInv, TypeInv, HoursPerPacket
  <1>2. Bytes(query.kind, n) \in Nat
    BY <1>1, BytesType
  <1> QED
    BY <1>1, <1>2 DEF Packet, Packets

LEMMA LengthStep == IInv /\ LengthInv /\ [Next]_vars => LengthInv'
  <1> SUFFICES ASSUME IInv, LengthInv, [Next]_vars
               PROVE  LengthInv'
    OBVIOUS
  <1>t. /\ hours \in Nat /\ i \in Nat \ {0} /\ sent \in Seq(Packets) /\ addr' \in Nat
        /\ sent' \in Seq(Packets)
    BY TypeStep DEF IInv, TypeInv
  <1>1. ASSUME sent' = << >>, pc' \notin {"leap", "address", "send"} \/ query'.kind \in Kinds
        PROVE  LengthInv'
    <2>1. Len(sent') = 0
      BY <1>1
    <2> QED
      BY <1>1, <2>1 DEF LengthInv, LengthHonest
  <1>2. CASE Receive
    BY <1>2, <1>1 DEF Receive
  <1>3. CASE SetFebruary
    BY <1>3, <1>1 DEF SetFebruary, IInv, NumberInv
  <1>4. CASE CountHours
    BY <1>4, <1>1 DEF CountHours, IInv, NumberInv
  <1>5. CASE CountGoesWrong
    BY <1>5, <1>1 DEF CountGoesWrong, IInv, NumberInv
  <1>6. CASE SetFebruaryAgain
    BY <1>6, <1>1 DEF SetFebruaryAgain, IInv, NumberInv, LengthInv
  <1>7. CASE FindAddress
    BY <1>7, <1>1 DEF FindAddress, IInv, NumberInv, LengthInv
  <1>8. CASE SendOnly
    <2> DEFINE p == Packet(1, addr, Bytes(query.kind, hours), Bytes(query.kind, hours))
    <2>1. sent' = <<p>> /\ pc' = "idle"
      BY <1>8 DEF SendOnly
    <2>2. p.announced = p.len
      BY DEF Packet
    <2> HIDE DEF p
    <2>3. Len(sent') = 1 /\ sent'[1] = p
      BY <2>1
    <2>4. \A k \in 1 .. Len(sent') : k = 1
      BY <2>3
    <2> QED
      BY <2>1, <2>2, <2>3, <2>4 DEF LengthInv, LengthHonest
  <1>9. CASE SendFull
    <2> DEFINE p == Packet(i, addr', Bytes(query.kind, HoursPerPacket), AnnouncedFull)
    <2>1. AnnouncedFull \in Nat
      BY BytesType DEF AnnouncedFull, HoursPerPacket
    <2>2. p \in Packets /\ p.len = Bytes(query.kind, HoursPerPacket) /\ p.announced = AnnouncedFull
      BY <1>t, <2>1, NextPacket
    <2>3. /\ sent' = Append(sent, p) /\ UNCHANGED <<pc, query, hours>> /\ pc = "send"
          /\ i = Len(sent) + 1 /\ hours > HoursPerPacket /\ i <= FullPackets
      BY <1>9 DEF SendFull, IInv, NumberInv
    <2> HIDE DEF p
    <2>4. query.kind = "rain" \/ query.kind = "water"
      BY <2>3 DEF LengthInv, Kinds
    <2>5. p.announced = p.len \/ query.kind = "water"
      BY <2>2, <2>4 DEF AnnouncedFull
    <2>6. /\ Len(sent') = Len(sent) + 1 /\ sent'[Len(sent) + 1] = p
          /\ \A k \in 1 .. Len(sent) : sent'[k] = sent[k]
      BY <1>t, <2>2, <2>3, Appended
    <2>7. FullPackets' = FullPackets
      BY <2>3 DEF FullPackets
    <2>8. \A k \in 1 .. Len(sent') : k \in 1 .. Len(sent) \/ k = Len(sent) + 1
      BY <1>t, <2>6
    <2> QED
      BY <2>3, <2>5, <2>6, <2>7, <2>8 DEF LengthInv, LengthHonest
  <1>10. CASE SendRest
    <2> DEFINE p == Packet(i, addr', Bytes(query.kind, Remainder), Bytes(query.kind, Remainder))
    <2>1. Bytes(query.kind, Remainder) \in Nat
      BY <1>t, BytesType, PacketCount
    <2>2. p \in Packets /\ p.len = p.announced
      BY <1>t, <2>1, NextPacket
    <2>3. sent' = Append(sent, p) /\ UNCHANGED <<query, hours>> /\ pc' = "idle"
      BY <1>10 DEF SendRest
    <2> HIDE DEF p
    <2>4. /\ Len(sent') = Len(sent) + 1 /\ sent'[Len(sent) + 1] = p
          /\ \A k \in 1 .. Len(sent) : sent'[k] = sent[k]
      BY <1>t, <2>2, <2>3, Appended
    <2>5. FullPackets' = FullPackets
      BY <2>3 DEF FullPackets
    <2>6. \A k \in 1 .. Len(sent') : k \in 1 .. Len(sent) \/ k = Len(sent) + 1
      BY <1>t, <2>4
    <2> QED
      BY <2>2, <2>3, <2>4, <2>5, <2>6 DEF LengthInv, LengthHonest
  <1>11. ASSUME UNCHANGED <<query, hours, sent>>, pc' = pc \/ pc' = "idle"
         PROVE  LengthInv'
    BY <1>11 DEF LengthInv, LengthHonest, FullPackets
  <1>12. CASE SendEnds
    BY <1>11, <1>12 DEF SendEnds
  <1>13. CASE Save
    BY <1>11, <1>13 DEF Save
  <1>14. CASE UNCHANGED vars
    BY <1>11, <1>14 DEF vars
  <1> QED
    BY <1>2, <1>3, <1>4, <1>5, <1>6, <1>7, <1>8, <1>9, <1>10, <1>12, <1>13, <1>14
    DEF Next, Answer

LEMMA LengthInit == Init => LengthInv
  <1> SUFFICES ASSUME Init PROVE LengthInv
    OBVIOUS
  <1>1. pc = "idle" /\ Len(sent) = 0
    BY DEF Init
  <1> QED
    BY <1>1 DEF LengthInv, LengthHonest

\* The length field of a packet counts the records behind it (frame_id_len), but not in the
\* full packets of a water-level answer of more than twelve hours.
THEOREM LengthHonestAlways == Spec => []LengthHonest
  <1>1. IInv /\ LengthInv /\ [Next]_vars => LengthInv'
    BY LengthStep
  <1>2. LengthInv => LengthHonest
    BY DEF LengthInv
  <1> QED
    BY InvHolds, LengthInit, <1>1, <1>2, PTL DEF Spec

-------------------------------------------------------------------------------
\* The queries whose answers PeriodCovered is about.
Plain(q) == q.first.year = q.last.year /\ SameFebruary(q)

\* Where the first record of the period lies.
Start == Address(query.first, query.kind, Feb(query.first.year))

\* The table is that of the query's year whenever the current year has the same February.
FebInv ==
  pc \in {"count", "leap", "address", "send"} /\ Feb(query.first.year) = Feb(Now) =>
    feb = Feb(query.first.year)

\* The hours counted reach to the end of the period.
HoursInv ==
  pc \in {"leap", "address", "send"} /\ Plain(query) =>
    /\ query.first.month <= query.last.month
    /\ LastAddress(query) = Start + Bytes(query.kind, hours)

\* The packets sent so far are full ones from the start of the period, and the address is
\* that of the last of them.
SentInv ==
  pc = "send" /\ Plain(query) /\ hours <= 35 =>
    /\ Len(sent) = 0 => addr = Start
    /\ Len(sent) > 0 => addr = Start + Bytes(query.kind, 12 * (Len(sent) - 1))
    /\ \A k \in 1 .. Len(sent) : /\ sent[k].addr = Start + Bytes(query.kind, 12 * (k - 1))
                                 /\ sent[k].len = Bytes(query.kind, 12)

CoverInv == FebInv /\ HoursInv /\ SentInv /\ PeriodCovered

LEMMA BytesAdd ==
  ASSUME NEW kind, NEW n \in Int, NEW m \in Int
  PROVE  Bytes(kind, n) \in Int /\ Bytes(kind, n + m) = Bytes(kind, n) + Bytes(kind, m)
  <1>1. \A x \in Int : Bytes(kind, x) = IF kind = "rain" THEN 36 * x ELSE 48 * x
    BY DEF Bytes, RecordLen
  <1> QED
    BY <1>1

\* The hour of the year.
HourOf(d, f) == (DaysBefore(f)[d.month] + d.day - 1) * 24 + d.hour

LEMMA HourType ==
  ASSUME NEW d \in Hours
  PROVE  /\ d.month \in 1 .. 12 /\ d.day \in Int /\ d.hour \in Int /\ d.minute = 0 /\ d \in Slots
         /\ \A f \in 28 .. 29 : DaysBefore(f)[d.month] \in Nat /\ HourOf(d, f) \in Int
  <1>1. d.month \in 1 .. 12 /\ d.day \in Int /\ d.hour \in Int /\ d.minute = 0
    BY DEF Hours, Dates
  <1>2. 0 % 5 = 0
    OBVIOUS
  <1>3. d \in Slots
    BY <1>1, <1>2 DEF Hours, Slots
  <1>4. \A f \in 28 .. 29 : DaysBefore(f)[d.month] \in Nat
    BY <1>1, MonthsApart
  <1> QED
    BY <1>1, <1>3, <1>4 DEF HourOf

\* The records of an hour lie behind those of the hours of the year before it.
LEMMA HourAddress ==
  ASSUME NEW d \in Hours, NEW f \in 28 .. 29, NEW kind
  PROVE  Address(d, kind, f) = Base(d.year, kind) + Bytes(kind, HourOf(d, f))
  <1>1. PICK h \in Int : h = HourOf(d, f)
    BY HourType
  <1>2. Groups(d, f) = h * 12
    <2>1. 0 \div 5 = 0 /\ h * 12 + 0 = h * 12
      OBVIOUS
    <2>2. Groups(d, f) = h * 12 + 0 \div 5
      BY <1>1, HourType DEF Groups, HourOf
    <2> QED
      BY <2>1, <2>2
  <1>3. RecordLen(kind) * (h * 12) = Bytes(kind, h)
    BY DEF Bytes, RecordLen
  <1> QED
    BY <1>1, <1>2, <1>3 DEF Address

Midnight(first, last) == last.hour = 0 /\ last.day = first.day /\ last.month = first.month

\* What GetHourGroupsByTimperiod counts, within one year: the months between cancel out.
LEMMA HoursBetween ==
  ASSUME NEW first \in Hours, NEW last \in Hours, NEW f \in 28 .. 29
  PROVE  HourGroups(first, last, f) =
           HourOf(last, f) - HourOf(first, f) + (IF Midnight(first, last) THEN 24 ELSE 0)
  <1>1. PICK s \in Int, t \in Int, k \in Int :
          /\ s = DaysBefore(f)[first.month] /\ t = DaysBefore(f)[last.month]
          /\ k = MonthDays(f)[first.month]
    <2>1. first.month \in 1 .. 12 /\ last.month \in 1 .. 12
      BY HourType
    <2>2. DaysBefore(f)[first.month] \in Int /\ MonthDays(f)[first.month] \in Int
          /\ DaysBefore(f)[last.month] \in Int
      BY <2>1, MonthsApart
    <2> QED
      BY <2>2
  <1>2. PICK a \in Int, b \in Int, g \in Int, h \in Int :
          a = first.day /\ b = last.day /\ g = first.hour /\ h = last.hour
    BY HourType
  <1>3. HourOf(first, f) = (s + a - 1) * 24 + g /\ HourOf(last, f) = (t + b - 1) * 24 + h
    BY <1>1, <1>2 DEF HourOf
  <1>4. CASE first.month # last.month
    <2>1. HourGroups(first, last, f) = (t - s - k) * 24 + (k - a) * 24 + 24 - g + (b - 1) * 24 + h
      BY <1>1, <1>2, <1>4 DEF HourGroups
    <2> QED
      BY <1>3, <1>4, <2>1 DEF Midnight
  <1>5. CASE first.month = last.month /\ first.day # last.day
    <2>1. HourGroups(first, last, f) = (b - a - 1) * 24 + 24 - g + h
      BY <1>2, <1>5 DEF HourGroups
    <2> QED
      BY <1>1, <1>2, <1>3, <1>5, <2>1 DEF Midnight
  <1>6. CASE first.month = last.month /\ first.day = last.day
    <2>1. HourGroups(first, last, f) = (IF h = 0 THEN 24 ELSE h) - g
      BY <1>2, <1>6 DEF HourGroups
    <2>2. s = t /\ a = b
      BY <1>1, <1>2, <1>6
    <2> QED
      BY <1>2, <1>3, <1>6, <2>1, <2>2 DEF Midnight
  <1> QED
    BY <1>4, <1>5, <1>6

\* A loop that ends counts towards a later month.
LEMMA MonthsInOrder ==
  ASSUME NEW first \in Hours, NEW last \in Hours, CountEnds(first, last)
  PROVE  first.month <= last.month
  <1>1. PICK m \in 1 .. 12, n \in 1 .. 12 : m = first.month /\ n = last.month
    BY HourType
  <1>2. m = n \/ m + ((n - m - 1) % 256) < 256
    BY <1>1 DEF CountEnds, MonthInterval
  <1>3. ASSUME n < m
        PROVE  (n - m - 1) % 256 = n - m - 1 + 256
    BY <1>3, Z3
  <1> QED
    BY <1>1, <1>2, <1>3

\* January and February begin on the same day of every year.
LEMMA SameHour ==
  ASSUME NEW d \in Hours, d.month <= 2, NEW f \in 28 .. 29, NEW g \in 28 .. 29
  PROVE  HourOf(d, f) = HourOf(d, g)
  <1>1. d.month = 1 \/ d.month = 2
    BY HourType
  <1>2. DaysBefore(f)[1] = DaysBefore(g)[1] /\ DaysBefore(f)[2] = DaysBefore(g)[2]
    BY DEF DaysBefore
  <1> QED
    BY <1>1, <1>2 DEF HourOf

\* The hours counted from the table reach from the first address to the last.
LEMMA CountReaches ==
  ASSUME NEW q \in Periods, q.first.year = q.last.year, NEW f \in 28 .. 29,
         f = Feb(q.first.year) \/ q.last.month <= 2, Countable(q.first, q.last, f)
  PROVE  /\ q.first.month <= q.last.month
         /\ LastAddress(q) = Address(q.first, q.kind, Feb(q.first.year))
                             + Bytes(q.kind, HourGroups(q.first, q.last, f))
  <1>a. PICK a \in Hours, b \in Hours : a = q.first /\ b = q.last
    BY PeriodsAssumption
  <1>b. PICK g \in 28 .. 29 : g = Feb(q.first.year)
    BY FebType
  <1>c. PICK k : k = q.kind
    OBVIOUS
  <1>d. PICK base \in Nat : base = Base(q.first.year, k)
    BY BaseType
  <1>1. /\ a = q.first /\ b = q.last /\ k = q.kind /\ g = Feb(q.first.year)
        /\ base = Base(q.first.year, k)
    BY <1>a, <1>b, <1>c, <1>d
  <1>2. a.month <= b.month
    BY <1>1, MonthsInOrder DEF Countable
  <1>3. PICK x \in Int, y \in Int : x = HourOf(a, g) /\ y = HourOf(b, g)
    BY HourType
  <1>4. HourOf(a, f) = x /\ HourOf(b, f) = y
    <2>1. f = g \/ (a.month <= 2 /\ b.month <= 2)
      BY <1>1, <1>2, HourType
    <2> QED
      BY <1>3, <2>1, SameHour
  <1>5. PICK extra \in Int : extra = IF Midnight(a, b) THEN 24 ELSE 0
    OBVIOUS
  <1>6. HourGroups(a, b, f) = y - x + extra
    BY <1>4, <1>5, HoursBetween
  <1>7. Address(a, k, g) = base + Bytes(k, x) /\ Address(b, k, g) = base + Bytes(k, y)
    BY <1>1, <1>3, HourAddress
  <1>8. LastAddress(q) = Address(b, k, g) + Bytes(k, extra)
    <2>1. LastAddress(q) = Address(b, k, g) + (IF Midnight(a, b) THEN Bytes(k, 24) ELSE 0)
      BY <1>1 DEF LastAddress, Midnight
    <2>2. Bytes(k, 0) = 0
      BY DEF Bytes, RecordLen
    <2> QED
      BY <1>5, <2>1, <2>2
  <1>9. /\ Bytes(k, x) \in Int /\ Bytes(k, extra) \in Int /\ Bytes(k, y - x + extra) \in Int
        /\ Bytes(k, x + (y - x + extra)) = Bytes(k, x) + Bytes(k, y - x + extra)
        /\ Bytes(k, y + extra) = Bytes(k, y) + Bytes(k, extra) /\ Bytes(k, y) \in Int
    <2>1. y - x + extra \in Int
      OBVIOUS
    <2> QED
      BY <2>1, BytesAdd
  <1>10. x + (y - x + extra) = y + extra
    OBVIOUS
  <1>11. LastAddress(q) = Address(a, k, g) + Bytes(k, HourGroups(a, b, f))
    BY <1>6, <1>7, <1>8, <1>9, <1>10
  <1> QED
    BY <1>1, <1>2, <1>11

-------------------------------------------------------------------------------
LEMMA FebStep == TypeInv /\ FebInv /\ [Next]_vars => FebInv'
  <1> SUFFICES ASSUME TypeInv, FebInv, [Next]_vars
               PROVE  FebInv'
    OBVIOUS
  <1>1. CASE Receive
    BY <1>1 DEF Receive, FebInv
  <1>2. CASE SetFebruary \/ SetFebruaryAgain
    BY <1>2 DEF SetFebruary, SetFebruaryAgain, FebInv
  <1>3. CASE CountHours \/ CountGoesWrong
    BY <1>3 DEF CountHours, CountGoesWrong, FebInv
  <1>4. CASE FindAddress
    BY <1>4 DEF FindAddress, FebInv
  <1>5. CASE SendOnly \/ SendFull \/ SendRest \/ SendEnds
    BY <1>5 DEF SendOnly, SendFull, SendRest, SendEnds, FebInv
  <1>6. CASE Save
    BY <1>6 DEF Save, FebInv
  <1>7. CASE UNCHANGED vars
    BY <1>7 DEF vars, FebInv
  <1> QED
    BY <1>1, <1>2, <1>3, <1>4, <1>5, <1>6, <1>7 DEF Next, Answer

LEMMA HoursStep == TypeInv /\ FebInv /\ HoursInv /\ [Next]_vars => HoursInv'
  <1> SUFFICES ASSUME TypeInv, FebInv, HoursInv, [Next]_vars
               PROVE  HoursInv'
    OBVIOUS
  <1>1. CASE CountHours
    <2> SUFFICES ASSUME Plain(query)
                 PROVE  /\ query.first.month <= query.last.month
                        /\ LastAddress(query) = Start + Bytes(query.kind, hours')
      BY <1>1 DEF CountHours, HoursInv, Start
    <2>1. /\ pc = "count" /\ Countable(query.first, query.last, feb)
          /\ hours' = HourGroups(query.first, query.last, feb)
      BY <1>1 DEF CountHours
    <2>2. feb = Feb(query.first.year) \/ query.last.month <= 2
      BY <2>1 DEF FebInv, Plain, SameFebruary
    <2>3. query \in Periods /\ feb \in 28 .. 29 /\ query.first.year = query.last.year
      BY DEF TypeInv, Plain
    <2> QED
      BY <2>1, <2>2, <2>3, CountReaches DEF Start
  <1>2. ASSUME UNCHANGED <<query, hours>>,
               pc \in {"leap", "address", "send"} \/ pc' \notin {"leap", "address", "send"}
        PROVE  HoursInv'
    BY <1>2 DEF HoursInv, Start
  <1>3. CASE Receive
    BY <1>3 DEF Receive, HoursInv
  <1>4. CASE SetFebruary
    BY <1>2, <1>4 DEF SetFebruary
  <1>5. CASE CountGoesWrong
    BY <1>2, <1>5 DEF CountGoesWrong
  <1>6. CASE SetFebruaryAgain
    BY <1>2, <1>6 DEF SetFebruaryAgain
  <1>7. CASE FindAddress
    BY <1>2, <1>7 DEF FindAddress
  <1>8. CASE SendOnly \/ SendRest \/ SendEnds
    BY <1>2, <1>8 DEF SendOnly, SendRest, SendEnds
  <1>9. CASE SendFull
    BY <1>2, <1>9 DEF SendFull
  <1>10. CASE Save \/ UNCHANGED vars
    <2>1. UNCHANGED <<pc, query, hours>>
      BY <1>10 DEF Save, vars
    <2> QED
      BY <1>2, <2>1
  <1> QED
    BY <1>1, <1>3, <1>4, <1>5, <1>6, <1>7, <1>8, <1>9, <1>10 DEF Next, Answer

\* The address of the first packet does not depend on which February the table holds.
LEMMA FirstAddress ==
  ASSUME TypeInv, FebInv, HoursInv, Plain(query), pc = "address"
  PROVE  Address(query.first, query.kind, feb) = Start
  <1>1. query.first \in Hours /\ query.last \in Hours /\ feb \in 28 .. 29
    BY PeriodsAssumption DEF TypeInv
  <1>2. CASE Feb(query.first.year) = Feb(Now)
    BY <1>2 DEF FebInv, Start
  <1>3. CASE query.last.month <= 2
    <2>1. query.first.month <= 2
      <3>1. query.first.month <= query.last.month
        BY DEF HoursInv
      <3>2. query.first.month \in Int /\ query.last.month \in Int
        BY <1>1, HourType
      <3> QED
        BY <1>3, <3>1, <3>2
    <2>2. Feb(query.first.year) \in 28 .. 29
      BY FebType
    <2>3. HourOf(query.first, feb) = HourOf(query.first, Feb(query.first.year))
      BY <1>1, <2>1, <2>2, SameHour
    <2> QED
      BY <1>1, <2>2, <2>3, HourAddress DEF Start
  <1> QED
    BY <1>2, <1>3 DEF Plain, SameFebruary

\* Up to 35 hours are two full packets at most.
LEMMA TwoFull ==
  ASSUME hours \in Nat, hours <= 35
  PROVE  /\ FullPackets \in 0 .. 2 /\ Remainder \in Nat /\ hours = 12 * FullPackets + Remainder
         /\ hours > HoursPerPacket => FullPackets > 0
  BY Twelfths DEF FullPackets, Remainder, HoursPerPacket

LEMMA StartType == TypeInv => Start \in Nat
  BY PeriodType, AddressType, FebType DEF TypeInv, Start

LEMMA SentStep == IInv /\ FebInv /\ HoursInv /\ SentInv /\ [Next]_vars => SentInv'
  <1> SUFFICES ASSUME IInv, FebInv, HoursInv, SentInv, [Next]_vars
               PROVE  SentInv'
    OBVIOUS
  <1>t. /\ hours \in Nat /\ i \in Nat \ {0} /\ sent \in Seq(Packets) /\ addr \in Nat /\ addr' \in Nat
        /\ Start \in Nat /\ TypeInv
    BY TypeStep, StartType DEF IInv, TypeInv
  <1>1. ASSUME pc' # "send"
        PROVE  SentInv'
    BY <1>1 DEF SentInv
  <1>2. CASE Receive \/ SetFebruary \/ CountHours \/ CountGoesWrong \/ SetFebruaryAgain
    <2>1. pc' # "send"
      BY <1>2 DEF Receive, SetFebruary, CountHours, CountGoesWrong, SetFebruaryAgain
    <2> QED
      BY <1>1, <2>1
  <1>3. CASE SendOnly \/ SendRest \/ SendEnds
    BY <1>1, <1>3 DEF SendOnly, SendRest, SendEnds
  <1>4. CASE FindAddress
    <2>1. pc = "address" /\ addr' = Address(query.first, query.kind, feb) /\ UNCHANGED <<query, sent>>
      BY <1>4 DEF FindAddress
    <2>2. Len(sent') = 0
      BY <2>1 DEF IInv, NumberInv
    <2>3. Plain(query) => addr' = Start
      BY <1>t, <2>1, FirstAddress
    <2> QED
      BY <2>1, <2>2, <2>3 DEF SentInv, Start
  <1>5. CASE SendFull
    <2> SUFFICES ASSUME Plain(query), hours <= 35
                 PROVE  SentInv'
      BY <1>5 DEF SendFull, SentInv
    <2>1. /\ pc = "send" /\ i = Len(sent) + 1 /\ i <= FullPackets /\ UNCHANGED <<pc, query, hours>>
          /\ addr' = addr + (i - 1) * Bytes(query.kind, HoursPerPacket)
      BY <1>5 DEF SendFull, IInv, NumberInv
    <2> DEFINE p == Packet(i, addr', Bytes(query.kind, HoursPerPacket), AnnouncedFull)
    <2>2. p \in Packets /\ p.addr = addr' /\ p.len = Bytes(query.kind, 12)
      BY <1>t, BytesType, NextPacket DEF AnnouncedFull, HoursPerPacket
    <2>3. sent' = Append(sent, p)
      BY <1>5 DEF SendFull
    <2> HIDE DEF p
    <2>4. /\ Len(sent') = Len(sent) + 1 /\ sent'[Len(sent) + 1] = p
          /\ \A k \in 1 .. Len(sent) : sent'[k] = sent[k]
      BY <1>t, <2>2, <2>3, Appended
    <2>5. i = 1 \/ i = 2
      BY <1>t, <2>1, TwoFull
    <2>6. addr' = Start + Bytes(query.kind, 12 * (i - 1))
      <3>1. PICK b \in Nat : b = Bytes(query.kind, 12)
        BY BytesType
      <3>2. addr' = addr + (i - 1) * b
        BY <2>1, <3>1 DEF HoursPerPacket
      <3>3. Bytes(query.kind, 0) = 0
        BY DEF Bytes, RecordLen
      <3>4. CASE i = 1
        <4>1. Len(sent) = 0 /\ 12 * (i - 1) = 0
          BY <1>t, <2>1, <3>4
        <4>2. addr = Start
          BY <2>1, <4>1 DEF SentInv
        <4>3. addr' = addr
          BY <1>t, <3>1, <3>2, <3>4
        <4> QED
          BY <1>t, <3>3, <4>1, <4>2, <4>3
      <3>5. CASE i = 2
        <4>1. Len(sent) = 1 /\ 12 * (i - 1) = 12 /\ 12 * (Len(sent) - 1) = 0
          <5>1. PICK n \in Nat : n = Len(sent) /\ i = n + 1
            BY <1>t, <2>1
          <5>2. n = 1
            BY <3>5, <5>1
          <5> QED
            BY <3>5, <5>1, <5>2
        <4>2. addr = Start + 0
          BY <2>1, <3>3, <4>1 DEF SentInv
        <4>3. addr' = addr + b
          BY <1>t, <3>1, <3>2, <3>5
        <4> QED
          BY <1>t, <3>1, <4>1, <4>2, <4>3
      <3> QED
        BY <2>5, <3>4, <3>5
    <2>7. ASSUME NEW k \in 1 .. Len(sent')
          PROVE  /\ sent'[k].addr = Start + Bytes(query.kind, 12 * (k - 1))
                 /\ sent'[k].len = Bytes(query.kind, 12)
      <3>1. CASE k \in 1 .. Len(sent)
        BY <2>1, <2>4, <3>1 DEF SentInv
      <3>2. CASE k = i
        BY <2>1, <2>2, <2>4, <2>6, <3>2
      <3> QED
        BY <1>t, <2>1, <2>4, <3>1, <3>2
    <2>8. Len(sent') - 1 = i - 1 /\ Len(sent') # 0
      BY <1>t, <2>1, <2>4
    <2>9. Start' = Start /\ query' = query
      BY <2>1 DEF Start
    <2> QED
      BY <2>6, <2>7, <2>8, <2>9 DEF SentInv
  <1>6. CASE Save \/ UNCHANGED vars
    BY <1>6 DEF Save, vars, SentInv, Start
  <1> QED
    BY <1>2, <1>3, <1>4, <1>5, <1>6 DEF Next, Answer

\* The last packet ends where the period does.
LEMMA CoverStep == IInv /\ CoverInv /\ [Next]_vars => PeriodCovered'
  <1> SUFFICES ASSUME IInv, CoverInv, [Next]_vars
               PROVE  PeriodCovered'
    OBVIOUS
  <1>t. /\ hours \in Nat /\ i \in Nat \ {0} /\ sent \in Seq(Packets) /\ addr \in Nat /\ addr' \in Nat
        /\ Start \in Nat /\ TypeInv /\ FebInv /\ HoursInv /\ SentInv
    BY TypeStep, StartType DEF IInv, TypeInv, CoverInv
  <1>1. ASSUME pc' # "idle" \/ sent' = << >>
        PROVE  PeriodCovered'
    BY <1>1 DEF PeriodCovered, Answered
  <1>2. CASE Receive \/ SetFebruary \/ CountGoesWrong \/ SetFebruaryAgain \/ FindAddress \/ SendFull
    <2>1. pc' # "idle"
      BY <1>2 DEF Receive, SetFebruary, CountGoesWrong, SetFebruaryAgain, FindAddress, SendFull
    <2> QED
      BY <1>1, <2>1
  <1>3. CASE CountHours
    BY <1>1, <1>3 DEF CountHours, IInv, NumberInv
  <1>4. CASE Save \/ UNCHANGED vars
    <2>1. PeriodCovered /\ UNCHANGED <<pc, query, hours, sent>>
      BY <1>4 DEF Save, vars, CoverInv
    <2> QED
      BY <2>1 DEF PeriodCovered, Answered
  \* What is left to show of an answer's last step.
  <1>5. ASSUME UNCHANGED <<query, hours>>, Plain(query) /\ hours <= 35 =>
                 /\ sent'[1].addr = Start
                 /\ \A k \in 1 .. Len(sent') - 1 : sent'[k + 1].addr = sent'[k].addr + sent'[k].len
                 /\ sent'[Len(sent')].addr + sent'[Len(sent')].len = LastAddress(query)
        PROVE  PeriodCovered'
    BY <1>5 DEF PeriodCovered, Plain, Start
  <1>6. CASE SendOnly
    <2> SUFFICES ASSUME Plain(query), hours <= 35
                 PROVE  /\ sent'[1].addr = Start
                        /\ \A k \in 1 .. Len(sent') - 1 :
                             sent'[k + 1].addr = sent'[k].addr + sent'[k].len
                        /\ sent'[Len(sent')].addr + sent'[Len(sent')].len = LastAddress(query)
      BY <1>5, <1>6 DEF SendOnly
    <2> DEFINE p == Packet(1, addr, Bytes(query.kind, hours), Bytes(query.kind, hours))
    <2>1. pc = "send" /\ hours <= HoursPerPacket /\ sent' = <<p>>
      BY <1>6 DEF SendOnly
    <2>2. p.addr = addr /\ p.len = Bytes(query.kind, hours)
      BY DEF Packet
    <2> HIDE DEF p
    <2>3. Len(sent') = 1 /\ sent'[1] = p
      BY <2>1
    <2>4. Len(sent) = 0
      BY <1>t, <2>1 DEF IInv, NumberInv
    <2>5. addr = Start
      BY <1>t, <2>1, <2>4 DEF SentInv
    <2>6. LastAddress(query) = Start + Bytes(query.kind, hours)
      BY <1>t, <2>1 DEF HoursInv
    <2> QED
      BY <2>2, <2>3, <2>5, <2>6
  \* The full packets before the last step.
  <1>7. ASSUME pc = "send", hours > HoursPerPacket, i > FullPackets, Plain(query), hours <= 35
        PROVE  /\ Len(sent) = FullPackets /\ Len(sent) \in 1 .. 2
               /\ Remainder \in Nat /\ hours = 12 * Len(sent) + Remainder
               /\ addr = Start + Bytes(query.kind, 12 * (Len(sent) - 1))
               /\ \A k \in 1 .. Len(sent) : /\ sent[k].addr = Start + Bytes(query.kind, 12 * (k - 1))
                                            /\ sent[k].len = Bytes(query.kind, 12)
               /\ LastAddress(query) = Start + Bytes(query.kind, hours)
    <2>1. i = Len(sent) + 1 /\ i <= FullPackets + 1 /\ Len(sent) \in Nat
      BY <1>7, <1>t DEF IInv, NumberInv
    <2>2. /\ FullPackets \in 1 .. 2 /\ Remainder \in Nat /\ hours = 12 * FullPackets + Remainder
      BY <1>7, <1>t, TwoFull
    <2>3. Len(sent) = FullPackets
      BY <1>7, <2>1, <2>2
    <2>4. Len(sent) > 0
      BY <2>2, <2>3
    <2>5. LastAddress(query) = Start + Bytes(query.kind, hours)
      BY <1>t, <1>7 DEF HoursInv
    <2>6. /\ addr = Start + Bytes(query.kind, 12 * (Len(sent) - 1))
          /\ \A k \in 1 .. Len(sent) : /\ sent[k].addr = Start + Bytes(query.kind, 12 * (k - 1))
                                       /\ sent[k].len = Bytes(query.kind, 12)
      BY <1>7, <1>t, <2>4 DEF SentInv
    <2> QED
      BY <2>2, <2>3, <2>5, <2>6
  \* Twelve and twenty-four hours.
  <1>8. PICK b \in Nat : /\ b = Bytes(query.kind, 12)
                         /\ Bytes(query.kind, 12 * (1 - 1)) = 0 /\ Bytes(query.kind, 12 * (2 - 1)) = b
                         /\ Bytes(query.kind, 12 * 1) = b /\ Bytes(query.kind, 12 * 2) = b + b
    <2>1. PICK b \in Nat : b = Bytes(query.kind, 12)
      BY BytesType
    <2>2. 12 * (1 - 1) = 0 /\ 12 * (2 - 1) = 12 /\ 12 * 1 = 12 /\ 12 * 2 = 12 + 12
      OBVIOUS
    <2>3. Bytes(query.kind, 12 + 12) = b + b
      BY <2>1, BytesAdd
    <2>4. Bytes(query.kind, 0) = 0
      BY DEF Bytes, RecordLen
    <2> QED
      BY <2>1, <2>2, <2>3, <2>4
  <1>9. CASE SendEnds
    <2>1. /\ pc = "send" /\ hours > HoursPerPacket /\ i > FullPackets /\ Remainder = 0
          /\ sent' = sent /\ UNCHANGED <<query, hours>>
      BY <1>9 DEF SendEnds
    <2> SUFFICES ASSUME Plain(query), hours <= 35
                 PROVE  /\ sent[1].addr = Start
                        /\ \A k \in 1 .. Len(sent) - 1 :
                             sent[k + 1].addr = sent[k].addr + sent[k].len
                        /\ sent[Len(sent)].addr + sent[Len(sent)].len = LastAddress(query)
      BY <1>5, <2>1
    <2>2. /\ Len(sent) \in 1 .. 2 /\ hours = 12 * Len(sent)
          /\ \A k \in 1 .. Len(sent) : /\ sent[k].addr = Start + Bytes(query.kind, 12 * (k - 1))
                                       /\ sent[k].len = Bytes(query.kind, 12)
          /\ LastAddress(query) = Start + Bytes(query.kind, hours)
      BY <1>7, <2>1
    <2>3. CASE Len(sent) = 1
      <3>1. sent[1].addr = Start + 0 /\ sent[1].len = b
        BY <1>8, <2>2, <2>3
      <3>2. LastAddress(query) = Start + b
        BY <1>8, <2>2, <2>3
      <3>3. \A k \in 1 .. Len(sent) - 1 : FALSE
        BY <2>3
      <3> QED
        BY <1>t, <2>3, <3>1, <3>2, <3>3
    <2>4. CASE Len(sent) = 2
      <3>1. sent[1].addr = Start + 0 /\ sent[1].len = b /\ sent[2].addr = Start + b /\ sent[2].len = b
        BY <1>8, <2>2, <2>4
      <3>2. LastAddress(query) = Start + (b + b)
        BY <1>8, <2>2, <2>4
      <3>3. \A k \in 1 .. Len(sent) - 1 : k = 1
        BY <2>4
      <3> QED
        BY <1>t, <2>4, <3>1, <3>2, <3>3
    <2> QED
      BY <2>2, <2>3, <2>4
  <1>10. CASE SendRest
    <2> DEFINE p == Packet(i, addr', Bytes(query.kind, Remainder), Bytes(query.kind, Remainder))
    <2>1. /\ pc = "send" /\ hours > HoursPerPacket /\ i > FullPackets
          /\ sent' = Append(sent, p) /\ UNCHANGED <<query, hours>>
          /\ addr' = addr + Bytes(query.kind, 12)
      BY <1>10 DEF SendRest, HoursPerPacket
    <2> SUFFICES ASSUME Plain(query), hours <= 35
                 PROVE  /\ sent'[1].addr = Start
                        /\ \A k \in 1 .. Len(sent') - 1 :
                             sent'[k + 1].addr = sent'[k].addr + sent'[k].len
                        /\ sent'[Len(sent')].addr + sent'[Len(sent')].len = LastAddress(query)
      BY <1>5, <2>1
    <2>2. /\ Len(sent) \in 1 .. 2 /\ Remainder \in Nat /\ hours = 12 * Len(sent) + Remainder
          /\ addr = Start + Bytes(query.kind, 12 * (Len(sent) - 1))
          /\ \A k \in 1 .. Len(sent) : /\ sent[k].addr = Start + Bytes(query.kind, 12 * (k - 1))
                                       /\ sent[k].len = Bytes(query.kind, 12)
          /\ LastAddress(query) = Start + Bytes(query.kind, hours)
      BY <1>7, <2>1
    <2>3. p \in Packets /\ p.addr = addr' /\ p.len = Bytes(query.kind, Remainder)
      <3>1. Bytes(query.kind, Remainder) \in Nat
        BY <2>2, BytesType
      <3> QED
        BY <1>t, <3>1, NextPacket
    <2> HIDE DEF p
    <2>4. /\ Len(sent') = Len(sent) + 1 /\ sent'[Len(sent) + 1] = p
          /\ \A k \in 1 .. Len(sent) : sent'[k] = sent[k]
      BY <1>t, <2>1, <2>3, Appended
    <2>5. Bytes(query.kind, 12 * Len(sent) + Remainder)
            = Bytes(query.kind, 12 * Len(sent)) + Bytes(query.kind, Remainder)
      BY <2>2, BytesAdd
    <2>6. PICK r \in Nat : r = Bytes(query.kind, Remainder)
      BY <2>2, BytesType
    <2>7. CASE Len(sent) = 1
      <3>1. sent[1].addr = Start + 0 /\ sent[1].len = b /\ addr' = Start + 0 + b
        BY <1>8, <2>1, <2>2, <2>7
      <3>2. sent'[1] = sent[1] /\ sent'[2] = p /\ Len(sent') = 2
        BY <2>4, <2>7
      <3>3. LastAddress(query) = Start + (b + r)
        BY <1>8, <2>2, <2>5, <2>6, <2>7
      <3>4. \A k \in 1 .. Len(sent') - 1 : k = 1
        BY <3>2
      <3> QED
        BY <1>t, <2>3, <2>6, <3>1, <3>2, <3>3, <3>4
    <2>8. CASE Len(sent) = 2
      <3>1. sent[1].addr = Start + 0 /\ sent[1].len = b /\ sent[2].addr = Start + b /\ sent[2].len = b
            /\ addr' = Start + b + b
        BY <1>8, <2>1, <2>2, <2>8
      <3>2. sent'[1] = sent[1] /\ sent'[2] = sent[2] /\ sent'[3] = p /\ Len(sent') = 3
        BY <2>4, <2>8
      <3>3. LastAddress(query) = Start + ((b + b) + r)
        BY <1>8, <2>2, <2>5, <2>6, <2>8
      <3>4. \A k \in 1 .. Len(sent') - 1 : k = 1 \/ k = 2
        BY <3>2
      <3> QED
        BY <1>t, <2>3, <2>6, <3>1, <3>2, <3>3, <3>4
    <2> QED
      <3>1. Len(sent) = 1 \/ Len(sent) = 2
        BY <2>2
      <3> QED
        BY <2>7, <2>8, <3>1
  <1> QED
    BY <1>2, <1>3, <1>4, <1>6, <1>9, <1>10 DEF Next, Answer

LEMMA CoverInit == Init => CoverInv
  BY DEF Init, CoverInv, FebInv, HoursInv, SentInv, PeriodCovered, Answered

\* The packets of an answer of up to 35 hours hold the records of the period, each once and
\* in order, from the first to the last: for every period within one year and every moment
\* at which basic_message_task stores a sample.
THEOREM PeriodCoveredAlways == Spec => []PeriodCovered
  <1>1. IInv /\ CoverInv /\ [Next]_vars => CoverInv'
    BY FebStep, HoursStep, SentStep, CoverStep DEF CoverInv, IInv
  <1>2. CoverInv => PeriodCovered
    BY DEF CoverInv
  <1> QED
    BY InvHolds, CoverInit, <1>1, <1>2, PTL DEF Spec

-------------------------------------------------------------------------------
\* What an answer has left: the steps to its first packet, and the packets.
Stage ==
  CASE pc = "days" -> 5 [] pc = "count" -> 4 [] pc = "leap" -> 3 [] pc = "address" -> 2
    [] pc = "send" -> 1 [] OTHER -> 0
PacketsLeft == FullPackets + 1 - i

\* A step of the answer takes it down, a sample stored meanwhile leaves it alone, and from the
\* loop of receive_command only a new query leads on.
AnswerAdvances ==
  [][ /\ Answer => Stage' < Stage \/ (Stage' = Stage /\ PacketsLeft' < PacketsLeft)
      /\ Save => Stage' = Stage /\ PacketsLeft' = PacketsLeft
      /\ pc = "idle" /\ pc' # "idle" => Receive ]_vars

RankNatural == Stage \in Nat /\ PacketsLeft \in Nat

\* The count is lost only for a query that may be.
NeverLost == pc = "lost" => ~Answerable(query)

\* An end that is not before the beginning is counted as one: the loop over the months ends, and
\* the sum is not negative, from whichever February the query's day is in.
LEMMA OrderedCounts ==
  ASSUME NEW q \in Periods, Answerable(q), NEW f \in 28 .. 29,
         f = Feb(q.first.year) \/ Feb(q.first.year) # Feb(Now)
  PROVE  Countable(q.first, q.last, f)
  <1>a. PICK a \in Hours, b \in Hours : a = q.first /\ b = q.last
    BY PeriodsAssumption
  <1>b. PICK m \in 1 .. 12, n \in 1 .. 12 : m = a.month /\ n = b.month
    BY HourType
  <1>c. PICK d \in 1 .. 31, e \in 1 .. 31, g \in 0 .. 23, h \in 0 .. 23 :
          d = a.day /\ e = b.day /\ g = a.hour /\ h = b.hour
    BY DEF Hours, Dates
  <1>d. PICK r \in 28 .. 29 : r = Feb(a.year)
    BY FebType
  <1>1. /\ m < n \/ (m = n /\ d < e) \/ (m = n /\ d = e /\ (h = 0 \/ g <= h))
        /\ n <= 2 \/ m # 2 \/ d # 29 \/ f = r
    BY <1>a, <1>b, <1>c, <1>d DEF Answerable, SameFebruary
  <1>2. CountEnds(a, b)
    <2>1. m = n \/ (n - m - 1) % 256 = n - m - 1
      BY <1>1, Z3
    <2> QED
      BY <1>b, <2>1 DEF CountEnds, MonthInterval
  <1>3. HourGroups(a, b, f) >= 0
    <2>1. CASE m < n
      <3>1. PICK s \in Int, t \in Int, k \in Int :
              /\ s = DaysBefore(f)[m] /\ t = DaysBefore(f)[n] /\ k = MonthDays(f)[m]
              /\ s + k <= t
        <4>1. /\ DaysBefore(f)[m] \in Int /\ DaysBefore(f)[n] \in Int /\ MonthDays(f)[m] \in Int
              /\ DaysBefore(f)[m] + MonthDays(f)[m] <= DaysBefore(f)[n]
          BY <2>1, MonthsApart
        <4> QED
          BY <4>1
      <3>2. d <= k
        <4>1. d <= MonthDays(r)[m]
          BY <1>a, <1>b, <1>c, <1>d DEF Hours, Dates
        <4>2. MonthDays(r)[m] = MonthDays(f)[m] \/ (m = 2 /\ MonthDays(r)[m] = r /\ MonthDays(f)[m] = f)
          <5>1. m = 1 \/ m = 2 \/ m = 3 \/ m = 4 \/ m = 5 \/ m = 6 \/ m = 7 \/ m = 8 \/ m = 9
                \/ m = 10 \/ m = 11 \/ m = 12
            OBVIOUS
          <5> QED
            BY <5>1 DEF MonthDays
        <4>3. PICK l \in Int : l = MonthDays(r)[m]
          BY MonthsApart
        <4>4. CASE m = 2
          <5>1. l = r /\ k = f
            BY <3>1, <4>3, <4>4 DEF MonthDays
          <5> QED
            BY <1>1, <2>1, <4>1, <4>3, <4>4, <5>1
        <4>5. CASE m # 2
          BY <3>1, <4>1, <4>2, <4>3, <4>5
        <4> QED
          BY <4>4, <4>5
      <3>3. HourGroups(a, b, f) = (t - s - k) * 24 + (k - d) * 24 + 24 - g + (e - 1) * 24 + h
        BY <1>b, <1>c, <2>1, <3>1 DEF HourGroups
      <3> QED
        BY <3>1, <3>2, <3>3
    <2>2. CASE m = n /\ d < e
      <3>1. HourGroups(a, b, f) = (e - d - 1) * 24 + 24 - g + h
        BY <1>b, <1>c, <2>2 DEF HourGroups
      <3> QED
        BY <2>2, <3>1
    <2>3. CASE m = n /\ d = e
      <3>1. HourGroups(a, b, f) = (IF h = 0 THEN 24 ELSE h) - g
        BY <1>b, <1>c, <2>3 DEF HourGroups
      <3> QED
        BY <1>1, <2>3, <3>1
    <2> QED
      BY <1>1, <2>1, <2>2, <2>3
  <1> QED
    BY <1>a, <1>2, <1>3 DEF Countable

LEMMA LostStep == TypeInv /\ FebInv /\ NeverLost /\ [Next]_vars => NeverLost'
  <1> SUFFICES ASSUME TypeInv, FebInv, NeverLost, [Next]_vars
               PROVE  NeverLost'
    OBVIOUS
  <1>1. CASE CountGoesWrong
    <2>1. query \in Periods /\ feb \in 28 .. 29 /\ query' = query /\ pc = "count"
          /\ ~Countable(query.first, query.last, feb)
      BY <1>1 DEF CountGoesWrong, TypeInv
    <2>2. feb = Feb(query.first.year) \/ Feb(query.first.year) # Feb(Now)
      BY <2>1 DEF FebInv
    <2>3. ~Answerable(query)
      BY <2>1, <2>2, OrderedCounts
    <2> QED
      BY <2>1, <2>3 DEF NeverLost
  <1>2. CASE Receive \/ SetFebruary \/ CountHours \/ SetFebruaryAgain \/ FindAddress
    BY <1>2 DEF Receive, SetFebruary, CountHours, SetFebruaryAgain, FindAddress, NeverLost
  <1>3. CASE SendOnly \/ SendFull \/ SendRest \/ SendEnds
    BY <1>3 DEF SendOnly, SendFull, SendRest, SendEnds, NeverLost
  <1>4. CASE Save \/ UNCHANGED vars
    BY <1>4 DEF Save, vars, NeverLost
  <1> QED
    BY <1>1, <1>2, <1>3, <1>4 DEF Next, Answer

LEMMA AnswerRank ==
  ASSUME IInv, Next
  PROVE  /\ Answer => Stage' < Stage \/ (Stage' = Stage /\ PacketsLeft' < PacketsLeft)
         /\ Save => Stage' = Stage /\ PacketsLeft' = PacketsLeft
         /\ pc = "idle" /\ pc' # "idle" => Receive
  <1>1. ASSUME Answer
        PROVE  /\ Stage' < Stage \/ (Stage' = Stage /\ PacketsLeft' < PacketsLeft)
               /\ pc # "idle"
    <2>1. CASE SendFull
      <3>1. FullPackets \in Int /\ i \in Int
        BY Twelfths DEF IInv, TypeInv, FullPackets, HoursPerPacket
      <3>2. FullPackets' = FullPackets /\ i' = i + 1 /\ pc' = pc /\ pc = "send"
        BY <2>1 DEF SendFull, FullPackets
      <3> QED
        BY <3>1, <3>2 DEF Stage, PacketsLeft
    <2>2. CASE SetFebruary \/ CountHours \/ CountGoesWrong
      BY <2>2 DEF SetFebruary, CountHours, CountGoesWrong, Stage
    <2>3. CASE SetFebruaryAgain \/ FindAddress
      BY <2>3 DEF SetFebruaryAgain, FindAddress, Stage
    <2>4. CASE SendOnly \/ SendRest \/ SendEnds
      BY <2>4 DEF SendOnly, SendRest, SendEnds, Stage
    <2> QED
      BY <1>1, <2>1, <2>2, <2>3, <2>4 DEF Answer
  <1>2. ASSUME Save
        PROVE  Stage' = Stage /\ PacketsLeft' = PacketsLeft /\ pc' = pc
    BY <1>2 DEF Save, Stage, PacketsLeft, FullPackets
  <1> QED
    BY <1>1, <1>2 DEF Next

\* An answer comes to its end whatever its query and whenever samples are stored: each of its
\* steps takes down what is left of it; and it ends in the loop of receive_command for every
\* query within a year whose end is not before its beginning.
THEOREM AnswerRunsDown == Spec => [](RankNatural /\ NeverLost) /\ AnswerAdvances
  <1>1. IInv => RankNatural
    <2> SUFFICES ASSUME IInv PROVE RankNatural
      OBVIOUS
    <2>1. FullPackets \in Nat /\ i \in Nat /\ i <= FullPackets + 1
      BY Twelfths DEF IInv, TypeInv, NumberInv, FullPackets, HoursPerPacket
    <2>2. Stage \in Nat
      BY DEF Stage
    <2> QED
      BY <2>1, <2>2 DEF RankNatural, PacketsLeft
  <1>2. IInv /\ [Next]_vars =>
          [ /\ Answer => Stage' < Stage \/ (Stage' = Stage /\ PacketsLeft' < PacketsLeft)
            /\ Save => Stage' = Stage /\ PacketsLeft' = PacketsLeft
            /\ pc = "idle" /\ pc' # "idle" => Receive ]_vars
    BY AnswerRank
  <1>3. Init => FebInv /\ NeverLost
    BY DEF Init, FebInv, NeverLost
  <1>4. IInv /\ FebInv /\ NeverLost /\ [Next]_vars => (FebInv /\ NeverLost)'
    BY FebStep, LostStep DEF IInv
  <1> QED
    BY InvHolds, <1>1, <1>2, <1>3, <1>4, PTL DEF Spec, AnswerAdvances
===============================================================================
