----------------------------- MODULE FlashRecords ------------------------------
(***************************************************************************)
(* Where a sample lies in the serial flash (MEMORY/memory_my.c): one       *)
(* record for every five minutes of the year, 3 bytes of rainfall or 4 of  *)
(* water level, in a region of its own for even and for odd years.         *)
(*                                                                         *)
(* The days of February are an argument, feb, of everything that sums      *)
(* months: the code keeps them in a table that all tasks share and that    *)
(* Isleapyear rewrites.                                                    *)
(***************************************************************************)
EXTENDS Integers

Kinds == {"rain", "water"}

\* RAINFALL_SINGLE_DATALEN and WATERLEVEL_SINGLE_DATALEN.
RecordLen(kind) == IF kind = "rain" THEN 3 ELSE 4

IsLeap(year) == (year % 4 = 0 /\ year % 100 # 0) \/ year % 400 = 0

\* What Isleapyear writes for a year of this century.
Feb(year) == IF IsLeap(2000 + year) THEN 29 ELSE 28

MonthDays(feb) == <<31, feb, 31, 30, 31, 30, 31, 31, 30, 31, 30, 31>>

\* The sum of the months before each month.
DaysBefore(feb) ==
  <<0, 31, 31 + feb, 62 + feb, 92 + feb, 123 + feb, 153 + feb, 184 + feb, 215 + feb,
    245 + feb, 276 + feb, 306 + feb>>

\* Times of the clock, with the months as long as they are in their year.
Dates == {d \in [year : 0 .. 99, month : 1 .. 12, day : 1 .. 31, hour : 0 .. 23, minute : 0 .. 59] :
            d.day <= MonthDays(Feb(d.year))[d.month]}

\* The number of five-minute intervals from the start of the year.
Groups(date, feb) ==
  ((DaysBefore(feb)[date.month] + date.day - 1) * 24 + date.hour) * 12 + date.minute \div 5

Base(year, kind) ==
  IF year % 2 = 0 THEN IF kind = "rain" THEN 0 ELSE 4194304
                  ELSE IF kind = "rain" THEN 8388608 ELSE 12582912

\* GetAddress, for a minute that is a multiple of 5.
Address(date, kind, feb) == Base(date.year, kind) + RecordLen(kind) * Groups(date, feb)

\* Where the station's parameters are kept (IDR_SPECIAL_DATA_STORE_BASE, IDR_RTU_PARAMETERS).
SpecialBase == 524288
===============================================================================
