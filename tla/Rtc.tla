-------------------------------- MODULE Rtc ---------------------------------
(***************************************************************************)
(* The date and time (kernel/src/internal/clk/): read_rtc takes six        *)
(* registers of the real-time clock one after the other, while the clock   *)
(* goes on, and get_unix_time turns them into seconds since 1970.  Unix    *)
(* time is a pair here, days and seconds of the day: TLC's integers have   *)
(* 32 bits, the code's 64.                                                 *)
(***************************************************************************)
EXTENDS Integers, Sequences

CONSTANTS
  StartDates,  \* dates at which a call may find the clock
  MaxTicks     \* bound: seconds that pass during a call

VARIABLES
  now,     \* the true date and time
  ticks,   \* seconds passed since the call
  asked,   \* history: the date and time of the call
  regs,    \* register values read so far
  result   \* what get_unix_time returned, or <<>>

vars == <<now, ticks, asked, regs, result>>

\* Bound: the clock stops here, when the two digits of the year are 00 again.
LastYear == 2100

-----------------------------------------------------------------------------
(* The calendar, which the chip follows.                                    *)

IsLeap(y) == y % 4 = 0 /\ (y % 100 = 0 => y % 400 = 0)

YearLength(y) == IF IsLeap(y) THEN 366 ELSE 365

MonthLength(y, m) ==
  CASE m = 2 -> IF IsLeap(y) THEN 29 ELSE 28
    [] m \in {4, 6, 9, 11} -> 30
    [] OTHER -> 31

\* The next second.
Successor(t) ==
  IF t.second < 59 THEN [t EXCEPT !.second = @ + 1]
  ELSE IF t.minute < 59 THEN [t EXCEPT !.second = 0, !.minute = @ + 1]
  ELSE IF t.hour < 23 THEN [t EXCEPT !.second = 0, !.minute = 0, !.hour = @ + 1]
  ELSE LET midnight == [t EXCEPT !.second = 0, !.minute = 0, !.hour = 0]
       IN  IF t.day < MonthLength(t.year, t.month) THEN [midnight EXCEPT !.day = @ + 1]
           ELSE IF t.month < 12 THEN [midnight EXCEPT !.day = 1, !.month = @ + 1]
           ELSE [midnight EXCEPT !.day = 1, !.month = 1, !.year = @ + 1]

\* The days from 1970 to the first of January of a year, year by year.
YearStart[y \in 1970 .. LastYear] ==
  IF y = 1970 THEN 0 ELSE YearStart[y - 1] + YearLength(y - 1)

\* The days from the first of January to the first of a month, month by month.
MonthStart(y, m) ==
  LET before[k \in 1 .. 12] == IF k = 1 THEN 0 ELSE before[k - 1] + MonthLength(y, k - 1)
  IN  before[m]

\* The Unix time of a date by counting.
TrueTime(t) ==
  << YearStart[t.year] + MonthStart(t.year, t.month) + t.day - 1,
     t.hour * 3600 + t.minute * 60 + t.second >>

Earlier(a, b) == a[1] < b[1] \/ (a[1] = b[1] /\ a[2] < b[2])

Dates ==
  [year : 2000 .. LastYear, month : 1 .. 12, day : 1 .. 31, hour : 0 .. 23,
   minute : 0 .. 59, second : 0 .. 59]

\* The dates of the calendar.
Exists(t) == t \in Dates /\ t.day <= MonthLength(t.year, t.month)

\* The chip is set to a date of the century the code adds 2000 for.
ASSUME ClockAssumption ==
  /\ \A t \in StartDates : Exists(t) /\ t.year < LastYear
  /\ MaxTicks \in Nat

-----------------------------------------------------------------------------
(* The code.                                                                *)

\* What read_rtc_register finds: two decimal digits, and of the year only
\* the last two.  Assumption on the chip: it counts in BCD and in 24-hour
\* mode.  Register B, which says so, is not read: read_rtc converts always.
ReadRtcRegister(field) ==
  LET v == now[field] % 100 IN (v \div 10) * 16 + (v % 10)

\* Mutant: the low digit is not masked.
LowUnmasked(value) == (value + (value \div 16) * 10) % 256

BcdToBinary(value) == ((value % 16) + (value \div 16) * 10) % 256

\* Mutant: no century year is a leap year, not even 2000.
NoLeapCentury(year) == year % 4 = 0 /\ year % 100 # 0

IsLeapYear(year) == year % 4 = 0 /\ (year % 100 # 0 \/ year % 400 = 0)

\* Mutant: the largest unit is read first.
YearFirst == << "year", "month", "day", "hour", "minute", "second" >>

\* The order in which read_rtc reads.
RegisterOrder == << "second", "minute", "hour", "day", "month", "year" >>

\* The field of a complete reading.
Field(field) ==
  BcdToBinary(regs[CHOOSE i \in 1 .. 6 : RegisterOrder[i] = field])

UnixTime ==
  LET year == Field("year") + 2000
      month == Field("month")
      days == (year - 1970) * 365 + (year - 1969) \div 4 - (year - 1901) \div 100
                + (year - 1601) \div 400
                + (367 * month - 362) \div 12
                + (IF month <= 2 THEN 0 ELSE IF IsLeapYear(year) THEN -1 ELSE -2)
                + Field("day") - 1
  IN  << days, Field("hour") * 3600 + Field("minute") * 60 + Field("second") >>

Init ==
  /\ now \in StartDates
  /\ asked = now
  /\ ticks = 0
  /\ regs = <<>>
  /\ result = <<>>

\* One call of read_rtc_register.
ReadNext ==
  /\ Len(regs) < 6
  /\ regs' = Append(regs, ReadRtcRegister(RegisterOrder[Len(regs) + 1]))
  /\ UNCHANGED <<now, ticks, asked, result>>

GetUnixTime ==
  /\ Len(regs) = 6 /\ result = <<>>
  /\ result' = UnixTime
  /\ UNCHANGED <<now, ticks, asked, regs>>

\* Nothing makes the chip wait for a reader.  Assumption: it updates all
\* registers at once.  During an update, which read_rtc does not look out for,
\* a real chip may also give bytes that belong to neither date.
Tick ==
  /\ result = <<>> /\ ticks < MaxTicks /\ now.year < LastYear
  /\ ticks' = ticks + 1
  /\ now' = Successor(now)
  /\ UNCHANGED <<asked, regs, result>>

Next == ReadNext \/ GetUnixTime \/ Tick

Spec == Init /\ [][Next]_vars

-----------------------------------------------------------------------------
\* The date that a complete reading shows.
Reading ==
  [year |-> Field("year") + 2000, month |-> Field("month"), day |-> Field("day"),
   hour |-> Field("hour"), minute |-> Field("minute"), second |-> Field("second")]

\* Types: every register byte converts to a value its field can have.
TypeOK ==
  /\ now \in Dates /\ asked \in Dates /\ ticks \in 0 .. MaxTicks
  /\ Len(regs) <= 6
  /\ Len(regs) = 6 => Reading \in Dates

\* The answer is a time at which the call was running, unless a minute ended
\* during the call; then registers of before and after may be mixed.  The
\* reference counts leap years and months, get_unix_time has a closed form.
WrongOnlyAtCarry ==
  result # <<>> /\ now.year < LastYear /\ asked.second + ticks < 60
    => /\ ~ Earlier(result, TrueTime(asked))
       /\ ~ Earlier(TrueTime(now), result)

\* Even then the answer is not before the call: read_rtc reads the seconds
\* first and the year last, so a mixed reading joins the end of the old
\* minute, hour, day, month or year to the new one.
NeverBeforeCall ==
  result # <<>> /\ now.year < LastYear => ~ Earlier(result, TrueTime(asked))
=============================================================================
