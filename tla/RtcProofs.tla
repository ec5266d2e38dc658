------------------------------ MODULE RtcProofs ------------------------------
(***************************************************************************)
(* Proofs about Rtc, for every set of start dates from 2000 to 2099 and    *)
(* however many seconds pass during a call.                                *)
(*                                                                         *)
(* The calendar comes first: the closed form of get_unix_time counts days  *)
(* as year-by-year and month-by-month counting does, and it puts dates in  *)
(* their order even when the day of a mixed reading is past the end of its *)
(* month.  The inductive invariant follows the mixed reading.              *)
(***************************************************************************)
EXTENDS Rtc, Induction

-----------------------------------------------------------------------------
(* The calendar.                                                            *)

\* The closed forms of get_unix_time, for the year and for the month.
YearDays(y) ==
  (y - 1970) * 365 + (y - 1969) \div 4 - (y - 1901) \div 100 + (y - 1601) \div 400

MonthDays(y, m) ==
  (367 * m - 362) \div 12
    + (IF m <= 2 THEN 0 ELSE IF IsLeapYear(y) THEN -1 ELSE -2)

\* The days that get_unix_time counts up to a date.
DaysCounted(y, m, d) ==
  (y - 1970) * 365 + (y - 1969) \div 4 - (y - 1901) \div 100 + (y - 1601) \div 400
    + (367 * m - 362) \div 12
    + (IF m <= 2 THEN 0 ELSE IF IsLeapYear(y) THEN -1 ELSE -2) + d - 1

\* get_unix_time returns those days and the second of the day.
LEMMA UnixTimeCounts ==
  UnixTime = << DaysCounted(Field("year") + 2000, Field("month"), Field("day")),
                Field("hour") * 3600 + Field("minute") * 60 + Field("second") >>
BY SMTT(30) DEF UnixTime, DaysCounted

\* A year adds its days to the closed form.
LEMMA YearDaysRecursion ==
  ASSUME NEW y \in 1971 .. LastYear
  PROVE  YearDays(y) = YearDays(y - 1) + YearLength(y - 1)
<1>1. (y - 1969) \div 4 = (y - 1970) \div 4 + (IF (y - 1) % 4 = 0 THEN 1 ELSE 0)
  BY DEF LastYear
<1>2. (y - 1901) \div 100 = (y - 1902) \div 100 + (IF (y - 1) % 100 = 0 THEN 1 ELSE 0)
  BY DEF LastYear
<1>3. (y - 1601) \div 400 = (y - 1602) \div 400 + (IF (y - 1) % 400 = 0 THEN 1 ELSE 0)
  BY DEF LastYear
<1>4. (y - 1) % 400 = 0 => (y - 1) % 100 = 0
  BY DEF LastYear
<1>5. (y - 1) % 100 = 0 => (y - 1) % 4 = 0
  BY DEF LastYear
<1> QED BY <1>1, <1>2, <1>3, <1>4, <1>5 DEF YearDays, YearLength, IsLeap, LastYear

\* Counting year by year is well defined, since the closed form counts so.
LEMMA YearStartRecursion ==
  /\ YearStart[1970] = 0
  /\ \A y \in 1971 .. LastYear :
       YearStart[y] = YearStart[y - 1] + YearLength(y - 1)
<1> DEFINE Step(f, y) ==
      IF y = 1970 THEN 0 ELSE f[y - 1] + YearLength(y - 1)
<1> DEFINE Counts(f) == f = [y \in 1970 .. LastYear |-> Step(f, y)]
<1> DEFINE g == [y \in 1970 .. LastYear |-> YearDays(y)]
<1>1. ASSUME NEW y \in 1970 .. LastYear
      PROVE  g[y] = Step(g, y)
  <2>1. CASE y = 1970
    BY <2>1 DEF YearDays
  <2>2. CASE y # 1970
    <3>1. y \in 1971 .. LastYear /\ y - 1 \in 1970 .. LastYear BY <2>2 DEF LastYear
    <3>2. g[y] = YearDays(y) /\ g[y - 1] = YearDays(y - 1) BY <3>1
    <3> QED BY <2>2, <3>1, <3>2, YearDaysRecursion
  <2> QED BY <2>1, <2>2
<1>2. Counts(g)
  <2> HIDE DEF g, Step
  <2>1. g = [y \in 1970 .. LastYear |-> g[y]] BY DEF g
  <2> QED BY <1>1, <2>1
<1> DEFINE at == CHOOSE f : Counts(f)
<1>3. YearStart = at BY Zenon DEF YearStart
<1>4. Counts(at)
  <2> HIDE DEF Counts
  <2> QED BY <1>2
<1> HIDE DEF at
<1>5. at[1970] = 0
  <2>1. 1970 \in 1970 .. LastYear BY DEF LastYear
  <2> QED BY <1>4, <2>1
<1>6. ASSUME NEW y \in 1971 .. LastYear
      PROVE  at[y] = at[y - 1] + YearLength(y - 1)
  <2>1. y \in 1970 .. LastYear /\ y # 1970 BY DEF LastYear
  <2> QED BY <1>4, <2>1 DEF LastYear
<1> QED BY <1>3, <1>5, <1>6

\* The years of get_unix_time are those of the calendar.
LEMMA YearsCounted ==
  ASSUME NEW y \in 1970 .. LastYear
  PROVE  YearStart[y] = YearDays(y)
<1> DEFINE T == {n \in Nat : 1970 + n \in 1970 .. LastYear => YearStart[1970 + n] = YearDays(1970 + n)}
<1>1. 0 \in T
  <2>1. YearStart[1970] = 0 BY YearStartRecursion DEF LastYear
  <2>2. YearDays(1970) = 0 BY DEF YearDays
  <2> QED BY <2>1, <2>2
<1>2. ASSUME NEW n \in Nat, n \in T PROVE n + 1 \in T
  <2> SUFFICES ASSUME 1970 + (n + 1) \in 1970 .. LastYear
               PROVE  YearStart[1970 + (n + 1)] = YearDays(1970 + (n + 1))
    OBVIOUS
  <2> DEFINE z == 1970 + (n + 1)
  <2>1. z \in 1971 .. LastYear /\ z \in 1970 .. LastYear /\ z # 1970 /\ z - 1 = 1970 + n
        /\ 1970 + n \in 1970 .. LastYear
    BY DEF LastYear
  <2>2. YearStart[z - 1] = YearDays(z - 1) BY <1>2, <2>1
  <2> HIDE DEF z
  <2>3. YearStart[z] = YearStart[z - 1] + YearLength(z - 1)
    BY <2>1, YearStartRecursion
  <2>4. YearStart[z] = YearDays(z) BY <2>1, <2>2, <2>3, YearDaysRecursion
  <2> QED BY <2>4 DEF z
<1>3. Nat \subseteq T
  <2> HIDE DEF T
  <2> QED BY <1>1, <1>2, SetInduction
<1>4. y - 1970 \in Nat /\ 1970 + (y - 1970) = y BY DEF LastYear
<1> QED BY <1>3, <1>4

\* So are its months.
LEMMA MonthsCounted ==
  ASSUME NEW y \in 1970 .. LastYear, NEW m \in 1 .. 12
  PROVE  MonthStart(y, m) = MonthDays(y, m)
<1> DEFINE Counts(f) ==
      f = [k \in 1 .. 12 |-> IF k = 1 THEN 0 ELSE f[k - 1] + MonthLength(y, k - 1)]
<1> DEFINE g == [k \in 1 .. 12 |-> MonthDays(y, k)]
<1>0. IsLeapYear(y) <=> IsLeap(y) BY DEF IsLeap, IsLeapYear, LastYear
<1>1. ASSUME NEW k \in 2 .. 12
      PROVE  MonthDays(y, k) = MonthDays(y, k - 1) + MonthLength(y, k - 1)
  BY <1>0 DEF MonthDays, MonthLength
<1>2. MonthDays(y, 1) = 0 BY DEF MonthDays
<1>3. Counts(g)
  <2>1. ASSUME NEW k \in 1 .. 12
        PROVE  g[k] = IF k = 1 THEN 0 ELSE g[k - 1] + MonthLength(y, k - 1)
    <3>1. k # 1 => k \in 2 .. 12 /\ k - 1 \in 1 .. 12 OBVIOUS
    <3> QED BY <1>1, <1>2, <3>1
  <2> HIDE DEF g
  <2>2. g = [k \in 1 .. 12 |-> g[k]] BY DEF g
  <2> QED BY <2>1, <2>2
<1> DEFINE before == CHOOSE f : Counts(f)
<1>4. MonthStart(y, m) = before[m] BY DEF MonthStart
<1>5. Counts(before)
  <2> HIDE DEF Counts
  <2> QED BY <1>3
<1> HIDE DEF before
<1>6. before[1] = 0 BY <1>5
<1>7. \A k \in 2 .. 12 : before[k] = before[k - 1] + MonthLength(y, k - 1)
  <2> TAKE k \in 2 .. 12
  <2>1. k \in 1 .. 12 /\ k # 1 OBVIOUS
  <2> QED BY <1>5, <2>1
<1> DEFINE T == {n \in Nat : n + 1 \in 1 .. 12 => before[n + 1] = MonthDays(y, n + 1)}
<1>8. 0 \in T BY <1>2, <1>6
<1>9. ASSUME NEW n \in Nat, n \in T PROVE n + 1 \in T
  <2> SUFFICES ASSUME n + 1 + 1 \in 1 .. 12
               PROVE  before[n + 1 + 1] = MonthDays(y, n + 1 + 1)
    OBVIOUS
  <2>1. n + 1 + 1 \in 2 .. 12 /\ n + 1 \in 1 .. 12 /\ n + 1 + 1 - 1 = n + 1 OBVIOUS
  <2> QED BY <1>1, <1>7, <1>9, <2>1
<1>10. Nat \subseteq T
  <2> HIDE DEF T
  <2> QED BY <1>8, <1>9, SetInduction
<1>11. m - 1 \in Nat /\ m - 1 + 1 = m OBVIOUS
<1> QED BY <1>4, <1>10, <1>11

\* The years follow each other without a gap.
LEMMA YearsOrdered ==
  ASSUME NEW y \in 1970 .. LastYear, NEW z \in 1970 .. LastYear, y < z
  PROVE  YearDays(y) + YearLength(y) <= YearDays(z)
<1>1. y + 1 \in 1971 .. LastYear /\ (y + 1) - 1 = y BY DEF LastYear
<1>2. YearDays(y + 1) = YearDays(y) + YearLength(y) BY <1>1, YearDaysRecursion
<1>3. ASSUME NEW a \in 1970 .. LastYear, NEW b \in 1970 .. LastYear, a <= b
      PROVE  YearDays(a) <= YearDays(b)
  <2>1. (a - 1969) \div 4 <= (b - 1969) \div 4 BY <1>3 DEF LastYear
  <2>2. (b - 1901) \div 100 - (a - 1901) \div 100 <= b - a BY <1>3 DEF LastYear
  <2>3. (a - 1601) \div 400 <= (b - 1601) \div 400 BY <1>3 DEF LastYear
  <2> QED BY <1>3, <2>1, <2>2, <2>3 DEF YearDays, LastYear
<1>4. y + 1 \in 1970 .. LastYear /\ y + 1 <= z BY DEF LastYear
<1> QED BY <1>2, <1>3, <1>4

\* So do the months of a year, and the last one ends with it.
LEMMA MonthsOrdered ==
  ASSUME NEW y \in 1970 .. LastYear, NEW m \in 1 .. 12
  PROVE  /\ MonthDays(y, m) \in Nat
         /\ MonthDays(y, m) + MonthLength(y, m) <= YearLength(y)
         /\ \A k \in 1 .. 12 : m < k => MonthDays(y, m) + MonthLength(y, m) <= MonthDays(y, k)
<1>1. IsLeapYear(y) <=> IsLeap(y) BY DEF IsLeap, IsLeapYear, LastYear
<1>2. MonthDays(y, m) \in Nat BY DEF MonthDays
<1>3. MonthDays(y, m) + MonthLength(y, m) <= YearLength(y)
  BY <1>1 DEF MonthDays, MonthLength, YearLength
<1>4. ASSUME NEW k \in 1 .. 12, m < k
      PROVE  MonthDays(y, m) + MonthLength(y, m) <= MonthDays(y, k)
  BY <1>1, <1>4 DEF MonthDays, MonthLength
<1> QED BY <1>2, <1>3, <1>4

-----------------------------------------------------------------------------
(* Dates in order.                                                          *)

\* One date is not later than another, from the largest unit to the smallest.
NotLater(a, b) ==
  \/ a.year < b.year
  \/ /\ a.year = b.year
     /\ \/ a.month < b.month
        \/ /\ a.month = b.month
           /\ \/ a.day < b.day
              \/ /\ a.day = b.day
                 /\ \/ a.hour < b.hour
                    \/ /\ a.hour = b.hour
                       /\ \/ a.minute < b.minute
                          \/ a.minute = b.minute /\ a.second <= b.second

\* The closed form of get_unix_time is the count of the calendar.
LEMMA CountedTime ==
  ASSUME NEW t \in Dates
  PROVE  TrueTime(t) = << YearDays(t.year) + MonthDays(t.year, t.month) + t.day - 1,
                          t.hour * 3600 + t.minute * 60 + t.second >>
<1>1. t.year \in 1970 .. LastYear /\ t.month \in 1 .. 12 BY DEF Dates, LastYear
<1>2. YearStart[t.year] = YearDays(t.year) BY <1>1, YearsCounted
<1>3. MonthStart(t.year, t.month) = MonthDays(t.year, t.month) BY <1>1, MonthsCounted
<1> QED BY <1>2, <1>3 DEF TrueTime

LEMMA YearDaysType ==
  ASSUME NEW y \in 1970 .. LastYear
  PROVE  YearDays(y) \in Int
BY DEF YearDays, LastYear

Seconds(h, m, s) == h * 3600 + m * 60 + s

IsTime(h, m, s) == h \in 0 .. 23 /\ m \in 0 .. 59 /\ s \in 0 .. 59

LEMMA SecondsOfDay ==
  ASSUME NEW h, NEW m, NEW s, IsTime(h, m, s), NEW i, NEW n, NEW t, IsTime(i, n, t)
  PROVE  /\ Seconds(h, m, s) \in Nat /\ Seconds(i, n, t) \in Nat
         /\ h < i \/ (h = i /\ (m < n \/ (m = n /\ s <= t)))
              => Seconds(h, m, s) <= Seconds(i, n, t)
<1> SUFFICES ASSUME h \in 0 .. 23, m \in 0 .. 59, s \in 0 .. 59,
                    i \in 0 .. 23, n \in 0 .. 59, t \in 0 .. 59
             PROVE  /\ Seconds(h, m, s) \in Nat /\ Seconds(i, n, t) \in Nat
                    /\ h < i \/ (h = i /\ (m < n \/ (m = n /\ s <= t)))
                         => Seconds(h, m, s) <= Seconds(i, n, t)
  BY Zenon DEF IsTime
<1> QED BY DEF Seconds

\* A date of the calendar is not after any date, existing or not, whose
\* fields are not before its own.
LEMMA OrderKept ==
  ASSUME NEW a \in Dates, Exists(a), NEW b \in Dates, NotLater(a, b)
  PROVE  ~ Earlier(TrueTime(b), TrueTime(a))
<1> DEFINE Day(t) == YearDays(t.year) + MonthDays(t.year, t.month) + t.day - 1
<1> DEFINE Sec(t) == Seconds(t.hour, t.minute, t.second)
<1>1. TrueTime(a) = << Day(a), Sec(a) >> /\ TrueTime(b) = << Day(b), Sec(b) >>
  BY CountedTime DEF Seconds
<1>2. /\ a.year \in 1970 .. LastYear /\ a.month \in 1 .. 12 /\ a.day \in 1 .. 31
      /\ a.hour \in 0 .. 23 /\ a.minute \in 0 .. 59 /\ a.second \in 0 .. 59
      /\ b.year \in 1970 .. LastYear /\ b.month \in 1 .. 12 /\ b.day \in 1 .. 31
      /\ b.hour \in 0 .. 23 /\ b.minute \in 0 .. 59 /\ b.second \in 0 .. 59
  BY DEF Dates, LastYear
<1>3. a.day <= MonthLength(a.year, a.month) BY Zenon DEF Exists
<1>12. IsTime(a.hour, a.minute, a.second) /\ IsTime(b.hour, b.minute, b.second)
  BY <1>2 DEF IsTime
<1>4. YearDays(a.year) \in Int /\ YearDays(b.year) \in Int BY <1>2, YearDaysType
<1>5. MonthDays(a.year, a.month) \in Nat /\ MonthDays(b.year, b.month) \in Nat
  BY <1>2, MonthsOrdered
<1>6. MonthLength(a.year, a.month) \in Nat /\ YearLength(a.year) \in Nat
  BY DEF MonthLength, YearLength
<1>7. Day(a) \in Int /\ Day(b) \in Int /\ Sec(a) \in Int /\ Sec(b) \in Int
  <2>1. Day(a) \in Int /\ Day(b) \in Int BY <1>2, <1>4, <1>5
  <2>2. Sec(a) \in Nat /\ Sec(b) \in Nat BY <1>12, SecondsOfDay, Zenon
  <2> QED BY <2>1, <2>2
<1>8. CASE a.year < b.year
  <2>1. YearDays(a.year) + YearLength(a.year) <= YearDays(b.year)
    BY <1>2, <1>8, YearsOrdered
  <2>2. MonthDays(a.year, a.month) + MonthLength(a.year, a.month) <= YearLength(a.year)
    BY <1>2, MonthsOrdered
  <2>3. Day(a) < Day(b) BY <1>2, <1>3, <1>4, <1>5, <1>6, <2>1, <2>2, SMTT(30)
  <2> QED BY <1>1, <1>7, <2>3 DEF Earlier
<1>9. CASE a.year = b.year /\ a.month < b.month
  <2>1. MonthDays(a.year, a.month) + MonthLength(a.year, a.month) <= MonthDays(b.year, b.month)
    BY <1>2, <1>9, MonthsOrdered
  <2>2. Day(a) < Day(b) BY <1>2, <1>3, <1>4, <1>5, <1>6, <1>9, <2>1
  <2> QED BY <1>1, <1>7, <2>2 DEF Earlier
<1>10. CASE a.year = b.year /\ a.month = b.month /\ a.day < b.day
  <2>1. Day(a) < Day(b) BY <1>2, <1>4, <1>5, <1>10
  <2> QED BY <1>1, <1>7, <2>1 DEF Earlier
<1>11. CASE /\ a.year = b.year /\ a.month = b.month /\ a.day = b.day
            /\ \/ a.hour < b.hour
               \/ /\ a.hour = b.hour
                  /\ \/ a.minute < b.minute
                     \/ a.minute = b.minute /\ a.second <= b.second
  <2>1. Day(a) = Day(b) BY <1>11, Zenon
  <2>2. Sec(a) <= Sec(b) BY <1>12, <1>11, SecondsOfDay, Zenon
  <2> HIDE DEF Day, Sec
  <2> QED BY <1>1, <1>7, <2>1, <2>2 DEF Earlier
<1> QED BY <1>8, <1>9, <1>10, <1>11, Zenon DEF NotLater

-----------------------------------------------------------------------------
(***************************************************************************)
(* The inductive invariant.  Mixed is the date that read_rtc would return  *)
(* if it read its remaining registers now.  A read leaves it as it is, and *)
(* a second that passes changes only fields that are still to be read, all *)
(* of them larger units than those read: Mixed never goes back.  Within a  *)
(* minute no field but the seconds changes.                                *)
(***************************************************************************)

\* A register already read, or the field of the clock it will be read from.
ReadOr(r, i, value) == IF i <= Len(r) THEN BcdToBinary(r[i]) ELSE value

YearOr(r, year) == IF 6 <= Len(r) THEN BcdToBinary(r[6]) + 2000 ELSE year

MixedOf(r, t) ==
  [year |-> YearOr(r, t.year), month |-> ReadOr(r, 5, t.month), day |-> ReadOr(r, 4, t.day),
   hour |-> ReadOr(r, 3, t.hour), minute |-> ReadOr(r, 2, t.minute),
   second |-> ReadOr(r, 1, t.second)]

Mixed == MixedOf(regs, now)

\* Two dates in the same minute.
SameMinute(a, b) ==
  a.year = b.year /\ a.month = b.month /\ a.day = b.day /\ a.hour = b.hour /\ a.minute = b.minute

NoCarry ==
  asked.second + ticks < 60 =>
    /\ SameMinute(now, asked) /\ now.second = asked.second + ticks
    /\ now.year < LastYear => SameMinute(Mixed, asked) /\ Mixed.second <= now.second

IInv ==
  /\ now \in Dates /\ Exists(now)
  /\ asked \in Dates /\ Exists(asked)
  /\ ticks \in 0 .. MaxTicks
  /\ regs \in Seq(Nat) /\ Len(regs) \in 0 .. 6
  /\ Mixed \in Dates
  /\ now.year < LastYear => NotLater(asked, Mixed)
  /\ NoCarry
  /\ result # <<>> => Len(regs) = 6 /\ result = UnixTime

-----------------------------------------------------------------------------
(* The operators.                                                           *)

\* bcd_to_binary undoes the two decimal digits of a register.
LEMMA Converted ==
  ASSUME NEW v \in 0 .. 99
  PROVE  /\ (v \div 10) * 16 + (v % 10) \in Nat
         /\ BcdToBinary((v \div 10) * 16 + (v % 10)) = v
<1>1. PICK q \in 0 .. 9, r \in 0 .. 9 : v = 10 * q + r /\ v \div 10 = q /\ v % 10 = r
  <2>1. v \div 10 \in 0 .. 9 /\ v % 10 \in 0 .. 9 /\ v = 10 * (v \div 10) + (v % 10) OBVIOUS
  <2> QED BY <2>1, Zenon
<1>2. (q * 16 + r) % 16 = r /\ (q * 16 + r) \div 16 = q OBVIOUS
<1>3. (r + q * 10) % 256 = r + q * 10 OBVIOUS
<1>4. BcdToBinary(q * 16 + r) = v BY <1>1, <1>2, <1>3 DEF BcdToBinary
<1> QED BY <1>1, <1>4

\* Where each field of a reading is kept.
LEMMA FieldsRead ==
  /\ Field("second") = BcdToBinary(regs[1]) /\ Field("minute") = BcdToBinary(regs[2])
  /\ Field("hour") = BcdToBinary(regs[3]) /\ Field("day") = BcdToBinary(regs[4])
  /\ Field("month") = BcdToBinary(regs[5]) /\ Field("year") = BcdToBinary(regs[6])
<1> DEFINE At(f) == CHOOSE i \in 1 .. 6 : RegisterOrder[i] = f
<1>1. At("second") = 1 BY DEF RegisterOrder
<1>2. At("minute") = 2 BY DEF RegisterOrder
<1>3. At("hour") = 3 BY DEF RegisterOrder
<1>4. At("day") = 4 BY DEF RegisterOrder
<1>5. At("month") = 5 BY DEF RegisterOrder
<1>6. At("year") = 6 BY DEF RegisterOrder
<1> QED BY <1>1, <1>2, <1>3, <1>4, <1>5, <1>6, Zenon DEF Field

\* How far a second carries: the largest unit that changes grows by one.
Carries(t, s) ==
  \/ SameMinute(s, t) /\ s.second = t.second + 1
  \/ t.second = 59 /\ s.year = t.year /\ s.month = t.month /\ s.day = t.day /\ s.hour = t.hour
       /\ s.minute = t.minute + 1
  \/ t.second = 59 /\ s.year = t.year /\ s.month = t.month /\ s.day = t.day /\ s.hour = t.hour + 1
  \/ t.second = 59 /\ s.year = t.year /\ s.month = t.month /\ s.day = t.day + 1
  \/ t.second = 59 /\ s.year = t.year /\ s.month = t.month + 1
  \/ t.second = 59 /\ s.year = t.year + 1

LEMMA SuccessorCarries ==
  ASSUME NEW t \in Dates, Exists(t), t.year < LastYear
  PROVE  Successor(t) \in Dates /\ Exists(Successor(t)) /\ Carries(t, Successor(t))
<1> DEFINE s == Successor(t)
<1> DEFINE midnight == [t EXCEPT !.second = 0, !.minute = 0, !.hour = 0]
<1> DEFINE Made(y, mo, d, h, mi, sec) ==
      s = [year |-> y, month |-> mo, day |-> d, hour |-> h, minute |-> mi, second |-> sec]
<1> DEFINE InRange(y, mo, d, h, mi, sec) ==
      /\ y \in 2000 .. 2100 /\ mo \in 1 .. 12 /\ d \in 1 .. 31 /\ d <= MonthLength(y, mo)
      /\ h \in 0 .. 23 /\ mi \in 0 .. 59 /\ sec \in 0 .. 59
<1>0. \A y, mo : MonthLength(y, mo) \in 28 .. 31 BY DEF MonthLength
<1>1. t = [year |-> t.year, month |-> t.month, day |-> t.day,
           hour |-> t.hour, minute |-> t.minute, second |-> t.second]
  BY DEF Dates
<1>2. /\ t.year \in 2000 .. 2099 /\ t.month \in 1 .. 12 /\ t.day \in 1 .. 31
      /\ t.hour \in 0 .. 23 /\ t.minute \in 0 .. 59 /\ t.second \in 0 .. 59
      /\ t.day <= MonthLength(t.year, t.month)
  BY DEF Dates, Exists, LastYear
<1>3. ASSUME NEW y, NEW mo, NEW d, NEW h, NEW mi, NEW sec,
             Made(y, mo, d, h, mi, sec), InRange(y, mo, d, h, mi, sec)
      PROVE  /\ s \in Dates /\ Exists(s) /\ s.year = y /\ s.month = mo /\ s.day = d
             /\ s.hour = h /\ s.minute = mi /\ s.second = sec
  <2> HIDE DEF s
  <2>1. s.year = y /\ s.month = mo /\ s.day = d /\ s.hour = h /\ s.minute = mi /\ s.second = sec
    BY <1>3
  <2>2. s \in Dates BY <1>3 DEF Dates, LastYear
  <2> QED BY <1>3, <2>1, <2>2 DEF Exists
<1>4. CASE t.second < 59
  <2>1. Made(t.year, t.month, t.day, t.hour, t.minute, t.second + 1)
    <3>1. s = [t EXCEPT !.second = @ + 1] BY <1>4, Zenon DEF Successor
    <3> QED BY <1>1, <3>1, Zenon
  <2>2. InRange(t.year, t.month, t.day, t.hour, t.minute, t.second + 1) BY <1>0, <1>2, <1>4
  <2> HIDE DEF s, Made, InRange
  <2>3. /\ s \in Dates /\ Exists(s) /\ s.year = t.year /\ s.month = t.month /\ s.day = t.day
        /\ s.hour = t.hour /\ s.minute = t.minute /\ s.second = t.second + 1
    BY ONLY <1>3, <2>1, <2>2, Zenon
  <2> QED BY <1>4, <2>3, Zenon DEF Carries, SameMinute, s
<1>5. CASE t.second = 59 /\ t.minute < 59
  <2>1. Made(t.year, t.month, t.day, t.hour, t.minute + 1, 0)
    <3>1. s = [t EXCEPT !.second = 0, !.minute = @ + 1] BY <1>5 DEF Successor
    <3> QED BY <1>1, <3>1, Zenon
  <2>2. InRange(t.year, t.month, t.day, t.hour, t.minute + 1, 0) BY <1>0, <1>2, <1>5
  <2> HIDE DEF s, Made, InRange
  <2>3. /\ s \in Dates /\ Exists(s) /\ s.year = t.year /\ s.month = t.month /\ s.day = t.day
        /\ s.hour = t.hour /\ s.minute = t.minute + 1 /\ s.second = 0
    BY ONLY <1>3, <2>1, <2>2, Zenon
  <2> QED BY <1>5, <2>3, Zenon DEF Carries, SameMinute, s
<1>6. CASE t.second = 59 /\ t.minute = 59 /\ t.hour < 23
  <2>1. Made(t.year, t.month, t.day, t.hour + 1, 0, 0)
    <3>1. s = [t EXCEPT !.second = 0, !.minute = 0, !.hour = @ + 1] BY <1>6 DEF Successor
    <3> QED BY <1>1, <3>1, Zenon
  <2>2. InRange(t.year, t.month, t.day, t.hour + 1, 0, 0) BY <1>0, <1>2, <1>6
  <2> HIDE DEF s, Made, InRange
  <2>3. /\ s \in Dates /\ Exists(s) /\ s.year = t.year /\ s.month = t.month /\ s.day = t.day
        /\ s.hour = t.hour + 1 /\ s.minute = 0 /\ s.second = 0
    BY ONLY <1>3, <2>1, <2>2, Zenon
  <2> QED BY <1>6, <2>3, Zenon DEF Carries, SameMinute, s
<1>7. CASE /\ t.second = 59 /\ t.minute = 59 /\ t.hour = 23
           /\ t.day < MonthLength(t.year, t.month)
  <2>1. Made(t.year, t.month, t.day + 1, 0, 0, 0)
    <3>1. s = [midnight EXCEPT !.day = @ + 1] BY <1>7 DEF Successor
    <3> QED BY <1>1, <3>1, Zenon
  <2>2. InRange(t.year, t.month, t.day + 1, 0, 0, 0) BY <1>0, <1>2, <1>7
  <2> HIDE DEF s, Made, InRange
  <2>3. /\ s \in Dates /\ Exists(s) /\ s.year = t.year /\ s.month = t.month /\ s.day = t.day + 1
        /\ s.hour = 0 /\ s.minute = 0 /\ s.second = 0
    BY ONLY <1>3, <2>1, <2>2, Zenon
  <2> QED BY <1>7, <2>3, Zenon DEF Carries, SameMinute, s
<1>8. CASE /\ t.second = 59 /\ t.minute = 59 /\ t.hour = 23
           /\ ~ (t.day < MonthLength(t.year, t.month)) /\ t.month < 12
  <2>1. Made(t.year, t.month + 1, 1, 0, 0, 0)
    <3>1. s = [midnight EXCEPT !.day = 1, !.month = @ + 1] BY <1>8 DEF Successor
    <3> QED BY <1>1, <3>1, Zenon
  <2>2. InRange(t.year, t.month + 1, 1, 0, 0, 0) BY <1>0, <1>2, <1>8
  <2> HIDE DEF s, Made, InRange
  <2>3. /\ s \in Dates /\ Exists(s) /\ s.year = t.year /\ s.month = t.month + 1 /\ s.day = 1
        /\ s.hour = 0 /\ s.minute = 0 /\ s.second = 0
    BY ONLY <1>3, <2>1, <2>2, Zenon
  <2> QED BY <1>8, <2>3, Zenon DEF Carries, SameMinute, s
<1>9. CASE /\ t.second = 59 /\ t.minute = 59 /\ t.hour = 23
           /\ ~ (t.day < MonthLength(t.year, t.month)) /\ t.month = 12
  <2>1. Made(t.year + 1, 1, 1, 0, 0, 0)
    <3>1. s = [midnight EXCEPT !.day = 1, !.month = 1, !.year = @ + 1] BY <1>9 DEF Successor
    <3> QED BY <1>1, <3>1, Zenon
  <2>2. InRange(t.year + 1, 1, 1, 0, 0, 0) BY <1>0, <1>2, <1>9
  <2> HIDE DEF s, Made, InRange
  <2>3. /\ s \in Dates /\ Exists(s) /\ s.year = t.year + 1 /\ s.month = 1 /\ s.day = 1
        /\ s.hour = 0 /\ s.minute = 0 /\ s.second = 0
    BY ONLY <1>3, <2>1, <2>2, Zenon
  <2> QED BY <1>9, <2>3, Zenon DEF Carries, SameMinute, s
<1>10. /\ t.second < 59 \/ t.second = 59
       /\ t.minute < 59 \/ t.minute = 59
       /\ t.hour < 23 \/ t.hour = 23
       /\ t.month < 12 \/ t.month = 12
  BY <1>2
<1> QED BY <1>4, <1>5, <1>6, <1>7, <1>8, <1>9, <1>10, Zenon

-----------------------------------------------------------------------------
(* The steps.                                                               *)

LEMMA MixedFields ==
  ASSUME NEW r, NEW t
  PROVE  /\ MixedOf(r, t).year = YearOr(r, t.year)
         /\ MixedOf(r, t).month = ReadOr(r, 5, t.month)
         /\ MixedOf(r, t).day = ReadOr(r, 4, t.day)
         /\ MixedOf(r, t).hour = ReadOr(r, 3, t.hour)
         /\ MixedOf(r, t).minute = ReadOr(r, 2, t.minute)
         /\ MixedOf(r, t).second = ReadOr(r, 1, t.second)
BY Zenon DEF MixedOf

LEMMA MixedType ==
  ASSUME NEW r, NEW t, NEW q, q = MixedOf(r, t),
         q.year \in 2000 .. LastYear, q.month \in 1 .. 12, q.day \in 1 .. 31,
         q.hour \in 0 .. 23, q.minute \in 0 .. 59, q.second \in 0 .. 59
  PROVE  q \in Dates
<1>1. q = [year |-> q.year, month |-> q.month, day |-> q.day,
           hour |-> q.hour, minute |-> q.minute, second |-> q.second]
  BY Zenon DEF MixedOf
<1> QED BY <1>1, Zenon DEF Dates

\* A value that is the one expected changes nothing.
LEMMA ReadExpected ==
  ASSUME NEW r \in Seq(Nat), NEW x \in Nat, NEW i \in 1 .. 6, NEW v,
         i = Len(r) + 1 => BcdToBinary(x) = v
  PROVE  ReadOr(Append(r, x), i, v) = ReadOr(r, i, v)
<1>1. PICK n \in Nat : n = Len(r) OBVIOUS
<1>2. Len(Append(r, x)) = n + 1 BY <1>1
<1>3. CASE i <= n
  <2>1. Append(r, x)[i] = r[i] BY <1>1, <1>3
  <2>2. i <= n + 1 BY <1>3
  <2> QED BY <1>1, <1>2, <1>3, <2>1, <2>2, Zenon DEF ReadOr
<1>4. CASE i = n + 1
  <2>1. Append(r, x)[i] = x BY <1>1, <1>4
  <2>2. i <= n + 1 /\ ~ (i <= n) BY <1>4
  <2> QED BY <1>1, <1>2, <1>4, <2>1, <2>2, Zenon DEF ReadOr
<1>5. CASE i > n + 1
  <2>1. ~ (i <= n + 1) /\ ~ (i <= n) BY <1>5
  <2> QED BY <1>1, <1>2, <2>1, Zenon DEF ReadOr
<1> QED BY <1>3, <1>4, <1>5

LEMMA DateFields ==
  ASSUME NEW t \in Dates
  PROVE  /\ t.year \in 2000 .. LastYear /\ t.month \in 1 .. 12 /\ t.day \in 1 .. 31
         /\ t.hour \in 0 .. 23 /\ t.minute \in 0 .. 59 /\ t.second \in 0 .. 59
BY DEF Dates

LEMMA InitIInv == Init => IInv
<1> SUFFICES ASSUME Init PROVE IInv BY Zenon
<1>1. now \in Dates /\ Exists(now) /\ now.year < LastYear BY ClockAssumption, Zenon DEF Init, Exists
<1>2. asked = now /\ ticks = 0 /\ regs = <<>> /\ result = <<>> BY Zenon DEF Init
<1>3. /\ Mixed.year = now.year /\ Mixed.month = now.month /\ Mixed.day = now.day
      /\ Mixed.hour = now.hour /\ Mixed.minute = now.minute /\ Mixed.second = now.second
  BY <1>2 DEF Mixed, MixedOf, ReadOr, YearOr
<1>4. Mixed \in Dates BY <1>1, <1>2 DEF Mixed, MixedOf, ReadOr, YearOr, Dates
<1>5. now.second <= now.second /\ now.second + 0 = now.second
  <2>1. now.second \in 0 .. 59 BY <1>1, DateFields
  <2> QED BY <2>1
<1>6. NotLater(asked, Mixed) BY <1>2, <1>3, <1>5, Zenon DEF NotLater
<1>8. NoCarry BY <1>2, <1>3, <1>5, Zenon DEF NoCarry, SameMinute
<1>7. ticks \in 0 .. MaxTicks BY <1>2, ClockAssumption
<1>9. regs \in Seq(Nat) /\ Len(regs) \in 0 .. 6 BY <1>2
<1> QED BY <1>1, <1>2, <1>4, <1>6, <1>7, <1>8, <1>9, Zenon DEF IInv

\* A read takes the register that Mixed looked at.
LEMMA ReadKeepsMixed ==
  ASSUME IInv, ReadNext
  PROVE  /\ regs' \in Seq(Nat) /\ Len(regs') = Len(regs) + 1
         /\ Mixed'.month = Mixed.month /\ Mixed'.day = Mixed.day /\ Mixed'.hour = Mixed.hour
         /\ Mixed'.minute = Mixed.minute /\ Mixed'.second = Mixed.second
         /\ Mixed'.year \in 2000 .. LastYear
         /\ now.year < LastYear => Mixed'.year = Mixed.year
<1> DEFINE Bcd(v) == (v \div 10) * 16 + (v % 10)
<1> DEFINE x == ReadRtcRegister(RegisterOrder[Len(regs) + 1])
<1>1. /\ now.year \in 2000 .. 2100 /\ now.month \in 1 .. 12 /\ now.day \in 1 .. 31
      /\ now.hour \in 0 .. 23 /\ now.minute \in 0 .. 59 /\ now.second \in 0 .. 59
  BY DateFields DEF IInv, LastYear
<1>2. PICK n \in 0 .. 5 : n = Len(regs)
  <2>1. Len(regs) \in 0 .. 6 /\ Len(regs) < 6 BY Zenon DEF IInv, ReadNext
  <2>2. Len(regs) \in 0 .. 5 BY <2>1
  <2> QED BY <2>2, Zenon
<1>3. ASSUME NEW v \in 0 .. 99 PROVE Bcd(v) \in Nat /\ BcdToBinary(Bcd(v)) = v /\ v % 100 = v
  <2>1. v % 100 = v OBVIOUS
  <2> QED BY <2>1, Converted, Zenon
<1>4. /\ n = 0 => x = Bcd(now.second % 100)
      /\ n = 1 => x = Bcd(now.minute % 100)
      /\ n = 2 => x = Bcd(now.hour % 100)
      /\ n = 3 => x = Bcd(now.day % 100)
      /\ n = 4 => x = Bcd(now.month % 100)
      /\ n = 5 => x = Bcd(now.year % 100)
  <2>1. /\ RegisterOrder[1] = "second" /\ RegisterOrder[2] = "minute"
        /\ RegisterOrder[3] = "hour" /\ RegisterOrder[4] = "day"
        /\ RegisterOrder[5] = "month" /\ RegisterOrder[6] = "year"
    BY Zenon DEF RegisterOrder
  <2>2. \A f : ReadRtcRegister(f) = Bcd(now[f] % 100) BY Zenon DEF ReadRtcRegister
  <2>3. x = ReadRtcRegister(RegisterOrder[n + 1]) BY <1>2, Zenon
  <2> HIDE DEF x, Bcd
  <2> QED BY <2>1, <2>2, <2>3
<1>5. now.year % 100 \in 0 .. 99 /\ (now.year < LastYear => (now.year % 100) + 2000 = now.year)
  BY <1>1 DEF LastYear
<1> HIDE DEF Bcd, x
<1>6. /\ n = 0 => x \in Nat /\ BcdToBinary(x) = now.second
      /\ n = 1 => x \in Nat /\ BcdToBinary(x) = now.minute
      /\ n = 2 => x \in Nat /\ BcdToBinary(x) = now.hour
      /\ n = 3 => x \in Nat /\ BcdToBinary(x) = now.day
      /\ n = 4 => x \in Nat /\ BcdToBinary(x) = now.month
      /\ n = 5 => x \in Nat /\ BcdToBinary(x) = now.year % 100
  <2>1. /\ now.second \in 0 .. 99 /\ now.minute \in 0 .. 99 /\ now.hour \in 0 .. 99
        /\ now.day \in 0 .. 99 /\ now.month \in 0 .. 99
    BY <1>1
  <2> QED BY <1>3, <1>4, <1>5, <2>1, SMTT(30)
<1>7. x \in Nat BY <1>6
<1>8. regs \in Seq(Nat) /\ regs' = Append(regs, x) /\ now' = now BY Zenon DEF IInv, ReadNext, x
<1>9. regs' \in Seq(Nat) /\ Len(regs') = Len(regs) + 1 BY <1>7, <1>8
<1>10. /\ ReadOr(regs', 5, now.month) = ReadOr(regs, 5, now.month)
       /\ ReadOr(regs', 4, now.day) = ReadOr(regs, 4, now.day)
       /\ ReadOr(regs', 3, now.hour) = ReadOr(regs, 3, now.hour)
       /\ ReadOr(regs', 2, now.minute) = ReadOr(regs, 2, now.minute)
       /\ ReadOr(regs', 1, now.second) = ReadOr(regs, 1, now.second)
  <2>1. /\ 5 = Len(regs) + 1 => BcdToBinary(x) = now.month
        /\ 4 = Len(regs) + 1 => BcdToBinary(x) = now.day
        /\ 3 = Len(regs) + 1 => BcdToBinary(x) = now.hour
        /\ 2 = Len(regs) + 1 => BcdToBinary(x) = now.minute
        /\ 1 = Len(regs) + 1 => BcdToBinary(x) = now.second
    BY <1>2, <1>6, SMTT(30)
  <2>2. ASSUME NEW i \in 1 .. 6, NEW v, i = Len(regs) + 1 => BcdToBinary(x) = v
        PROVE  ReadOr(regs', i, v) = ReadOr(regs, i, v)
    BY <1>7, <1>8, <2>2, ReadExpected, Zenon
  <2>3. ReadOr(regs', 5, now.month) = ReadOr(regs, 5, now.month) BY <2>1, <2>2
  <2>4. ReadOr(regs', 4, now.day) = ReadOr(regs, 4, now.day) BY <2>1, <2>2
  <2>5. ReadOr(regs', 3, now.hour) = ReadOr(regs, 3, now.hour) BY <2>1, <2>2
  <2>6. ReadOr(regs', 2, now.minute) = ReadOr(regs, 2, now.minute) BY <2>1, <2>2
  <2>7. ReadOr(regs', 1, now.second) = ReadOr(regs, 1, now.second) BY <2>1, <2>2
  <2> QED BY <2>3, <2>4, <2>5, <2>6, <2>7, Zenon
<1>11. YearOr(regs, now.year) = now.year
  <2>1. ~ (6 <= Len(regs)) BY <1>2
  <2> QED BY <2>1 DEF YearOr
<1>12. /\ YearOr(regs', now.year) \in 2000 .. LastYear
       /\ now.year < LastYear => YearOr(regs', now.year) = now.year
  <2>1. CASE n = 5
    <3>1. regs'[6] = x
      <4>1. Append(regs, x)[Len(regs) + 1] = x BY <1>7, <1>8
      <4>2. Len(regs) + 1 = 6 BY <1>2, <2>1
      <4> QED BY <1>8, <4>1, <4>2, Zenon
    <3>2. 6 <= Len(regs') BY <1>2, <1>9, <2>1
    <3>3. YearOr(regs', now.year) = (now.year % 100) + 2000
      BY <1>6, <2>1, <3>1, <3>2 DEF YearOr
    <3> QED BY <1>5, <3>3 DEF LastYear
  <2>2. CASE n # 5
    <3>1. ~ (6 <= Len(regs')) BY <1>2, <1>9, <2>2, SMTT(30)
    <3>2. YearOr(regs', now.year) = now.year BY <3>1 DEF YearOr
    <3> QED BY <1>1, <3>2 DEF LastYear
  <2> QED BY <2>1, <2>2, Zenon
<1>13. Mixed' = MixedOf(regs', now) BY <1>8, Zenon DEF Mixed
<1> QED BY <1>9, <1>10, <1>11, <1>12, <1>13, MixedFields, SMTT(30) DEF Mixed

\* Fields that can be compared.
Numbers(t) ==
  /\ t.year \in Int /\ t.month \in Int /\ t.day \in Int
  /\ t.hour \in Int /\ t.minute \in Int /\ t.second \in Int

LEMMA DateNumbers ==
  ASSUME NEW t \in Dates
  PROVE  Numbers(t)
BY DateFields DEF Numbers, LastYear

LEMMA NotLaterTransitive ==
  ASSUME NEW a \in Dates, NEW b \in Dates, NEW c \in Dates, NotLater(a, b), NotLater(b, c)
  PROVE  NotLater(a, c)
<1>1. Numbers(a) /\ Numbers(b) /\ Numbers(c) BY DateNumbers, Zenon
<1> QED BY <1>1 DEF Numbers, NotLater

\* A field of the mixed reading stays, or follows the clock.
LEMMA YearFollows ==
  ASSUME NEW r, NEW n, n = Len(r), NEW v, NEW w
  PROVE  /\ w = v => YearOr(r, w) = YearOr(r, v)
         /\ 6 <= n => YearOr(r, w) = YearOr(r, v)
         /\ ~ (6 <= n) => YearOr(r, w) = w /\ YearOr(r, v) = v
         /\ YearOr(r, w) = YearOr(r, v) \/ YearOr(r, w) = w
BY DEF YearOr

\* When a second passes the mixed reading does not go back.
LEMMA MixedAdvances ==
  ASSUME NEW r, NEW n \in 0 .. 6, n = Len(r), NEW t \in Dates, NEW s \in Dates, Carries(t, s),
         MixedOf(r, t) \in Dates
  PROVE  MixedOf(r, s) \in Dates /\ NotLater(MixedOf(r, t), MixedOf(r, s))
<1> DEFINE p == MixedOf(r, t)
<1> DEFINE q == MixedOf(r, s)
<1>1. /\ s.second = t.second => q.second = p.second
      /\ 1 <= n => q.second = p.second
      /\ ~ (1 <= n) => q.second = s.second /\ p.second = t.second
      /\ q.second = p.second \/ q.second = s.second
  <2>1. p.second = ReadOr(r, 1, t.second) /\ q.second = ReadOr(r, 1, s.second) BY MixedFields, Zenon
  <2> HIDE DEF p, q
  <2> QED BY <2>1, Zenon DEF ReadOr
<1>2. /\ s.minute = t.minute => q.minute = p.minute
      /\ 2 <= n => q.minute = p.minute
      /\ ~ (2 <= n) => q.minute = s.minute /\ p.minute = t.minute
      /\ q.minute = p.minute \/ q.minute = s.minute
  <2>1. p.minute = ReadOr(r, 2, t.minute) /\ q.minute = ReadOr(r, 2, s.minute) BY MixedFields, Zenon
  <2> HIDE DEF p, q
  <2> QED BY <2>1, Zenon DEF ReadOr
<1>3. /\ s.hour = t.hour => q.hour = p.hour
      /\ 3 <= n => q.hour = p.hour
      /\ ~ (3 <= n) => q.hour = s.hour /\ p.hour = t.hour
      /\ q.hour = p.hour \/ q.hour = s.hour
  <2>1. p.hour = ReadOr(r, 3, t.hour) /\ q.hour = ReadOr(r, 3, s.hour) BY MixedFields, Zenon
  <2> HIDE DEF p, q
  <2> QED BY <2>1, Zenon DEF ReadOr
<1>4. /\ s.day = t.day => q.day = p.day
      /\ 4 <= n => q.day = p.day
      /\ ~ (4 <= n) => q.day = s.day /\ p.day = t.day
      /\ q.day = p.day \/ q.day = s.day
  <2>1. p.day = ReadOr(r, 4, t.day) /\ q.day = ReadOr(r, 4, s.day) BY MixedFields, Zenon
  <2> HIDE DEF p, q
  <2> QED BY <2>1, Zenon DEF ReadOr
<1>5. /\ s.month = t.month => q.month = p.month
      /\ 5 <= n => q.month = p.month
      /\ ~ (5 <= n) => q.month = s.month /\ p.month = t.month
      /\ q.month = p.month \/ q.month = s.month
  <2>1. p.month = ReadOr(r, 5, t.month) /\ q.month = ReadOr(r, 5, s.month) BY MixedFields, Zenon
  <2> HIDE DEF p, q
  <2> QED BY <2>1, Zenon DEF ReadOr
<1>6. /\ s.year = t.year => q.year = p.year
      /\ 6 <= n => q.year = p.year
      /\ ~ (6 <= n) => q.year = s.year /\ p.year = t.year
      /\ q.year = p.year \/ q.year = s.year
  <2>1. p.year = YearOr(r, t.year) /\ q.year = YearOr(r, s.year) BY MixedFields, Zenon
  <2> HIDE DEF p, q
  <2> QED BY <2>1, YearFollows, ZenonT(30)
<1>7. q \in Dates
  <2>1. /\ p.year \in 2000 .. LastYear /\ p.month \in 1 .. 12 /\ p.day \in 1 .. 31
        /\ p.hour \in 0 .. 23 /\ p.minute \in 0 .. 59 /\ p.second \in 0 .. 59
    BY DateFields
  <2>2. /\ s.year \in 2000 .. LastYear /\ s.month \in 1 .. 12 /\ s.day \in 1 .. 31
        /\ s.hour \in 0 .. 23 /\ s.minute \in 0 .. 59 /\ s.second \in 0 .. 59
    BY DateFields
  <2>3. /\ q.year \in 2000 .. LastYear /\ q.month \in 1 .. 12 /\ q.day \in 1 .. 31
        /\ q.hour \in 0 .. 23 /\ q.minute \in 0 .. 59 /\ q.second \in 0 .. 59
    <3> HIDE DEF p, q
    <3>1. q.second \in 0 .. 59
      <4>1. p.second \in 0 .. 59 /\ s.second \in 0 .. 59 BY <2>1, <2>2
      <4>2. q.second = p.second \/ q.second = s.second BY <1>1, Zenon
      <4> QED BY ONLY <4>1, <4>2, Zenon
    <3>2. q.minute \in 0 .. 59
      <4>1. p.minute \in 0 .. 59 /\ s.minute \in 0 .. 59 BY <2>1, <2>2
      <4>2. q.minute = p.minute \/ q.minute = s.minute BY <1>2, Zenon
      <4> QED BY ONLY <4>1, <4>2, Zenon
    <3>3. q.hour \in 0 .. 23
      <4>1. p.hour \in 0 .. 23 /\ s.hour \in 0 .. 23 BY <2>1, <2>2
      <4>2. q.hour = p.hour \/ q.hour = s.hour BY <1>3, Zenon
      <4> QED BY ONLY <4>1, <4>2, Zenon
    <3>4. q.day \in 1 .. 31
      <4>1. p.day \in 1 .. 31 /\ s.day \in 1 .. 31 BY <2>1, <2>2
      <4>2. q.day = p.day \/ q.day = s.day BY <1>4, Zenon
      <4> QED BY ONLY <4>1, <4>2, Zenon
    <3>5. q.month \in 1 .. 12
      <4>1. p.month \in 1 .. 12 /\ s.month \in 1 .. 12 BY <2>1, <2>2
      <4>2. q.month = p.month \/ q.month = s.month BY <1>5, Zenon
      <4> QED BY ONLY <4>1, <4>2, Zenon
    <3>6. q.year \in 2000 .. LastYear
      <4>1. p.year \in 2000 .. LastYear /\ s.year \in 2000 .. LastYear BY <2>1, <2>2
      <4>2. q.year = p.year \/ q.year = s.year BY <1>6, Zenon
      <4> QED BY ONLY <4>1, <4>2
    <3> QED BY <3>1, <3>2, <3>3, <3>4, <3>5, <3>6
  <2>4. q = [year |-> q.year, month |-> q.month, day |-> q.day,
             hour |-> q.hour, minute |-> q.minute, second |-> q.second]
    BY Zenon DEF MixedOf
  <2> HIDE DEF p, q
  <2> QED BY <2>3, <2>4 DEF Dates
<1>8. Numbers(t) /\ Numbers(s) /\ Numbers(p) BY DateNumbers, Zenon
<1> HIDE DEF p, q
<1>9. p.second <= p.second BY <1>8 DEF Numbers
<1>10. NotLater(p, q)
  <2>1. CASE s.year = t.year /\ s.month = t.month /\ s.day = t.day /\ s.hour = t.hour
           /\ s.minute = t.minute /\ s.second = t.second + 1
    <3>1. q.year = p.year /\ q.month = p.month /\ q.day = p.day /\ q.hour = p.hour
          /\ q.minute = p.minute
      BY <1>6, <1>5, <1>4, <1>3, <1>2, <2>1, Zenon
    <3>2. CASE 1 <= n
      <4>1. 1 <= n BY <3>2, Zenon
      <4>2. q.second = p.second
        BY <1>1, <4>1, Zenon
      <4> QED BY <1>9, <3>1, <4>2, Zenon DEF NotLater
    <3>3. CASE ~ (1 <= n)
      <4>1. q.second = t.second + 1 /\ p.second = t.second BY <1>1, <2>1, <3>3, Zenon
      <4>2. p.second <= q.second BY <1>8, <4>1 DEF Numbers
      <4> QED BY <3>1, <4>2, Zenon DEF NotLater
    <3> QED BY <3>2, <3>3, Zenon
  <2>2. CASE s.year = t.year /\ s.month = t.month /\ s.day = t.day /\ s.hour = t.hour
           /\ s.minute = t.minute + 1
    <3>1. q.year = p.year /\ q.month = p.month /\ q.day = p.day /\ q.hour = p.hour
      BY <1>6, <1>5, <1>4, <1>3, <2>2, Zenon
    <3>2. CASE 2 <= n
      <4>1. 1 <= n /\ 2 <= n BY <3>2
      <4>2. q.minute = p.minute /\ q.second = p.second
        BY <1>1, <1>2, <4>1, Zenon
      <4> QED BY <1>9, <3>1, <4>2, Zenon DEF NotLater
    <3>3. CASE ~ (2 <= n)
      <4>1. q.minute = t.minute + 1 /\ p.minute = t.minute BY <1>2, <2>2, <3>3, Zenon
      <4>2. p.minute < q.minute BY <1>8, <4>1 DEF Numbers
      <4> QED BY <3>1, <4>2, Zenon DEF NotLater
    <3> QED BY <3>2, <3>3, Zenon
  <2>3. CASE s.year = t.year /\ s.month = t.month /\ s.day = t.day /\ s.hour = t.hour + 1
    <3>1. q.year = p.year /\ q.month = p.month /\ q.day = p.day
      BY <1>6, <1>5, <1>4, <2>3, Zenon
    <3>2. CASE 3 <= n
      <4>1. 1 <= n /\ 2 <= n /\ 3 <= n BY <3>2
      <4>2. q.hour = p.hour /\ q.minute = p.minute /\ q.second = p.second
        BY <1>1, <1>2, <1>3, <4>1, Zenon
      <4> QED BY <1>9, <3>1, <4>2, Zenon DEF NotLater
    <3>3. CASE ~ (3 <= n)
      <4>1. q.hour = t.hour + 1 /\ p.hour = t.hour BY <1>3, <2>3, <3>3, Zenon
      <4>2. p.hour < q.hour BY <1>8, <4>1 DEF Numbers
      <4> QED BY <3>1, <4>2, Zenon DEF NotLater
    <3> QED BY <3>2, <3>3, Zenon
  <2>4. CASE s.year = t.year /\ s.month = t.month /\ s.day = t.day + 1
    <3>1. q.year = p.year /\ q.month = p.month
      BY <1>6, <1>5, <2>4, Zenon
    <3>2. CASE 4 <= n
      <4>1. 1 <= n /\ 2 <= n /\ 3 <= n /\ 4 <= n BY <3>2
      <4>2. q.day = p.day /\ q.hour = p.hour /\ q.minute = p.minute
            /\ q.second = p.second
        BY <1>1, <1>2, <1>3, <1>4, <4>1, Zenon
      <4> QED BY <1>9, <3>1, <4>2, Zenon DEF NotLater
    <3>3. CASE ~ (4 <= n)
      <4>1. q.day = t.day + 1 /\ p.day = t.day BY <1>4, <2>4, <3>3, Zenon
      <4>2. p.day < q.day BY <1>8, <4>1 DEF Numbers
      <4> QED BY <3>1, <4>2, Zenon DEF NotLater
    <3> QED BY <3>2, <3>3, Zenon
  <2>5. CASE s.year = t.year /\ s.month = t.month + 1
    <3>1. q.year = p.year
      BY <1>6, <2>5, Zenon
    <3>2. CASE 5 <= n
      <4>1. 1 <= n /\ 2 <= n /\ 3 <= n /\ 4 <= n /\ 5 <= n BY <3>2
      <4>2. q.month = p.month /\ q.day = p.day /\ q.hour = p.hour
            /\ q.minute = p.minute /\ q.second = p.second
        BY <1>1, <1>2, <1>3, <1>4, <1>5, <4>1, Zenon
      <4> QED BY <1>9, <3>1, <4>2, Zenon DEF NotLater
    <3>3. CASE ~ (5 <= n)
      <4>1. q.month = t.month + 1 /\ p.month = t.month BY <1>5, <2>5, <3>3, Zenon
      <4>2. p.month < q.month BY <1>8, <4>1 DEF Numbers
      <4> QED BY <3>1, <4>2, Zenon DEF NotLater
    <3> QED BY <3>2, <3>3, Zenon
  <2>6. CASE s.year = t.year + 1
    <3>2. CASE 6 <= n
      <4>1. 1 <= n /\ 2 <= n /\ 3 <= n /\ 4 <= n /\ 5 <= n /\ 6 <= n BY <3>2
      <4>2. q.year = p.year /\ q.month = p.month /\ q.day = p.day /\ q.hour = p.hour
            /\ q.minute = p.minute /\ q.second = p.second
        BY <1>1, <1>2, <1>3, <1>4, <1>5, <1>6, <4>1, Zenon
      <4> QED BY <1>9, <4>2, Zenon DEF NotLater
    <3>3. CASE ~ (6 <= n)
      <4>1. q.year = t.year + 1 /\ p.year = t.year BY <1>6, <2>6, <3>3, Zenon
      <4>2. p.year < q.year BY <1>8, <4>1 DEF Numbers
      <4> QED BY <4>2, Zenon DEF NotLater
    <3> QED BY <3>2, <3>3, Zenon
  <2> QED BY <2>1, <2>2, <2>3, <2>4, <2>5, <2>6, Zenon DEF Carries, SameMinute
<1> QED BY <1>7, <1>10, Zenon DEF p, q

LEMMA ReadNextPreserves == IInv /\ ReadNext => IInv'
<1> SUFFICES ASSUME IInv, ReadNext PROVE IInv' BY Zenon
<1>1. now' = now /\ ticks' = ticks /\ asked' = asked /\ result' = result BY Zenon DEF ReadNext
<1>2. /\ regs' \in Seq(Nat) /\ Len(regs') = Len(regs) + 1
      /\ Mixed'.month = Mixed.month /\ Mixed'.day = Mixed.day /\ Mixed'.hour = Mixed.hour
      /\ Mixed'.minute = Mixed.minute /\ Mixed'.second = Mixed.second
      /\ Mixed'.year \in 2000 .. LastYear
      /\ now.year < LastYear => Mixed'.year = Mixed.year
  BY ReadKeepsMixed, Zenon
<1>3. Len(regs') \in 0 .. 6
  <2>1. Len(regs) \in 0 .. 6 /\ Len(regs) < 6 BY Zenon DEF IInv, ReadNext
  <2>2. Len(regs') = Len(regs) + 1 BY <1>2
  <2> QED BY <2>1, <2>2
<1>4. Mixed' \in Dates
  <2>1. /\ Mixed.month \in 1 .. 12 /\ Mixed.day \in 1 .. 31 /\ Mixed.hour \in 0 .. 23
        /\ Mixed.minute \in 0 .. 59 /\ Mixed.second \in 0 .. 59
    BY DateFields DEF IInv
  <2>2. Mixed' = MixedOf(regs', now') BY Zenon DEF Mixed
  <2>3. /\ Mixed'.month \in 1 .. 12 /\ Mixed'.day \in 1 .. 31 /\ Mixed'.hour \in 0 .. 23
        /\ Mixed'.minute \in 0 .. 59 /\ Mixed'.second \in 0 .. 59
        /\ Mixed'.year \in 2000 .. LastYear
    BY <1>2, <2>1
  <2> QED BY <2>2, <2>3, MixedType
<1>5. now'.year < LastYear => NotLater(asked', Mixed')
  <2> SUFFICES ASSUME now.year < LastYear PROVE NotLater(asked, Mixed') BY <1>1, Zenon
  <2>1. NotLater(asked, Mixed) BY Zenon DEF IInv
  <2> QED BY <1>2, <2>1 DEF NotLater
<1>6. NoCarry'
  <2> SUFFICES ASSUME asked.second + ticks < 60
               PROVE  /\ SameMinute(now, asked) /\ now.second = asked.second + ticks
                      /\ now.year < LastYear =>
                           SameMinute(Mixed', asked) /\ Mixed'.second <= now.second
    BY <1>1, Zenon DEF NoCarry
  <2>1. /\ SameMinute(now, asked) /\ now.second = asked.second + ticks
        /\ now.year < LastYear => SameMinute(Mixed, asked) /\ Mixed.second <= now.second
    BY Zenon DEF IInv, NoCarry
  <2> QED BY <1>2, <2>1 DEF SameMinute
<1>7. result' = <<>> 
  <2>1. Len(regs) \in 0 .. 6 /\ Len(regs) < 6 BY Zenon DEF IInv, ReadNext
  <2>2. Len(regs) # 6 BY <2>1
  <2> QED BY <1>1, <2>2, Zenon DEF IInv
<1>8. now' \in Dates /\ Exists(now)' /\ asked' \in Dates /\ Exists(asked)' /\ ticks' \in 0 .. MaxTicks
  BY <1>1, Zenon DEF IInv, Exists
<1> QED BY <1>2, <1>3, <1>4, <1>5, <1>6, <1>7, <1>8 DEF IInv

\* The time computed depends on the registers read and on nothing else.
LEMMA UnixTimeKept ==
  ASSUME regs' = regs
  PROVE  UnixTime' = UnixTime
<1>1. \A f : Field(f)' = Field(f) BY Zenon DEF Field
<1> QED BY ONLY <1>1, SMTT(30) DEF UnixTime, IsLeapYear

LEMMA GetUnixTimePreserves == IInv /\ GetUnixTime => IInv'
<1> SUFFICES ASSUME IInv, GetUnixTime PROVE IInv' BY Zenon
<1>1. /\ now' = now /\ ticks' = ticks /\ asked' = asked /\ regs' = regs
      /\ Len(regs) = 6 /\ result' = UnixTime
  BY SMTT(30) DEF GetUnixTime
<1>2. Mixed' = Mixed /\ UnixTime' = UnixTime
  <2>1. Mixed' = Mixed BY <1>1, Zenon DEF Mixed
  <2>2. UnixTime' = UnixTime BY ONLY <1>1, UnixTimeKept
  <2> QED BY <2>1, <2>2, Zenon
<1>3. NoCarry' BY <1>1, <1>2, Zenon DEF IInv, NoCarry
<1> QED BY <1>1, <1>2, <1>3, Zenon DEF IInv, Exists

LEMMA TickPreserves == IInv /\ Tick => IInv'
<1> SUFFICES ASSUME IInv, Tick PROVE IInv' BY Zenon
<1>1. /\ now' = Successor(now) /\ now.year < LastYear
      /\ ticks \in 0 .. MaxTicks /\ ticks < MaxTicks /\ ticks' = ticks + 1
      /\ asked' = asked /\ regs' = regs /\ result' = result /\ result = <<>>
  BY Zenon DEF Tick, IInv
<1>2. now' \in Dates /\ Exists(now') /\ Carries(now, now')
  BY <1>1, SuccessorCarries, Zenon DEF IInv
<1>3. PICK n \in 0 .. 6 : n = Len(regs) BY Zenon DEF IInv
<1>4. Mixed' = MixedOf(regs, now') /\ Mixed = MixedOf(regs, now) BY <1>1, Zenon DEF Mixed
<1>5. Mixed' \in Dates /\ NotLater(Mixed, Mixed')
  <2>1. now \in Dates /\ MixedOf(regs, now) \in Dates BY <1>4, Zenon DEF IInv
  <2> QED BY <1>2, <1>3, <1>4, <2>1, MixedAdvances, Zenon
<1>6. NotLater(asked, Mixed')
  <2>1. asked \in Dates /\ Mixed \in Dates /\ NotLater(asked, Mixed) BY <1>1, Zenon DEF IInv
  <2> QED BY <1>5, <2>1, NotLaterTransitive, Zenon
<1>7. ticks' \in 0 .. MaxTicks BY <1>1, ClockAssumption
<1>8. NoCarry'
  <2> SUFFICES ASSUME asked.second + (ticks + 1) < 60
               PROVE  /\ SameMinute(now', asked) /\ now'.second = asked.second + (ticks + 1)
                      /\ SameMinute(Mixed', asked) /\ Mixed'.second <= now'.second
    BY <1>1, Zenon DEF NoCarry
  <2>1. /\ asked.second \in 0 .. 59 /\ now.second \in 0 .. 59 /\ Mixed.second \in 0 .. 59
        /\ ticks \in Nat
    <3>1. ticks \in Nat BY <1>1, ClockAssumption
    <3> QED BY <3>1, DateFields DEF IInv
  <2>2. asked.second + ticks < 60 BY <2>1
  <2>3. /\ SameMinute(now, asked) /\ now.second = asked.second + ticks
        /\ SameMinute(Mixed, asked) /\ Mixed.second <= now.second
    BY <1>1, <2>2, Zenon DEF IInv, NoCarry
  <2>4. now.second # 59 BY <2>1, <2>3
  <2>5. SameMinute(now', now) /\ now'.second = now.second + 1 BY <1>2, <2>4, Zenon DEF Carries
  <2>6. SameMinute(Mixed', Mixed) /\ (Mixed'.second = Mixed.second \/ Mixed'.second = now'.second)
    <3>1. /\ YearOr(regs, now'.year) = YearOr(regs, now.year)
          /\ ReadOr(regs, 5, now'.month) = ReadOr(regs, 5, now.month)
          /\ ReadOr(regs, 4, now'.day) = ReadOr(regs, 4, now.day)
          /\ ReadOr(regs, 3, now'.hour) = ReadOr(regs, 3, now.hour)
          /\ ReadOr(regs, 2, now'.minute) = ReadOr(regs, 2, now.minute)
      BY <2>5, Zenon DEF SameMinute
    <3>2. \/ ReadOr(regs, 1, now'.second) = ReadOr(regs, 1, now.second)
          \/ ReadOr(regs, 1, now'.second) = now'.second
      BY Zenon DEF ReadOr
    <3> QED BY <1>4, <3>1, <3>2, MixedFields DEF SameMinute
  <2>7. now'.second = asked.second + (ticks + 1) BY <2>1, <2>3, <2>5
  <2>8. Mixed'.second <= now'.second BY <2>1, <2>3, <2>5, <2>6, SMTT(30)
  <2>9. SameMinute(now', asked) /\ SameMinute(Mixed', asked)
    BY <2>3, <2>5, <2>6, Zenon DEF SameMinute
  <2> QED BY <2>7, <2>8, <2>9, Zenon
<1>9. asked' = asked /\ asked' \in Dates /\ Exists(asked)' /\ regs' \in Seq(Nat) /\ Len(regs') \in 0 .. 6
      /\ result' = <<>>
  BY <1>1, Zenon DEF IInv, Exists
<1>10. Exists(now)' BY <1>2, Zenon DEF Exists
<1>11. NotLater(asked, Mixed)' BY <1>6, <1>9, Zenon DEF NotLater
<1> QED BY <1>2, <1>5, <1>7, <1>8, <1>9, <1>10, <1>11, Zenon DEF IInv

LEMMA Invariance == Spec => []IInv
<1>1. IInv /\ [Next]_vars => IInv'
  <2> SUFFICES ASSUME IInv, [Next]_vars PROVE IInv' BY Zenon
  <2>1. CASE ReadNext BY <2>1, ReadNextPreserves, Zenon
  <2>2. CASE GetUnixTime BY <2>2, GetUnixTimePreserves, Zenon
  <2>3. CASE Tick BY <2>3, TickPreserves, Zenon
  <2>4. CASE UNCHANGED vars
    <3>1. now' = now /\ ticks' = ticks /\ asked' = asked /\ regs' = regs /\ result' = result
      BY <2>4, Zenon DEF vars
    <3>2. Mixed' = Mixed /\ UnixTime' = UnixTime
      <4>1. Mixed' = Mixed BY <3>1, Zenon DEF Mixed
      <4>2. UnixTime' = UnixTime BY ONLY <3>1, UnixTimeKept
      <4> QED BY <4>1, <4>2, Zenon
    <3>3. NoCarry' BY <3>1, <3>2, Zenon DEF IInv, NoCarry
    <3> QED BY <3>1, <3>2, <3>3, Zenon DEF IInv, Exists
  <2> QED BY <2>1, <2>2, <2>3, <2>4, Zenon DEF Next
<1> QED BY <1>1, InitIInv, PTL DEF Spec

-----------------------------------------------------------------------------
(* The theorems.                                                            *)

LEMMA ReadingIsMixed ==
  ASSUME Len(regs) = 6
  PROVE  Reading = Mixed
<1>1. /\ Field("second") = ReadOr(regs, 1, now.second) /\ Field("minute") = ReadOr(regs, 2, now.minute)
      /\ Field("hour") = ReadOr(regs, 3, now.hour) /\ Field("day") = ReadOr(regs, 4, now.day)
      /\ Field("month") = ReadOr(regs, 5, now.month) /\ Field("year") + 2000 = YearOr(regs, now.year)
  BY FieldsRead, SMTT(30) DEF ReadOr, YearOr
<1> QED BY <1>1 DEF Reading, Mixed, MixedOf

\* It counts right from 2000 to the last year of the clock.
LEMMA DaysCountedRight ==
  ASSUME NEW y \in 2000 .. LastYear, NEW m \in 1 .. 12, NEW d \in 1 .. 31
  PROVE  DaysCounted(y, m, d) = YearDays(y) + MonthDays(y, m) + d - 1
BY DEF DaysCounted, YearDays, MonthDays, LastYear

\* get_unix_time computes the Unix time of the date it has read.
LEMMA UnixTimeOfReading ==
  ASSUME Reading \in Dates
  PROVE  UnixTime = TrueTime(Reading)
<1> DEFINE y == Field("year") + 2000
<1> DEFINE m == Field("month")
<1> DEFINE d == Field("day")
<1> DEFINE sec == Field("hour") * 3600 + Field("minute") * 60 + Field("second")
<1>1. /\ Reading.year = y /\ Reading.month = m /\ Reading.day = d
      /\ Reading.hour = Field("hour") /\ Reading.minute = Field("minute")
      /\ Reading.second = Field("second")
  BY DEF Reading
<1>2. TrueTime(Reading) = << YearDays(y) + MonthDays(y, m) + d - 1, sec >>
  BY <1>1, CountedTime
<1>3. y \in 2000 .. LastYear /\ m \in 1 .. 12 /\ d \in 1 .. 31
  BY ONLY Reading \in Dates, <1>1, DateFields, SMTT(30)
<1>4. UnixTime = << DaysCounted(y, m, d), sec >> BY UnixTimeCounts, Zenon
<1> HIDE DEF y, m, d, sec
<1>5. DaysCounted(y, m, d) = YearDays(y) + MonthDays(y, m) + d - 1 BY ONLY <1>3, DaysCountedRight
<1> QED BY <1>2, <1>4, <1>5, Zenon

\* Every register byte converts to a value its field can have, at every date
\* of the century.
THEOREM ClockTypeCorrect == Spec => []TypeOK
<1>1. IInv => TypeOK
  <2> SUFFICES ASSUME IInv PROVE TypeOK BY Zenon
  <2>1. Len(regs) = 6 => Reading \in Dates BY ReadingIsMixed, Zenon DEF IInv
  <2>2. Len(regs) <= 6
    <3>1. PICK n \in 0 .. 6 : n = Len(regs) BY Zenon DEF IInv
    <3>2. n <= 6 OBVIOUS
    <3> QED BY <3>1, <3>2, Zenon
  <2> QED BY <2>1, <2>2, Zenon DEF IInv, TypeOK
<1> QED BY <1>1, Invariance, PTL

\* The closed form of get_unix_time and the unprotected reads of read_rtc
\* give a time of the call, for every date and length of the call, unless a
\* minute ends while the registers are read.
THEOREM ReadingsRight == Spec => []WrongOnlyAtCarry
<1>1. IInv => WrongOnlyAtCarry
  <2> SUFFICES ASSUME IInv, result # <<>>, now.year < LastYear, asked.second + ticks < 60
               PROVE  ~ Earlier(result, TrueTime(asked)) /\ ~ Earlier(TrueTime(now), result)
    BY Zenon DEF WrongOnlyAtCarry
  <2>1. Mixed \in Dates /\ Reading = Mixed /\ result = TrueTime(Mixed)
    BY ReadingIsMixed, UnixTimeOfReading, Zenon DEF IInv
  <2>2. asked \in Dates /\ Exists(asked) /\ now \in Dates /\ NotLater(asked, Mixed) BY Zenon DEF IInv
  <2>3. ~ Earlier(TrueTime(Mixed), TrueTime(asked)) BY <2>1, <2>2, OrderKept, Zenon
  <2>4. /\ SameMinute(now, asked) /\ SameMinute(Mixed, asked) /\ Mixed.second <= now.second
    BY Zenon DEF IInv, NoCarry
  <2>5. Exists(Mixed) BY <2>1, <2>2, <2>4, Zenon DEF Exists, SameMinute
  <2>6. NotLater(Mixed, now) BY <2>4, Zenon DEF NotLater, SameMinute
  <2>7. ~ Earlier(TrueTime(now), TrueTime(Mixed)) BY <2>1, <2>2, <2>5, <2>6, OrderKept, Zenon
  <2> QED BY <2>1, <2>3, <2>7, Zenon
<1> QED BY <1>1, Invariance, PTL

\* Even when registers of before and after a carry are mixed, get_unix_time
\* does not go back behind the moment it was called.
THEOREM NeverBack == Spec => []NeverBeforeCall
<1>1. IInv => NeverBeforeCall
  <2> SUFFICES ASSUME IInv, result # <<>>, now.year < LastYear
               PROVE  ~ Earlier(result, TrueTime(asked))
    BY Zenon DEF NeverBeforeCall
  <2>1. Mixed \in Dates /\ Reading = Mixed /\ result = TrueTime(Mixed)
    BY ReadingIsMixed, UnixTimeOfReading, Zenon DEF IInv
  <2>2. asked \in Dates /\ Exists(asked) /\ NotLater(asked, Mixed) BY Zenon DEF IInv
  <2> QED BY <2>1, <2>2, OrderKept, Zenon
<1> QED BY <1>1, Invariance, PTL
=============================================================================
