------------------------------ MODULE VrtcClock ------------------------------
(***************************************************************************)
(* The conversions of the real time clock (vrtc.c): seconds since 1970 to  *)
(* the date and time registers, in the format register B selects, and      *)
(* back.  A step is the next day, or a change of format.                   *)
(***************************************************************************)
EXTENDS Integers

CONSTANTS
  FirstDays,     \* days since 1970 the walk starts at
  Length,        \* its length in days
  SecsOfDay      \* the seconds of a day that are looked at

VARIABLES first, day, secs, bin, h24
vars == <<first, day, secs, bin, h24>>

\* Mutant: the years 2100, 2200 and 2300 are leap years.
LeapEveryFour(year) == IF year % 4 = 0 THEN 1 ELSE 0

leapyear(year) == IF year % 4 = 0 /\ (year % 100 # 0 \/ year % 400 = 0) THEN 1 ELSE 0

days_in_year(y) == 365 + leapyear(y)

month_days == <<31, 28, 31, 30, 31, 30, 31, 31, 30, 31, 30, 31>>
days_in_month(y, m) == month_days[m] + (IF m = 2 THEN leapyear(y) ELSE 0)

\* clock_ts_to_ct: whole years, then whole months are subtracted.
clock_ts_to_ct(days, rsec) ==
  LET Y[p \in Nat \X Nat] == IF p[2] < days_in_year(p[1]) THEN p
                             ELSE Y[<<p[1] + 1, p[2] - days_in_year(p[1])>>]
      y == Y[<<1970, days>>]
      M[p \in Nat \X Nat] == IF p[2] < days_in_month(y[1], p[1]) THEN p
                             ELSE M[<<p[1] + 1, p[2] - days_in_month(y[1], p[1])>>]
      m == M[<<1, y[2]>>]
  IN [year |-> y[1], mon |-> m[1], day |-> m[2] + 1, hour |-> rsec \div 3600,
      min |-> (rsec % 3600) \div 60, sec |-> rsec % 60]

\* clock_ct_to_ts, as days and seconds; <<-1, -1>> is EINVAL.
clock_ct_to_ts(ct) ==
  LET Y[y \in Nat] == IF y = 1970 THEN 0 ELSE Y[y - 1] + days_in_year(y - 1)
      M[m \in Nat] == IF m = 1 THEN 0 ELSE M[m - 1] + days_in_month(ct.year, m - 1)
  IN IF ct.mon \notin 1 .. 12 \/ ct.day < 1 \/ ct.day > days_in_month(ct.year, ct.mon)
          \/ ct.hour > 23 \/ ct.min > 59 \/ ct.sec > 59
     THEN <<-1, -1>>
     ELSE <<Y[ct.year] + M[ct.mon] + ct.day - 1, (ct.hour * 60 + ct.min) * 60 + ct.sec>>

\* bin2bcd_data and rtcset.
rtcset(val) == IF bin THEN val ELSE 16 * (val \div 10) + (val % 10)

\* rtcget; -1 is its error.
rtcget(val) ==
  LET lower == val % 16   upper == (val \div 16) % 16
  IN IF bin THEN val ELSE IF lower > 9 \/ upper > 9 THEN -1 ELSE 10 * upper + lower

\* secs_to_rtc.
secs_to_rtc(ct) ==
  LET hour == IF h24 THEN ct.hour ELSE IF ct.hour \in {0, 12} THEN 12 ELSE ct.hour % 12
      pm == IF ~h24 /\ ct.hour >= 12 THEN 128 ELSE 0
  IN [sec |-> rtcset(ct.sec), min |-> rtcset(ct.min), hour |-> rtcset(hour) + pm,
      day |-> rtcset(ct.day), month |-> rtcset(ct.mon),
      year |-> rtcset(ct.year % 100), century |-> rtcset(ct.year \div 100)]

\* rtc_to_secs.
rtc_to_secs(rtc) ==
  LET pm == ~h24 /\ rtc.hour >= 128
      h == rtcget(IF pm THEN rtc.hour - 128 ELSE rtc.hour)
      hour == IF h24 THEN h ELSE (IF h = 12 THEN 0 ELSE h) + (IF pm THEN 12 ELSE 0)
      year == rtcget(rtc.year)   century == rtcget(rtc.century)
      ct == [sec |-> rtcget(rtc.sec), min |-> rtcget(rtc.min), hour |-> hour,
             day |-> rtcget(rtc.day), mon |-> rtcget(rtc.month),
             year |-> 100 * century + year]
      invalid == \/ \E f \in DOMAIN ct : ct[f] < 0
                 \/ ct.sec > 59 \/ ct.min > 59 \/ (~h24 /\ h \notin 1 .. 12)
                 \/ ct.day \notin 1 .. 31 \/ year \notin 0 .. 99
                 \/ century < 0 \/ ct.year < 1900
  IN IF invalid THEN <<-1, -1>> ELSE clock_ct_to_ts(ct)

-----------------------------------------------------------------------------
Init ==
  /\ first \in FirstDays /\ day = first
  /\ secs \in SecsOfDay /\ bin = FALSE /\ h24 = TRUE

NextDay == day < first + Length /\ day' = day + 1 /\ UNCHANGED <<first, secs, bin, h24>>

\* The guest selects BCD or binary, and 12 or 24 hours, in register B.
Format ==
  /\ bin' \in BOOLEAN /\ h24' \in BOOLEAN
  /\ UNCHANGED <<first, day, secs>>

Next == NextDay \/ Format

-----------------------------------------------------------------------------
\* Days from 1970 to the first of the month in the Gregorian calendar, by the
\* usual closed formula that lets the year begin in March.
CivilDays(y0, m, d) ==
  LET y == IF m <= 2 THEN y0 - 1 ELSE y0
      doy == (153 * (m + (IF m > 2 THEN -3 ELSE 9)) + 2) \div 5 + d - 1
  IN 365 * y + (y \div 4) - (y \div 100) + (y \div 400) + doy - 719468

\* What the clock shows is the date of the Gregorian calendar, and what the
\* guest reads and writes back in the same format is the same time: the
\* conversions have no day, century, midnight or noon at which they err.
CalendarExact ==
  LET ct == clock_ts_to_ct(day, secs)
  IN /\ CivilDays(ct.year, ct.mon, ct.day) = day
     /\ rtc_to_secs(secs_to_rtc(ct)) = <<day, secs>>
=============================================================================
