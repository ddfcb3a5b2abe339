------------------------------ MODULE Calendar ------------------------------
(***************************************************************************)
(* Dates: ngx_gmtime, which every header and log line goes through, and    *)
(* the formula at the end of ngx_parse_http_time, which reads the dates of *)
(* requests.  Only whole days are kept; both treat the time of the day by  *)
(* plain division.                                                         *)
(***************************************************************************)
EXTENDS Integers

Leap(year) == year % 4 = 0 /\ (year % 100 # 0 \/ year % 400 = 0)

\* Days of the years before, from March 1, 1 BC.
YearDays(year) == 365 * year + year \div 4 - (year \div 100) + year \div 400

\* Faulty variant: the guess of the year is not corrected.
CorrectedNever(days, year) == <<year, days - YearDays(year)>>

\* The year that was guessed may be one too many.
Corrected(days, year) ==
    LET yday == days - YearDays(year)
    IN  IF yday >= 0 THEN <<year, yday>>
        ELSE <<year - 1, 365 + (IF Leap(year) THEN 1 ELSE 0) + yday>>

\* ngx_gmtime, from days since January 1, 1970; months from 1.
GmTime(days) ==
    LET d == days - (31 + 28) + 719527
        c == Corrected(d, ((d + 2) * 400) \div (365 * 400 + 100 - 4 + 1))
        year == c[1]
        yday == c[2]
        mon == ((yday + 31) * 10) \div 306
        mday == yday - ((367 * mon) \div 12 - 30) + 1
    IN  [year |-> IF yday >= 306 THEN year + 1 ELSE year,
         mon |-> IF yday >= 306 THEN mon - 10 ELSE mon + 2,
         mday |-> mday, wday |-> (4 + days) % 7]

DaysIn(year, mon) ==
    CASE mon = 2 -> IF Leap(year) THEN 29 ELSE 28
      [] mon \in {4, 6, 9, 11} -> 30
      [] OTHER -> 31

\* ngx_parse_http_time: whether the date is accepted, and the day it is.
Accepted(year, mon, day) ==
    IF day = 29 /\ mon = 2 THEN Leap(year) ELSE day <= (IF mon = 2 THEN 28 ELSE DaysIn(year, mon))

\* The year begins with March.
ShiftedYear(year, mon) == IF mon <= 2 THEN <<year - 1, mon + 10>> ELSE <<year, mon - 2>>
HttpTime(year, mon, day) ==
    LET s == ShiftedYear(year, mon)
    IN  YearDays(s[1]) + (367 * s[2]) \div 12 - 30 + day - 1 - 719527 + 31 + 28

-----------------------------------------------------------------------------
(* Properties of a number of days since January 1, 1970.                   *)

Tomorrow(t) ==
    IF t.mday < DaysIn(t.year, t.mon) THEN [t EXCEPT !.mday = @ + 1, !.wday = (@ + 1) % 7]
    ELSE IF t.mon < 12 THEN [t EXCEPT !.mday = 1, !.mon = @ + 1, !.wday = (@ + 1) % 7]
    ELSE [t EXCEPT !.mday = 1, !.mon = 1, !.year = @ + 1, !.wday = (@ + 1) % 7]

\* The closed formula counts like a calendar: the day after is the next date, over
\* the ends of months, leap days and the years that are no leap years; and day 0
\* is Thursday, January 1, 1970.
CountsDays(day) ==
    /\ GmTime(0) = [year |-> 1970, mon |-> 1, mday |-> 1, wday |-> 4]
    /\ GmTime(day + 1) = Tomorrow(GmTime(day))

\* A date nginx wrote is read back as the same day, and the day after the end of
\* a month is refused (Last-Modified comes back in If-Modified-Since).
ReadsBack(day) ==
    LET t == GmTime(day)
    IN  /\ Accepted(t.year, t.mon, t.mday)
        /\ HttpTime(t.year, t.mon, t.mday) = day
        /\ ~Accepted(t.year, t.mon, DaysIn(t.year, t.mon) + 1)

\* Writing and reading a date agree with the calendar (ngx_gmtime,
\* ngx_parse_http_time).
DatesAgree(day) == CountsDays(day) /\ ReadsBack(day)
=============================================================================
