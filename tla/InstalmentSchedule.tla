------------------------ MODULE InstalmentSchedule -------------------------
(***************************************************************************)
(* The calendar and the amounts of an instalment plan                      *)
(* (instalment-plan.utils.ts).  Amounts are in cents.  A date is a month,  *)
(* counted from January of some year, and a day; times of day are left     *)
(* out (all are noon UTC).                                                 *)
(***************************************************************************)
EXTENDS Integers

\* A mutant: the cents that remain are dropped.
AmountWithoutRemainder(total, n, i) == total \div n

\* The amount of the i-th of n instalments: the first ones receive the
\* remaining cents.
Amount(total, n, i) ==
    total \div n + (IF i <= total % n THEN 1 ELSE 0)

\* What the handler of the mandate adds up before it asks for the schedule.
TotalOf(total, n) ==
    Amount(total, n, 1) + Amount(total, n, 2)
      + (IF n = 3 THEN Amount(total, n, 3) ELSE 0)

\* Days of a month, of a year that is not a leap year.
DaysIn(month) ==
    CASE month % 12 = 1              -> 28
      [] month % 12 \in {3, 5, 8, 10} -> 30
      [] OTHER                       -> 31

\* The same day of a later month, or the last day of that month.
AddCalendarMonths(date, months) ==
    LET target == date.month + months
    IN  [month |-> target,
         day   |-> IF date.day <= DaysIn(target) THEN date.day ELSE DaysIn(target)]

\* Seven days, at most one month further for the instalments of a plan.
AddCalendarWeeks(date, weeks) ==
    LET day == date.day + 7 * weeks
    IN  IF day <= DaysIn(date.month)
        THEN [date EXCEPT !.day = day]
        ELSE [month |-> date.month + 1, day |-> day - DaysIn(date.month)]

AddInstalmentInterval(date, i, frequency) ==
    CASE frequency = "WEEKLY"  -> AddCalendarWeeks(date, i)
      [] frequency = "MONTHLY" -> AddCalendarMonths(date, i)
      [] frequency = "YEARLY"  -> AddCalendarMonths(date, 12 * i)

Earlier(d, e) ==
    d.month < e.month \/ (d.month = e.month /\ d.day < e.day)

\* buildInstalmentSchedule: each date is computed from the first.
BuildInstalmentSchedule(total, n, first, frequency) ==
    [i \in 1..n |-> [amountInCents |-> Amount(total, n, i),
                     dueDate |-> AddInstalmentInterval(first, i - 1, frequency)]]
=============================================================================
