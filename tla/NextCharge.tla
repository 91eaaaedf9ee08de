------------------------------ MODULE NextCharge ------------------------------
(***************************************************************************)
(* computeNextChargeAt (domain/order/next-charge-at.ts): the first charge  *)
(* of a recurring donation, a UTC midnight.  Instants are UTC dates: the   *)
(* code reads no smaller field of the clock.  Months run from 0 to 11, as  *)
(* in the code, and Date.UTC carries a twelfth month into the next year.   *)
(***************************************************************************)
EXTENDS Naturals

\* BILLING_DAY_TO_DOM
BillingDays == {6, 16, 26}

UTCDate(year, month, day) ==
  [year |-> year + month \div 12, month |-> month % 12, day |-> day]

\* Faulty variant: a donation made on its billing day is charged that day.
MonthOffsetSameDay(today, target) == IF today <= target THEN 0 ELSE 1

MonthOffset(today, target) == IF today < target THEN 0 ELSE 1

ComputeNextChargeAt(now, billingDay) ==
  UTCDate(now.year, now.month + MonthOffset(now.day, billingDay), billingDay)

-----------------------------------------------------------------------------
(* Properties                                                              *)

LeapYear(y) == y % 4 = 0 /\ (y % 100 # 0 \/ y % 400 = 0)

DaysIn(y, m) ==
  IF m = 1 THEN IF LeapYear(y) THEN 29 ELSE 28 ELSE IF m \in {3, 5, 8, 10} THEN 30 ELSE 31

\* An ordinary year, a leap year and the century that is none.
Years == {2025, 2028, 2099}

DatesOf(years) ==
  UNION {{[year |-> y, month |-> m, day |-> d] : d \in 1 .. DaysIn(y, m)} :
           y \in years, m \in 0 .. 11}

\* Dates in the order of the calendar.
Ordinal(date) == (date.year * 12 + date.month) * 32 + date.day

\* The first charge is the first billing day of the calendar after today, at
\* the end of a month and of a year too: it exists, it lies ahead, and no
\* billing day between is skipped.
ChargeIsNext(years) ==
  \A now \in DatesOf(years), b \in BillingDays :
    LET charge == ComputeNextChargeAt(now, b)
        soon   == {d \in DatesOf({now.year, now.year + 1}) :
                     /\ d.day = b
                     /\ Ordinal(d) > Ordinal(now)}
    IN  charge \in soon /\ \A d \in soon : Ordinal(charge) <= Ordinal(d)

ChargeIsNextInYears == ChargeIsNext(Years)

=============================================================================
