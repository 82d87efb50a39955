----------------------------- MODULE Deadlines ------------------------------
(***************************************************************************)
(* Deadlines read from a text (app/processing/extractors.py): by a day and *)
(* a month, with or without a year, or by a month.  The expression accepts *)
(* any two digits, and date() raises a ValueError on a day the calendar    *)
(* has not, which ends the processing of the message.                      *)
(*                                                                         *)
(* A date is <<year, month, day>>; Error stands for the ValueError.        *)
(***************************************************************************)
EXTENDS Integers

CONSTANTS
  FirstYear, LastYear,  \* bound: the days that are looked at
  Days, Months          \* the numbers that occur in a text

ASSUME DeadlineAssumption == {FirstYear, LastYear} \union Days \union Months \subseteq Nat

VARIABLES current, saidDay, saidMonth, saidYear

deadlineVars == <<current, saidDay, saidMonth, saidYear>>

Unsaid == 0
Error == <<>>

-----------------------------------------------------------------------------
(* The calendar *)

Leap(y) == y % 4 = 0 /\ (y % 100 # 0 \/ y % 400 = 0)

DaysIn(y, m) ==
  IF m = 2 THEN (IF Leap(y) THEN 29 ELSE 28) ELSE IF m \in {4, 6, 9, 11} THEN 30 ELSE 31

Exists(y, m, d) == m \in 1 .. 12 /\ d \in 1 .. DaysIn(y, m)

DateOf(y, m, d) == IF Exists(y, m, d) THEN <<y, m, d>> ELSE Error

Before(s, t) ==
  \/ s[1] < t[1]
  \/ s[1] = t[1] /\ s[2] < t[2]
  \/ s[1] = t[1] /\ s[2] = t[2] /\ s[3] < t[3]

NextDate(t) ==
  IF t[3] < DaysIn(t[1], t[2]) THEN <<t[1], t[2], t[3] + 1>>
  ELSE IF t[2] < 12 THEN <<t[1], t[2] + 1, 1>> ELSE <<t[1] + 1, 1, 1>>

-----------------------------------------------------------------------------
(* Deadlines *)

\* Without a year it is this one.
ByDate_Mutant(t, d, m, y) == DateOf(IF y = Unsaid THEN t[1] ELSE y, m, d)

\* parse_date_deadline: without a year the next such day, looked for first in
\* this year
ByDate(t, d, m, y) ==
  LET candidate == DateOf(IF y = Unsaid THEN t[1] ELSE y, m, d) IN
  IF candidate # Error /\ y = Unsaid /\ Before(candidate, t)
  THEN DateOf(t[1] + 1, m, d) ELSE candidate

\* A month is its first day, of the current month too.
ByMonth(t, m) == DateOf(IF m >= t[2] THEN t[1] ELSE t[1] + 1, m, 1)

DeadlineInit ==
  /\ current = <<FirstYear, 1, 1>> /\ saidYear \in {Unsaid} \union FirstYear .. LastYear
  /\ saidDay \in Days /\ saidMonth \in Months

Tomorrow ==
  /\ current # <<LastYear, 12, 31>> /\ current' = NextDate(current)
  /\ UNCHANGED <<saidDay, saidMonth, saidYear>>

DeadlineSpec == DeadlineInit /\ [][Tomorrow]_deadlineVars

-----------------------------------------------------------------------------
(* Properties *)

\* A deadline without a year is never over when it is read, except for that
\* by the current month.
DeadlineIsAhead ==
  /\ LET t == ByDate(current, saidDay, saidMonth, Unsaid) IN (t # Error => ~Before(t, current))
  /\ saidMonth \in 1 .. 12 /\ Before(ByMonth(current, saidMonth), current) => saidMonth = current[2]

\* Reading a date fails for days that no year has, and for the 29th of
\* February: of a year that has none, and when it is over in this one.
FailsOnImpossibleDates ==
  ByDate(current, saidDay, saidMonth, saidYear) = Error <=>
    \/ saidMonth \notin 1 .. 12 \/ saidDay = 0 \/ saidDay > DaysIn(2000, saidMonth)
    \/ /\ saidMonth = 2 /\ saidDay = 29
       /\ IF saidYear # Unsaid THEN ~Leap(saidYear) ELSE ~Leap(current[1]) \/ current[2] > 2

\* So a deadline that is read is ahead, except where the text names the year, or, as a month,
\* the current one; and reading fails exactly for dates that there are not.
DeadlinesAreRight == DeadlineIsAhead /\ FailsOnImpossibleDates

=============================================================================
