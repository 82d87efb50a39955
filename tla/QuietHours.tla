----------------------------- MODULE QuietHours -----------------------------
(***************************************************************************)
(* Quiet hours of a subscription (app/services/subscription_matching.py):  *)
(* whether a notice falls into them and until when it is deferred.  The    *)
(* clock runs across one change of the offset of the time zone.            *)
(***************************************************************************)
EXTENDS Integers

CONSTANTS
  DayLength,   \* units of a day
  Settings,    \* records [start, end, change, before, after]: quiet hours, and
               \*   the offset from UTC before and from the time change on
  MaxTime      \* bound: the clock

ASSUME QuietAssumption ==
  /\ DayLength \in Nat \ {0} /\ MaxTime \in Nat
  /\ \A s \in Settings : /\ {s.start, s.end} \subseteq 0 .. DayLength - 1
                         /\ {s.change, s.before, s.after} \subseteq Nat

VARIABLES zone, now, asked, due

quietVars == <<zone, now, asked, due>>

Local(utc) == utc + (IF utc < zone.change THEN zone.before ELSE zone.after)

\* fold = 0: of two moments with one name the first, and in a gap the offset
\* from before it
ToUTC(local) ==
  LET later == IF zone.before > zone.after THEN zone.before ELSE zone.after
  IN  IF local < zone.change + later THEN local - zone.before ELSE local - zone.after

IsInQuietHours(utc) ==
  LET t == Local(utc) % DayLength IN
  IF zone.start <= zone.end THEN zone.start <= t /\ t < zone.end
  ELSE t >= zone.start \/ t < zone.end

\* The end on the current date, be it over
NextQuietHoursEnd_Mutant(utc) == ToUTC((Local(utc) \div DayLength) * DayLength + zone.end)

\* The end on the local date, or on the next one when that is over
NextQuietHoursEnd(utc) ==
  LET end == (Local(utc) \div DayLength) * DayLength + zone.end
  IN  ToUTC(IF end <= Local(utc) THEN end + DayLength ELSE end)

QuietInit == zone \in Settings /\ now = 0 /\ asked = -1 /\ due = -1

Tick == now < MaxTime /\ now' = now + 1 /\ UNCHANGED <<zone, asked, due>>

Defer ==
  /\ asked = -1 /\ IsInQuietHours(now)
  /\ asked' = now /\ due' = NextQuietHoursEnd(now) /\ UNCHANGED <<zone, now>>

QuietNext == Tick \/ Defer

QuietSpec == QuietInit /\ [][QuietNext]_quietVars

-----------------------------------------------------------------------------
(* Properties *)

Shift == LET s == zone.after - zone.before IN IF s < 0 THEN -s ELSE s

\* From the end of the quiet hours to their next start
Open == (zone.start - zone.end) % DayLength

\* A notice is deferred to a moment after the quiet hours it fell into and before the
\* next, if there is more time between them than a change of the clock takes.  They
\* last from the deferral until then, around a change with two exceptions: the hour
\* that the clock repeats, and as much time before the moment as the change takes.
DueWhenQuietEnds ==
  asked >= 0 =>
    /\ Open > Shift => ~IsInQuietHours(due)
    /\ due > asked - Shift
    /\ \A utc \in asked .. due - 1 :
         IsInQuietHours(utc) \/ utc >= due - Shift \/ utc - zone.change \in 0 .. Shift - 2

=============================================================================
