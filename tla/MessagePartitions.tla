-------------------------- MODULE MessagePartitions -------------------------
(***************************************************************************)
(* The monthly partitions of the table messages and the two daily jobs     *)
(* that keep them (app/services/message_partitions.py): one creates the    *)
(* partitions around the current month, the other drops the expired ones.  *)
(* A message of a month that has none is stored in the default partition.  *)
(*                                                                         *)
(* Days are numbered, months have DaysPerMonth of them, and a month is     *)
(* told by its number 12 * year + month - 1.  A day stands for the         *)
(* messages published on it.                                               *)
(***************************************************************************)
EXTENDS Integers, FiniteSets

CONSTANTS
  DaysPerMonth, RetentionDays,  \* messages_retention_days, at least 30
  MonthsBehind, MonthsAhead,    \* messages_partition_months_behind, _ahead
  FirstDay, LastDay,            \* bound: the days there are
  History                       \* days a collection reaches back

ASSUME PartitionAssumption ==
  /\ {DaysPerMonth, RetentionDays, FirstDay, LastDay, MonthsBehind, MonthsAhead,
      History} \subseteq Nat
  /\ DaysPerMonth > 0 /\ FirstDay <= LastDay

VARIABLES
  today,
  partitions, \* months that have a partition of their own
  stored,     \* days with messages in the partition of their month
  inDefault,  \* days with messages in messages_default
  ensured,    \* history: the month of the last ensure_message_partitions that
              \*   succeeded
  lapsed      \* history: it had been longer ago than the months ahead

partVars == <<today, partitions, stored, inDefault, ensured, lapsed>>

MonthOf(day) == day \div DaysPerMonth

-----------------------------------------------------------------------------
(* The calendar *)

Date(index) == [year |-> index \div 12, month |-> (index % 12) + 1]
Index(date) == 12 * date.year + date.month - 1

\* The year is that of the date.
AddMonths_Mutant(date, months) ==
  [date EXCEPT !.month = ((date.month - 1 + months) % 12) + 1]

AddMonths(date, months) ==
  [year |-> date.year + ((date.month - 1 + months) \div 12),
   month |-> ((date.month - 1 + months) % 12) + 1]

-----------------------------------------------------------------------------
Window(month) ==
  {Index(AddMonths(Date(month), k)) : k \in -MonthsBehind .. MonthsAhead}

PartInit ==
  /\ today = FirstDay /\ ensured = MonthOf(today) /\ lapsed = FALSE
  /\ partitions = Window(ensured) /\ stored = {} /\ inDefault = {}

NextDay ==
  /\ today < LastDay /\ today' = today + 1
  /\ lapsed' = (lapsed \/ MonthOf(today') > ensured + MonthsAhead)
  /\ UNCHANGED <<partitions, stored, inDefault, ensured>>

\* The collector stores a message, new or from the history of a source.
Store(day) ==
  /\ day \in today - History .. today
  /\ IF MonthOf(day) \in partitions
     THEN stored' = stored \union {day} /\ UNCHANGED inDefault
     ELSE inDefault' = inDefault \union {day} /\ UNCHANGED stored
  /\ UNCHANGED <<today, partitions, ensured, lapsed>>

\* The months that are missing but whose messages the default partition has:
\* PostgreSQL refuses to create those.
Conflicts == (Window(MonthOf(today)) \ partitions) \intersect {MonthOf(d) : d \in inDefault}

\* One transaction: with a conflict nothing is created.
EnsurePartitions ==
  /\ Conflicts = {}
  /\ partitions' = partitions \union Window(MonthOf(today)) /\ ensured' = MonthOf(today)
  /\ UNCHANGED <<today, stored, inDefault, lapsed>>

\* The month the cutoff is in goes too.
Expired_Mutant == {m \in partitions : m <= MonthOf(today - RetentionDays)}

\* Full months before the one the cutoff is in
Expired == {m \in partitions : m < MonthOf(today - RetentionDays)}

DropExpired ==
  /\ partitions' = partitions \ Expired
  /\ stored' = {d \in stored : MonthOf(d) \notin Expired}
  /\ UNCHANGED <<today, inDefault, ensured, lapsed>>

PartNext ==
  \/ NextDay \/ EnsurePartitions \/ DropExpired
  \/ \E day \in 0 .. LastDay : Store(day)

PartSpec == PartInit /\ [][PartNext]_partVars

-----------------------------------------------------------------------------
(* Properties *)

\* No message outlives the partition it is in.
PartTypeOK ==
  /\ today \in FirstDay .. LastDay /\ partitions \subseteq Int
  /\ ensured \in Int /\ lapsed \in BOOLEAN
  /\ inDefault \subseteq 0 .. LastDay /\ stored \subseteq 0 .. LastDay
  /\ \A d \in stored : MonthOf(d) \in partitions

\* Only messages older than the retention are ever removed.
OnlyExpiredDisappear ==
  [][\A d \in (stored \union inDefault) \ (stored' \union inDefault') :
       d < today - RetentionDays]_partVars

\* As long as partitions were created once in the months they are created
\* ahead, today's messages have their partition and creating the ones from
\* this month on is possible.  A longer pause may end it for good: the default
\* partition takes the messages, and then no transaction succeeds.
CurrentMonthHasPartition ==
  ~lapsed => /\ MonthOf(today) \in partitions
             /\ \A m \in Conflicts : m < MonthOf(today)

=============================================================================
