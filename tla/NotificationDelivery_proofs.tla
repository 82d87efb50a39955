--------------------- MODULE NotificationDelivery_proofs ---------------------
(***************************************************************************)
(* Proofs about NotificationDelivery for any number of workers, orders and *)
(* users, any quiet hours and limits, and any bounds.                      *)
(*                                                                         *)
(* The argument: an uncommitted insert is a lock on its pair.  HolderInv   *)
(* says what its holder is doing, ClaimInv that whoever is about to send   *)
(* for a pair that was never deferred holds that lock, and CountInv that   *)
(* the one delivery not yet excused is recorded or is in the hands of the  *)
(* holder.                                                                 *)
(*                                                                         *)
(* The limits: what a worker found below its limit stays below it plus the *)
(* workers that were sending then.  LimitInv counts, for each user, the    *)
(* notices that are recorded in the period and those underway.             *)
(***************************************************************************)
EXTENDS NotificationDelivery, FiniteSetTheorems, TLAPS

Sending == {"decide", "attempt", "commit"}

HolderInv ==
  \A p \in Pairs : inserter[p] # NoWorker =>
    /\ at[inserter[p]] = p
    /\ pc[inserter[p]] \in Sending
    /\ status[p] = "none"

ClaimInv ==
  \A w \in Workers :
    pc[w] \in Sending /\ at[w] \notin everDeferred => inserter[at[w]] = w

DeferInv ==
  /\ \A p \in Pairs : status[p] = "deferred" => p \in everDeferred
  /\ \A p \in everDeferred : status[p] # "none"
  /\ \A w \in Workers : task[w] = Deferred => todo[w] \subseteq everDeferred

InFlight(p) ==
  /\ inserter[p] # NoWorker
  /\ pc[inserter[p]] = "commit"
  /\ result[inserter[p]] = "sent"

CountInv ==
  \A p \in Pairs \ everDeferred :
    \/ sends[p] <= excused[p]
    \/ /\ sends[p] <= excused[p] + 1
       /\ status[p] = "sent" \/ InFlight(p)

ResultInv ==
  /\ \A w \in Workers : result[w] # "none" <=> pc[w] = "commit"
  /\ \A w \in Workers : result[w] = "failed" => MaxRetries > 0
  /\ \A w \in Workers : result[w] = "sent" => sends[at[w]] > 0
  /\ MaxRetries > 0 => /\ \A w \in Workers : result[w] # "empty"
                       /\ SentRowWasDelivered

IInv == TypeOK /\ HolderInv /\ ClaimInv /\ DeferInv /\ CountInv /\ ResultInv

-----------------------------------------------------------------------------

\* Every variable keeps its type in every reachable state.
THEOREM TypeCorrect == Spec => []TypeOK
<1>. USE DEF TypeOK, Statuses, Places
<1>1. Init => TypeOK
  BY BoundsAssumption, NamesAssumption DEF Init, Times
<1>2. TypeOK /\ [Next]_vars => TypeOK'
  <2> SUFFICES ASSUME TypeOK, [Next]_vars PROVE TypeOK'
    OBVIOUS
  <2>. USE DEF envVars, rowVars, workVars, ghostVars, Goto
  <2>1. CASE Tick
    BY <2>1, BoundsAssumption DEF Tick, Times
  <2>2. ASSUME NEW o \in Orders, Publish(o) PROVE TypeOK'
    BY <2>2 DEF Publish
  <2>3. ASSUME NEW o \in Orders, ChangeOrder(o) PROVE TypeOK'
    BY <2>3 DEF ChangeOrder
  <2>4. ASSUME NEW u \in Users, ChangeSubscription(u) PROVE TypeOK'
    BY <2>4 DEF ChangeSubscription
  <2>5. ASSUME NEW w \in Workers, NEW o \in Orders, SkipOrder(w, o) PROVE TypeOK'
    BY <2>5 DEF SkipOrder
  <2>6. ASSUME NEW w \in Workers, NEW o \in Orders, StartSend(w, o) PROVE TypeOK'
    <3>1. {o} \X Users \subseteq Pairs
      BY DEF Pairs
    <3>. QED BY <2>6, <3>1 DEF StartSend
  <2>7. ASSUME NEW w \in Workers, StartDeferred(w) PROVE TypeOK'
    BY <2>7 DEF StartDeferred
  <2>8. ASSUME NEW w \in Workers, Crash(w) PROVE TypeOK'
    <3>1. task[w] \in Orders => pending' = [pending EXCEPT ![task[w]] = @ + 1]
      BY <2>8 DEF Crash, LoseWorker
    <3>2. pending' \in [Orders -> Nat]
      BY <2>8, <3>1 DEF Crash, LoseWorker
    <3>3. excused' \in [Pairs -> Nat]
      BY <2>8 DEF Crash, LoseWorker
    <3>. QED BY <2>8, <3>2, <3>3 DEF Crash, LoseWorker, Leave
  <2>9. ASSUME NEW w \in Workers, Finish(w) PROVE TypeOK'
    BY <2>9 DEF Finish, Leave
  <2>10. ASSUME NEW w \in Workers, NEW p \in Pairs, SkipRecipient(w, p) PROVE TypeOK'
    BY <2>10 DEF SkipRecipient
  <2>11. ASSUME NEW w \in Workers, NEW p \in Pairs, Admit(w, p) PROVE TypeOK'
    BY <2>11, NamesAssumption DEF Admit
  <2>12. ASSUME NEW w \in Workers, Lookup(w) PROVE TypeOK'
    BY <2>12 DEF Lookup
  <2>13. ASSUME NEW w \in Workers, Insert(w) PROVE TypeOK'
    BY <2>13 DEF Insert
  <2>14. ASSUME NEW w \in Workers, InsertConflict(w) PROVE TypeOK'
    BY <2>14 DEF InsertConflict, Leave
  <2>15. ASSUME NEW w \in Workers, Defer(w) PROVE TypeOK'
    <3>1. at[w] \in Pairs
      BY <2>15 DEF Defer
    <3>2. QuietEnd[at[w][2]][now[w]] \in Nat
      BY <3>1, SettingsAssumption DEF Pairs
    <3>. QED BY <2>15, <3>1, <3>2 DEF Defer
  <2>16. ASSUME NEW w \in Workers, SendNow(w) PROVE TypeOK'
    BY <2>16 DEF SendNow
  <2>17. ASSUME NEW w \in Workers, NEW p \in Pairs, SkipDeferred(w, p) PROVE TypeOK'
    BY <2>17 DEF SkipDeferred
  <2>18. ASSUME NEW w \in Workers, NEW p \in Pairs, TakeDeferred(w, p) PROVE TypeOK'
    BY <2>18, NamesAssumption DEF TakeDeferred
  <2>19. ASSUME NEW w \in Workers, Delivered(w) PROVE TypeOK'
    BY <2>19 DEF Delivered
  <2>20. ASSUME NEW w \in Workers, SendError(w) PROVE TypeOK'
    BY <2>20 DEF SendError
  <2>21. ASSUME NEW w \in Workers, GiveUp(w) PROVE TypeOK'
    BY <2>21 DEF GiveUp
  <2>22. ASSUME NEW w \in Workers, CommitResult(w) PROVE TypeOK'
    <3>1. at[w] \in Pairs /\ at[w][1] \in Orders
      BY <2>22 DEF CommitResult, Pairs
    <3>. QED BY <2>22, <3>1 DEF CommitResult
  <2>23. CASE UNCHANGED vars
    BY <2>23 DEF vars
  <2>. QED
    BY <2>1, <2>2, <2>3, <2>4, <2>5, <2>6, <2>7, <2>8, <2>9, <2>10, <2>11, <2>12,
       <2>13, <2>14, <2>15, <2>16, <2>17, <2>18, <2>19, <2>20, <2>21, <2>22, <2>23
       DEF Next, Environment, TakeOrder, Step
<1>. QED BY <1>1, <1>2, PTL DEF Spec

-----------------------------------------------------------------------------

LEMMA InitIInv == Init => IInv
  BY NamesAssumption, BoundsAssumption DEF Init, IInv, TypeOK, HolderInv, ClaimInv, DeferInv,
     CountInv, ResultInv, SentRowWasDelivered, Sending, InFlight, Times, Statuses, Places

\* IInv is inductive, relative to TypeOK in the next state.
LEMMA StepIInv == IInv /\ TypeOK' /\ [Next]_vars => IInv'
<1> SUFFICES ASSUME IInv, TypeOK', [Next]_vars PROVE IInv'
  OBVIOUS
<1>. USE DEF IInv, TypeOK, HolderInv, ClaimInv, DeferInv, CountInv, ResultInv,
         SentRowWasDelivered, InFlight, Sending
<1>. USE DEF envVars, rowVars, workVars, ghostVars, Goto
<1>1. CASE Tick
  BY <1>1 DEF Tick
<1>2. ASSUME NEW o \in Orders, Publish(o) PROVE IInv'
  BY <1>2 DEF Publish
<1>3. ASSUME NEW o \in Orders, ChangeOrder(o) PROVE IInv'
  BY <1>3 DEF ChangeOrder
<1>4. ASSUME NEW u \in Users, ChangeSubscription(u) PROVE IInv'
  BY <1>4 DEF ChangeSubscription
<1>5. ASSUME NEW w \in Workers, NEW o \in Orders, SkipOrder(w, o) PROVE IInv'
  BY <1>5 DEF SkipOrder
<1>6. ASSUME NEW w \in Workers, NEW o \in Orders, StartSend(w, o) PROVE IInv'
  BY <1>6, NamesAssumption DEF StartSend
<1>7. ASSUME NEW w \in Workers, StartDeferred(w) PROVE IInv'
  BY <1>7 DEF StartDeferred, DueBatch, Due
<1>8. ASSUME NEW w \in Workers, Crash(w) PROVE IInv'
  BY <1>8, NamesAssumption DEF Crash, LoseWorker, Leave
<1>9. ASSUME NEW w \in Workers, Finish(w) PROVE IInv'
  BY <1>9, NamesAssumption DEF Finish, Leave
<1>10. ASSUME NEW w \in Workers, NEW p \in Pairs, SkipRecipient(w, p) PROVE IInv'
  BY <1>10 DEF SkipRecipient
<1>11. ASSUME NEW w \in Workers, NEW p \in Pairs, Admit(w, p) PROVE IInv'
  BY <1>11 DEF Admit
<1>12. ASSUME NEW w \in Workers, Lookup(w) PROVE IInv'
  BY <1>12 DEF Lookup
<1>13. ASSUME NEW w \in Workers, Insert(w) PROVE IInv'
  BY <1>13, NamesAssumption DEF Insert
<1>14. ASSUME NEW w \in Workers, InsertConflict(w) PROVE IInv'
  BY <1>14, NamesAssumption DEF InsertConflict, Leave
<1>15. ASSUME NEW w \in Workers, Defer(w) PROVE IInv'
  BY <1>15 DEF Defer
<1>16. ASSUME NEW w \in Workers, SendNow(w) PROVE IInv'
  BY <1>16 DEF SendNow
<1>17. ASSUME NEW w \in Workers, NEW p \in Pairs, SkipDeferred(w, p) PROVE IInv'
  BY <1>17 DEF SkipDeferred
<1>18. ASSUME NEW w \in Workers, NEW p \in Pairs, TakeDeferred(w, p) PROVE IInv'
  BY <1>18 DEF TakeDeferred
<1>19. ASSUME NEW w \in Workers, Delivered(w) PROVE IInv'
  BY <1>19, NamesAssumption DEF Delivered
<1>20. ASSUME NEW w \in Workers, SendError(w) PROVE IInv'
  <2>1. at[w] \in Pairs /\ UNCHANGED <<inserter, status, everDeferred, at, pc, result, task, todo>>
    BY <1>20 DEF SendError
  <2>2. \/ UNCHANGED <<sends, excused>>
        \/ /\ sends' = [sends EXCEPT ![at[w]] = @ + 1]
           /\ excused' = [excused EXCEPT ![at[w]] = @ + 1]
    BY <1>20 DEF SendError
  <2>3. HolderInv' /\ ClaimInv' /\ DeferInv'
    BY <2>1
  <2>4. CountInv'
    BY <2>1, <2>2
  <2>5. ResultInv'
    <3>1. sends \in [Pairs -> Nat]
      OBVIOUS
    <3>2. \A p \in Pairs : sends'[p] \in Nat /\ sends'[p] >= sends[p]
      <4>. HIDE DEF IInv, TypeOK
      <4>. QED BY <2>1, <2>2, <3>1
    <3>. QED BY <2>1, <3>1, <3>2
  <2>. QED BY <2>3, <2>4, <2>5
<1>21. ASSUME NEW w \in Workers, GiveUp(w) PROVE IInv'
  BY <1>21, BoundsAssumption DEF GiveUp
<1>22. ASSUME NEW w \in Workers, CommitResult(w) PROVE IInv'
  BY <1>22, NamesAssumption DEF CommitResult
<1>23. CASE UNCHANGED vars
  BY <1>23 DEF vars
<1>. QED
  BY <1>1, <1>2, <1>3, <1>4, <1>5, <1>6, <1>7, <1>8, <1>9, <1>10, <1>11, <1>12,
     <1>13, <1>14, <1>15, <1>16, <1>17, <1>18, <1>19, <1>20, <1>21, <1>22, <1>23
     DEF Next, Environment, TakeOrder, Step

THEOREM Inductive == Spec => []IInv
<1>1. Init => IInv
  BY InitIInv
<1>2. IInv /\ TypeOK' /\ [Next]_vars => IInv'
  BY StepIInv
<1>. QED BY <1>1, <1>2, TypeCorrect, PTL DEF Spec

\* A notification that was never deferred is delivered at most once, plus once per
\* crash or lost reply that left a delivery unrecorded.
THEOREM AtMostOnce == Spec => []AtMostOnceUnlessDeferred
<1>1. IInv => AtMostOnceUnlessDeferred
  BY DEF IInv, TypeOK, CountInv, AtMostOnceUnlessDeferred
<1>. QED BY <1>1, Inductive, PTL

\* Every row recorded as sent was delivered, if bot_send_max_retries is positive.
THEOREM SentIsTrue == Spec => []SentRowWasDelivered
<1>1. IInv => SentRowWasDelivered
  BY DEF IInv, ResultInv, SentRowWasDelivered
<1>. QED BY <1>1, Inductive, PTL

\* A transaction waiting on the unique index waits for one that waits for nobody.
THEOREM NoWaitCycle == Spec => []HolderNeverWaits
<1>1. IInv => HolderNeverWaits
  BY DEF IInv, TypeOK, HolderInv, HolderNeverWaits, Sending
<1>. QED BY <1>1, Inductive, PTL

\* No step of any task rewrites a recorded outcome of a pair never deferred.
THEOREM OutcomeKept == Spec => OutcomeIsFinal
<1>. DEFINE Kept == \A p \in Pairs \ everDeferred :
                      status[p] \in {"sent", "failed"} => status'[p] = status[p]
<1>1. IInv /\ [Next]_vars => [Kept]_vars
  <2> SUFFICES ASSUME IInv, [Next]_vars PROVE [Kept]_vars
    OBVIOUS
  <2>. USE DEF IInv, TypeOK, HolderInv, ClaimInv, DeferInv, Sending
  <2>1. ASSUME NEW w \in Workers, Defer(w) PROVE Kept
    BY <2>1, NamesAssumption DEF Defer
  <2>2. ASSUME NEW w \in Workers, CommitResult(w) PROVE Kept
    BY <2>2, NamesAssumption DEF CommitResult
  <2>3. ASSUME NEW w \in Workers, NEW p \in Pairs, SkipDeferred(w, p) PROVE Kept
    BY <2>3 DEF SkipDeferred
  <2>4. CASE UNCHANGED status
    BY <2>4
  <2>. QED
    BY <2>1, <2>2, <2>3, <2>4 DEF Next, Environment, TakeOrder, Step, Tick, Publish,
       ChangeOrder, ChangeSubscription, SkipOrder, StartSend, StartDeferred, Crash, LoseWorker,
       Finish, SkipRecipient, Admit, Lookup, Insert, InsertConflict, SendNow,
       TakeDeferred, Delivered, SendError, GiveUp, vars, rowVars, Leave
<1>. QED BY <1>1, Inductive, PTL DEF Spec, OutcomeIsFinal

-----------------------------------------------------------------------------
(* The refinement of the ledger *)

LStep == [Ledger!LedgerNext]_(Ledger!ledgerVars)

\* A worker that changes its place changes the attempt at its own pair alone.
LEMMA AttemptKept ==
  ASSUME IInv, NEW w \in Workers, UNCHANGED inserter,
         \A v \in Workers \ {w} : pc'[v] = pc[v] /\ result'[v] = result[v],
         at[w] \in Pairs => \/ inserter[at[w]] # w
                           \/ /\ pc'[w] # "commit" \/ result'[w] # "sent"
                              /\ pc[w] # "commit" \/ result[w] # "sent"
  PROVE  Attempt' = Attempt
  BY NamesAssumption DEF Attempt, IInv, TypeOK, HolderInv

\* One pair's attempt changes.
LEMMA AttemptChanged ==
  ASSUME IInv, NEW w \in Workers, NEW p \in Pairs, NEW new,
         \A v \in Workers \ {w} : pc'[v] = pc[v] /\ result'[v] = result[v],
         \A q \in Pairs \ {p} : inserter'[q] = inserter[q] /\ inserter[q] # w,
         new = IF inserter'[p] = NoWorker THEN "none"
               ELSE IF pc'[inserter'[p]] = "commit" /\ result'[inserter'[p]] = "sent"
                    THEN "delivered" ELSE "open"
  PROVE  Attempt' = [Attempt EXCEPT ![p] = new]
<1>1. ASSUME NEW q \in Pairs \ {p} PROVE Attempt'[q] = Attempt[q]
  <2>1. inserter[q] = NoWorker \/ inserter[q] \in Workers \ {w}
    BY DEF IInv, TypeOK
  <2>. QED BY <2>1 DEF Attempt
<1>2. Attempt'[p] = new
  BY DEF Attempt
<1>3. /\ Attempt = [q \in Pairs |-> Attempt[q]]
      /\ Attempt' = [q \in Pairs |-> Attempt'[q]]
  BY DEF Attempt
<1>4. [Attempt EXCEPT ![p] = new] = [q \in Pairs |-> IF q = p THEN new ELSE Attempt[q]]
  BY <1>3
<1>5. [q \in Pairs |-> Attempt'[q]] = [q \in Pairs |-> IF q = p THEN new ELSE Attempt[q]]
  BY <1>1, <1>2
<1>. QED BY <1>3, <1>4, <1>5

LEMMA LedgerStart == Init => Ledger!LedgerInit
  BY NamesAssumption DEF Init, Ledger!LedgerInit, Attempt

\* A step that leaves the mapped variables alone is a stutter.
LEMMA Stutter ==
  ASSUME Attempt' = Attempt, UNCHANGED <<status, sends, excused, everDeferred>>
  PROVE  LStep
  BY DEF LStep, Ledger!ledgerVars


\* What a worker does to a notification that was put off is a repetition.
LEMMA Repeats ==
  ASSUME IInv, NEW p \in everDeferred, Attempt' = Attempt, UNCHANGED everDeferred,
         \E s \in {"deferred", "sent", "failed", "skipped"} :
           status' = [status EXCEPT ![p] = s],
         sends' = sends \/ sends' = [sends EXCEPT ![p] = @ + 1],
         excused' = excused \/ excused' = [excused EXCEPT ![p] = @ + 1]
  PROVE  LStep
<1>1. p \in Pairs /\ sends[p] \in Nat /\ excused[p] \in Nat
  BY DEF IInv, TypeOK
<1>2. \E n \in {0, 1} : sends' = [sends EXCEPT ![p] = @ + n]
  BY <1>1 DEF IInv, TypeOK
<1>3. \E n \in {0, 1} : excused' = [excused EXCEPT ![p] = @ + n]
  BY <1>1 DEF IInv, TypeOK
<1>4. Ledger!Again(p)
  BY <1>2, <1>3 DEF Ledger!Again
<1>. QED BY <1>1, <1>4 DEF LStep, Ledger!LedgerNext

\* A row that was put off keeps its status unless somebody writes it.
LEMMA RowOfPutOff ==
  ASSUME IInv, NEW p \in everDeferred
  PROVE  /\ inserter[p] = NoWorker
         /\ status[p] \in {"deferred", "sent", "failed", "skipped"}
         /\ status = [status EXCEPT ![p] = status[p]]
  BY DEF IInv, TypeOK, HolderInv, DeferInv, Statuses

\* Every step of a worker, seen from the ledger
LEMMA StepsFollow == IInv /\ IInv' /\ [Next]_vars => LStep
<1> SUFFICES ASSUME IInv, IInv', [Next]_vars PROVE LStep
  OBVIOUS
<1>. USE DEF envVars, rowVars, workVars, ghostVars, Goto
<1>. DEFINE Loose(w) == at[w] \in everDeferred
<1>a. ASSUME NEW w \in Workers, pc[w] \in Sending, ~Loose(w)
      PROVE  /\ at[w] \in Pairs /\ inserter[at[w]] = w /\ status[at[w]] = "none"
             /\ \A q \in Pairs : inserter[q] = w => q = at[w]
             /\ w # NoWorker
  <2>0. w # NoWorker /\ inserter[at[w]] = w
    BY <1>a, NamesAssumption DEF IInv, ClaimInv
  <2>1. at[w] \in Pairs
    <3>1. pc[w] \notin {"idle", "next"}
      BY <1>a DEF Sending
    <3>2. at[w] \in Pairs \union {NoPair} /\ (at[w] = NoPair <=> pc[w] \in {"idle", "next"})
      BY DEF IInv, TypeOK
    <3>. QED BY <3>1, <3>2
  <2>2. \A q \in Pairs : inserter[q] = w => q = at[w] /\ status[q] = "none"
    BY <2>0 DEF IInv, HolderInv
  <2>. QED BY <2>0, <2>1, <2>2
<1>b. ASSUME NEW w \in Workers, pc[w] \notin Sending \/ Loose(w)
      PROVE  \A q \in Pairs : inserter[q] # w
  BY <1>b, NamesAssumption DEF IInv, TypeOK, HolderInv, DeferInv, Sending
<1>1. CASE UNCHANGED <<status, sends, excused, everDeferred, inserter, pc, result>>
  BY <1>1, Stutter DEF Attempt
<1>2. ASSUME NEW w \in Workers, NEW o \in Orders, StartSend(w, o) PROVE LStep
  BY <1>2, <1>b, AttemptKept, Stutter DEF StartSend, Sending
<1>3. ASSUME NEW w \in Workers, StartDeferred(w) PROVE LStep
  BY <1>3, <1>b, AttemptKept, Stutter DEF StartDeferred, Sending
<1>4. ASSUME NEW w \in Workers, Crash(w) PROVE LStep
  <2>. USE <1>4 DEF Crash, LoseWorker, Leave
  <2>1. CASE pc[w] \in Sending /\ ~Loose(w)
    <3>1. Attempt' = [Attempt EXCEPT ![at[w]] = "none"]
      BY <2>1, <1>a, AttemptChanged DEF IInv, TypeOK
    <3>2. Attempt[at[w]] = IF pc[w] = "commit" /\ result[w] = "sent" THEN "delivered" ELSE "open"
      BY <2>1, <1>a DEF Attempt
    <3>3. Ledger!Abandon(at[w])
      BY <2>1, <1>a, <3>1, <3>2 DEF Ledger!Abandon, IInv, TypeOK
    <3>. QED BY <2>1, <1>a, <3>3 DEF LStep, Ledger!LedgerNext
  <2>2. CASE ~(pc[w] \in Sending /\ ~Loose(w))
    <3>1. inserter' = inserter
      BY <2>2, <1>b DEF IInv, TypeOK
    <3>2. Attempt' = Attempt
      BY <2>2, <1>b, <3>1, AttemptKept DEF IInv, TypeOK
    <3>3. CASE pc[w] = "commit" /\ result[w] = "sent"
      BY <2>2, <3>2, <3>3, RowOfPutOff, Repeats DEF Sending
    <3>4. CASE ~(pc[w] = "commit" /\ result[w] = "sent")
      BY <3>2, <3>4, Stutter
    <3>. QED BY <3>3, <3>4
  <2>. QED BY <2>1, <2>2
<1>5. ASSUME NEW w \in Workers, Finish(w) \/ InsertConflict(w) PROVE LStep
  <2>. USE <1>5 DEF Finish, InsertConflict, Leave, Sending
  <2>0. \A q \in Pairs : inserter[q] # w
    BY <1>b
  <2>1. inserter' = inserter
    <3>1. inserter' = [q \in Pairs |-> IF inserter[q] = w THEN NoWorker ELSE inserter[q]]
      OBVIOUS
    <3>. QED BY <2>0, <3>1 DEF IInv, TypeOK
  <2>2. Attempt' = Attempt
    BY <1>b, <2>1, AttemptKept DEF IInv, TypeOK
  <2>. QED BY <2>2, Stutter
<1>6. ASSUME NEW w \in Workers, NEW p \in Pairs, Admit(w, p) \/ TakeDeferred(w, p)
      PROVE LStep
  <2>1. Attempt' = Attempt
    BY <1>6, <1>b, AttemptKept DEF Admit, TakeDeferred, Sending, IInv, TypeOK
  <2>. QED BY <1>6, <2>1, Stutter DEF Admit, TakeDeferred
<1>7. ASSUME NEW w \in Workers, Lookup(w) PROVE LStep
  <2>1. Attempt' = Attempt
    BY <1>7, <1>b, AttemptKept DEF Lookup, Sending, IInv, TypeOK
  <2>. QED BY <1>7, <2>1, Stutter DEF Lookup
<1>8. ASSUME NEW w \in Workers, Insert(w) PROVE LStep
  <2>. USE <1>8 DEF Insert, Sending
  <2>1. at[w] \in Pairs /\ Attempt[at[w]] = "none"
    BY NamesAssumption DEF IInv, TypeOK, Attempt
  <2>2. Attempt' = [Attempt EXCEPT ![at[w]] = "open"]
    <3>1. /\ \A q \in Pairs \ {at[w]} : inserter'[q] = inserter[q] /\ inserter[q] # w
          /\ \A v \in Workers \ {w} : pc'[v] = pc[v] /\ result'[v] = result[v]
      BY <1>b, <2>1 DEF IInv, TypeOK
    <3>2. inserter'[at[w]] = w /\ w # NoWorker /\ pc'[w] # "commit"
      BY <2>1, NamesAssumption DEF IInv, TypeOK
    <3>. HIDE <1>8
    <3>. QED BY <2>1, <3>1, <3>2, AttemptChanged
  <2>3. Ledger!Claim(at[w])
    BY <2>1, <2>2 DEF Ledger!Claim
  <2>. QED BY <2>1, <2>3 DEF LStep, Ledger!LedgerNext
<1>9. ASSUME NEW w \in Workers, Defer(w) PROVE LStep
  <2>. USE <1>9 DEF Defer, Sending
  <2>1. at[w] \in Pairs
    BY DEF IInv, TypeOK
  <2>2. CASE Loose(w)
    <3>1. inserter' = inserter /\ status' = status /\ everDeferred' = everDeferred
      BY <2>1, <2>2, RowOfPutOff, NamesAssumption DEF IInv, TypeOK
    <3>2. Attempt' = Attempt
      BY <2>1, <2>2, <3>1, <1>b, AttemptKept DEF IInv, TypeOK
    <3>. QED BY <3>1, <3>2, Stutter
  <2>3. CASE ~Loose(w)
    <3>1. Attempt[at[w]] = "open"
      BY <2>3, <1>a DEF Attempt
    <3>2. Attempt' = [Attempt EXCEPT ![at[w]] = "none"]
      BY <2>3, <1>a, AttemptChanged DEF IInv, TypeOK
    <3>3. Ledger!PutOff(at[w])
      BY <2>3, <1>a, <3>1, <3>2 DEF Ledger!PutOff, IInv, TypeOK
    <3>. QED BY <2>1, <3>3 DEF LStep, Ledger!LedgerNext
  <2>. QED BY <2>2, <2>3
<1>10. ASSUME NEW w \in Workers, SendNow(w) PROVE LStep
  <2>1. Attempt' = Attempt
    BY <1>10, AttemptKept DEF SendNow, IInv, TypeOK
  <2>. QED BY <1>10, <2>1, Stutter DEF SendNow
<1>11. ASSUME NEW w \in Workers, NEW p \in Pairs, SkipDeferred(w, p) PROVE LStep
  <2>1. p \in everDeferred /\ Attempt' = Attempt
    BY <1>11 DEF SkipDeferred, IInv, DeferInv, Attempt
  <2>. QED BY <1>11, <2>1, Repeats DEF SkipDeferred
<1>12. ASSUME NEW w \in Workers, Delivered(w) PROVE LStep
  <2>. USE <1>12 DEF Delivered, Sending
  <2>1. at[w] \in Pairs
    BY DEF IInv, TypeOK
  <2>2. CASE Loose(w)
    <3>1. Attempt' = Attempt
      BY <2>1, <2>2, <1>b, AttemptKept DEF IInv, TypeOK
    <3>. QED BY <2>2, <3>1, RowOfPutOff, Repeats
  <2>3. CASE ~Loose(w)
    <3>1. Attempt[at[w]] = "open"
      BY <2>3, <1>a DEF Attempt
    <3>2. Attempt' = [Attempt EXCEPT ![at[w]] = "delivered"]
      BY <2>3, <1>a, AttemptChanged DEF IInv, TypeOK
    <3>3. Ledger!Deliver(at[w])
      BY <3>1, <3>2 DEF Ledger!Deliver
    <3>. QED BY <2>1, <3>3 DEF LStep, Ledger!LedgerNext
  <2>. QED BY <2>2, <2>3
<1>13. ASSUME NEW w \in Workers, SendError(w) PROVE LStep
  <2>. USE <1>13 DEF SendError, Sending
  <2>1. at[w] \in Pairs /\ Attempt' = Attempt
    BY DEF IInv, TypeOK, Attempt
  <2>2. CASE UNCHANGED <<sends, excused>>
    BY <2>1, <2>2, Stutter
  <2>3. CASE sends' # sends \/ excused' # excused
    <3>1. CASE Loose(w)
      BY <2>1, <2>3, <3>1, RowOfPutOff, Repeats
    <3>2. CASE ~Loose(w)
      <4>1. Attempt[at[w]] = "open"
        BY <3>2, <1>a DEF Attempt
      <4>2. Ledger!LoseReply(at[w])
        BY <2>1, <2>3, <4>1 DEF Ledger!LoseReply
      <4>. QED BY <2>1, <4>2 DEF LStep, Ledger!LedgerNext
    <3>. QED BY <3>1, <3>2
  <2>. QED BY <2>2, <2>3
<1>14. ASSUME NEW w \in Workers, GiveUp(w) PROVE LStep
  <2>1. Attempt' = Attempt
    BY <1>14, AttemptKept DEF GiveUp, IInv, TypeOK
  <2>. QED BY <1>14, <2>1, Stutter DEF GiveUp
<1>15. ASSUME NEW w \in Workers, CommitResult(w) PROVE LStep
  <2>. USE <1>15 DEF CommitResult, Sending
  <2>1. at[w] \in Pairs
    BY DEF IInv, TypeOK
  <2>2. CASE Loose(w)
    <3>1. inserter' = inserter
      BY <2>1, <2>2, <1>b DEF IInv, TypeOK
    <3>2. Attempt' = Attempt
      BY <2>1, <2>2, <3>1, <1>b, AttemptKept DEF IInv, TypeOK
    <3>. QED BY <2>2, <3>2, Repeats
  <2>3. CASE ~Loose(w)
    <3>1. Attempt' = [Attempt EXCEPT ![at[w]] = "none"]
      BY <2>3, <1>a, AttemptChanged DEF IInv, TypeOK
    <3>2. Attempt[at[w]] = IF result[w] = "sent" THEN "delivered" ELSE "open"
      BY <2>3, <1>a DEF Attempt
    <3>3. Ledger!Outcome(at[w]) = IF result[w] \in {"sent", "empty"} THEN "sent" ELSE "failed"
      BY <3>2, BoundsAssumption DEF Ledger!Outcome, IInv, TypeOK, ResultInv
    <3>4. Ledger!Record(at[w])
      BY <2>1, <3>1, <3>2, <3>3 DEF Ledger!Record
    <3>. QED BY <2>1, <3>4 DEF LStep, Ledger!LedgerNext
  <2>. QED BY <2>2, <2>3
<1>. QED
  BY <1>1, <1>2, <1>3, <1>4, <1>5, <1>6, <1>7, <1>8, <1>9, <1>10, <1>11, <1>12, <1>13,
     <1>14, <1>15
     DEF Next, Environment, TakeOrder, Step, Tick, Publish, ChangeOrder, ChangeSubscription,
         SkipOrder, SkipRecipient, vars

\* The two tasks, whatever workers do them and however they interleave and crash,
\* keep the ledger.
THEOREM LedgerKept == Spec => FollowsLedger
<1>1. Init => Ledger!LedgerInit
  BY LedgerStart
<1>2. IInv /\ IInv' /\ [Next]_vars => [Ledger!LedgerNext]_(Ledger!ledgerVars)
  BY StepsFollow DEF LStep
<1>. QED BY <1>1, <1>2, Inductive, PTL DEF Spec, FollowsLedger, Ledger!LedgerSpec

\* What the ledger promises holds of the tasks: unless a notification was put off, its
\* user has got what its row and its worker say, and one message more for each that a
\* crash or a lost confirmation kept off the record.
THEOREM AccountsKept == Spec => []Ledger!Balanced
  BY LedgerKept, Ledger!AccountsBalance, PTL DEF FollowsLedger

-----------------------------------------------------------------------------
(* The limits *)

\* What counts against a limit of user u on the orders in A: the notifications sent in the
\* last D minutes, and the workers that were let through and may still add one.
Recent(u, A, D) ==
  {o \in A : /\ <<o, u>> \notin everDeferred
             /\ status[<<o, u>>] = "sent"
             /\ sentAt[<<o, u>>] >= time - D}

Underway(u, A) ==
  {w \in Workers : \E o \in A : /\ at[w] = <<o, u>>
                               /\ <<o, u>> \notin everDeferred /\ status[<<o, u>>] = "none"}

Load(u, A, D) == Cardinality(Recent(u, A, D)) + Cardinality(Underway(u, A))

Alike(o) == {q \in Orders : Fingerprint[q] = Fingerprint[o]}

QuotaInv ==
  \A u \in Users : Quota[u] # Unlimited =>
    Load(u, Orders, Period) <= Quota[u] + Cardinality(Workers) - 1

SimilarInv ==
  \A u \in Users, o \in Orders : Cooldown[u] # Unlimited =>
    Load(u, Alike(o), Cooldown[u]) <= Cardinality(Workers)

ClockInv == \A w \in Workers : now[w] <= time

LimitInv == ClockInv /\ QuotaInv /\ SimilarInv

LEMMA LoadType ==
  ASSUME NEW u, NEW A \in SUBSET Orders, NEW D
  PROVE  /\ IsFiniteSet(Recent(u, A, D)) /\ Cardinality(Recent(u, A, D)) \in Nat
         /\ IsFiniteSet(Underway(u, A)) /\ Cardinality(Underway(u, A)) \in Nat
         /\ Cardinality(Underway(u, A)) <= Cardinality(Workers)
         /\ Cardinality(Workers) \in Nat \ {0}
<1>1. Recent(u, A, D) \subseteq Orders
  BY DEF Recent
<1>2. Underway(u, A) \subseteq Workers
  BY DEF Underway
<1>3. /\ IsFiniteSet(Recent(u, A, D)) /\ IsFiniteSet(Underway(u, A))
      /\ Cardinality(Underway(u, A)) <= Cardinality(Workers)
  BY <1>1, <1>2, SizesAssumption, FS_Subset
<1>4. Cardinality(Workers) \in Nat /\ Cardinality(Workers) # 0
  BY SizesAssumption, FS_CardinalityType, FS_EmptySet
<1>. QED BY <1>3, <1>4, FS_CardinalityType

\* Nothing new counts against a limit, or what a worker was let through for does.
Onward(u, A, D) ==
  \/ /\ Recent(u, A, D)' \subseteq Recent(u, A, D)
     /\ Underway(u, A)' \subseteq Underway(u, A)
  \/ \E w \in Underway(u, A), o \in A :
       /\ Recent(u, A, D)' \subseteq Recent(u, A, D) \union {o}
       /\ Underway(u, A)' \subseteq Underway(u, A) \ {w}

LEMMA OnwardIsNoMore ==
  ASSUME NEW u, NEW A \in SUBSET Orders, NEW D, Onward(u, A, D)
  PROVE  Load(u, A, D)' <= Load(u, A, D)
<1>. DEFINE R == Recent(u, A, D)
            U == Underway(u, A)
<1>1. IsFiniteSet(R) /\ IsFiniteSet(U) /\ Cardinality(R) \in Nat /\ Cardinality(U) \in Nat
  BY LoadType
<1>2. CASE R' \subseteq R /\ U' \subseteq U
  <2>1. /\ Cardinality(R') \in Nat /\ Cardinality(R') <= Cardinality(R)
        /\ Cardinality(U') \in Nat /\ Cardinality(U') <= Cardinality(U)
    <3>. HIDE DEF R, U
    <3>. QED BY <1>1, <1>2, FS_Subset, FS_CardinalityType
  <2>. QED BY <1>1, <2>1 DEF Load
<1>3. ASSUME NEW w \in U, NEW o \in A, R' \subseteq R \union {o}, U' \subseteq U \ {w}
      PROVE  Load(u, A, D)' <= Load(u, A, D)
  <2>1. /\ IsFiniteSet(R \union {o}) /\ Cardinality(R \union {o}) \in Nat
        /\ Cardinality(R \union {o}) <= Cardinality(R) + 1
    <3>. HIDE DEF R
    <3>1. /\ IsFiniteSet(R \union {o})
          /\ Cardinality(R \union {o}) = IF o \in R THEN Cardinality(R) ELSE Cardinality(R) + 1
      BY <1>1, FS_AddElement
    <3>. QED BY <1>1, <3>1
  <2>2. /\ IsFiniteSet(U \ {w}) /\ Cardinality(U \ {w}) \in Nat
        /\ Cardinality(U \ {w}) = Cardinality(U) - 1
    <3>. HIDE DEF U
    <3>. QED BY <1>1, <1>3, FS_RemoveElement, FS_CardinalityType
  <2>3. /\ Cardinality(R') \in Nat /\ Cardinality(R') <= Cardinality(R \union {o})
        /\ Cardinality(U') \in Nat /\ Cardinality(U') <= Cardinality(U \ {w})
    <3>. HIDE DEF R, U
    <3>. QED BY <1>3, <2>1, <2>2, FS_Subset, FS_CardinalityType
  <2>. QED BY <1>1, <2>1, <2>2, <2>3 DEF Load
<1>. QED BY <1>2, <1>3 DEF Onward

\* A step that records nothing, by workers that go nowhere new
LEMMA QuietStep ==
  ASSUME TypeOK, UNCHANGED <<time, status, sentAt, everDeferred>>,
         \A v \in Workers : at'[v] \in {at[v], NoPair},
         NEW u \in Users, NEW A \in SUBSET Orders, NEW D
  PROVE  Onward(u, A, D)
<1>1. Recent(u, A, D)' = Recent(u, A, D)
  BY DEF Recent
<1>2. Underway(u, A)' \subseteq Underway(u, A)
  BY NamesAssumption DEF Underway, Pairs
<1>. QED BY <1>1, <1>2 DEF Onward

\* Every step but the one that lets a worker through
LEMMA OnwardUnlessAdmitted ==
  ASSUME IInv, [Next]_vars, \A w \in Workers, p \in Pairs : ~Admit(w, p),
         NEW u \in Users, NEW A \in SUBSET Orders, NEW D \in Nat
  PROVE  Onward(u, A, D)
<1>. USE DEF envVars, rowVars, workVars, ghostVars
<1>0. TypeOK /\ time \in Int /\ \A p \in Pairs : sentAt[p] \in Int
  BY BoundsAssumption DEF IInv, TypeOK, Times
<1>1. CASE Tick
  <2>1. time' = time + 1 /\ UNCHANGED <<status, sentAt, everDeferred, at>>
    BY <1>1 DEF Tick
  <2>2. Underway(u, A)' = Underway(u, A)
    BY <2>1 DEF Underway
  <2>3. \A o \in A : sentAt[<<o, u>>] >= time + 1 - D => sentAt[<<o, u>>] >= time - D
    BY <1>0 DEF Pairs
  <2>4. Recent(u, A, D)' \subseteq Recent(u, A, D)
    <3>1. SUFFICES ASSUME NEW o \in A, o \in Recent(u, A, D)' PROVE o \in Recent(u, A, D)
      BY DEF Recent
    <3>2. sentAt[<<o, u>>] >= time + 1 - D
      <4>1. sentAt'[<<o, u>>] >= time' - D
        BY <3>1 DEF Recent
      <4>. QED BY <1>0, <2>1, <4>1
    <3>3. sentAt[<<o, u>>] >= time - D
      BY <2>3, <3>2
    <3>. QED BY <2>1, <3>1, <3>3 DEF Recent
  <2>. QED BY <2>2, <2>4 DEF Onward
<1>2. ASSUME \E o \in Orders : Publish(o) \/ ChangeOrder(o) \/ TakeOrder(o)
      PROVE  Onward(u, A, D)
  BY <1>0, <1>2, QuietStep DEF Publish, ChangeOrder, TakeOrder, SkipOrder, StartSend
<1>3. ASSUME NEW v \in Users, ChangeSubscription(v) PROVE Onward(u, A, D)
  BY <1>0, <1>3, QuietStep DEF ChangeSubscription
<1>4. ASSUME NEW w \in Workers,
             StartDeferred(w) \/ Crash(w) \/ Finish(w) \/ InsertConflict(w)
      PROVE  Onward(u, A, D)
  BY <1>0, <1>4, QuietStep DEF StartDeferred, Crash, LoseWorker, Finish, InsertConflict, Leave,
                               TypeOK
<1>5. ASSUME NEW w \in Workers,
             \/ \E p \in Pairs : SkipRecipient(w, p)
             \/ Lookup(w) \/ Insert(w) \/ SendNow(w)
             \/ Delivered(w) \/ SendError(w) \/ GiveUp(w)
      PROVE  Onward(u, A, D)
  BY <1>0, <1>5, QuietStep DEF SkipRecipient, Lookup, Insert, SendNow, Delivered, SendError,
                               GiveUp, TypeOK
<1>6. ASSUME NEW w \in Workers, Defer(w) PROVE Onward(u, A, D)
  <2>1. /\ everDeferred' = everDeferred \union {at[w]} /\ UNCHANGED <<time, sentAt>>
        /\ \A p \in Pairs : p # at[w] => status'[p] = status[p]
        /\ \A v \in Workers : at'[v] \in {at[v], NoPair}
    BY <1>0, <1>6 DEF Defer, TypeOK
  <2>2. Recent(u, A, D)' \subseteq Recent(u, A, D)
    BY <2>1 DEF Recent, Pairs
  <2>3. Underway(u, A)' \subseteq Underway(u, A)
    <3>1. SUFFICES ASSUME NEW v \in Underway(u, A)' PROVE v \in Underway(u, A)
      OBVIOUS
    <3>2. PICK o \in A : /\ at'[v] = <<o, u>> /\ <<o, u>> \notin everDeferred'
                         /\ status'[<<o, u>>] = "none"
      BY <3>1 DEF Underway
    <3>3. v \in Workers /\ <<o, u>> \in Pairs /\ <<o, u>> # at[w]
      BY <2>1, <3>1, <3>2 DEF Underway, Pairs
    <3>4. at[v] = <<o, u>>
      BY <2>1, <3>2, <3>3, NamesAssumption
    <3>. QED BY <2>1, <3>2, <3>3, <3>4 DEF Underway
  <2>. QED BY <2>2, <2>3 DEF Onward
<1>7. ASSUME NEW w \in Workers, NEW p \in Pairs, SkipDeferred(w, p) PROVE Onward(u, A, D)
  <2>1. /\ p \in everDeferred /\ UNCHANGED <<time, sentAt, at, everDeferred>>
        /\ \A q \in Pairs : q # p => status'[q] = status[q]
    BY <1>7 DEF SkipDeferred, IInv, TypeOK, DeferInv
  <2>. QED BY <2>1 DEF Onward, Recent, Underway, Pairs
<1>8. ASSUME NEW w \in Workers, NEW p \in Pairs, TakeDeferred(w, p) PROVE Onward(u, A, D)
  <2>1. /\ p \in everDeferred /\ UNCHANGED <<time, status, sentAt, everDeferred>>
        /\ at' = [at EXCEPT ![w] = p]
    BY <1>8 DEF TakeDeferred, IInv, DeferInv
  <2>2. Recent(u, A, D)' = Recent(u, A, D)
    BY <2>1 DEF Recent
  <2>3. Underway(u, A)' \subseteq Underway(u, A)
    BY <1>0, <2>1 DEF Underway, Pairs, TypeOK
  <2>. QED BY <2>2, <2>3 DEF Onward
<1>9. ASSUME NEW w \in Workers, CommitResult(w) PROVE Onward(u, A, D)
  <2>. DEFINE p == at[w]
  <2>1. /\ p \in Pairs /\ UNCHANGED <<time, everDeferred>>
        /\ \A q \in Pairs : q # p => status'[q] = status[q] /\ sentAt'[q] = sentAt[q]
        /\ status'[p] # "none"
    BY <1>0, <1>9 DEF CommitResult, TypeOK
  <2>2. /\ \A v \in Workers : at'[v] \in {at[v], NoPair}
        /\ at'[w] = NoPair
    BY <1>0, <1>9 DEF CommitResult, TypeOK
  <2>3. p \notin everDeferred => status[p] = "none"
    <3>1. p \notin everDeferred => inserter[p] = w
      BY <1>9 DEF CommitResult, IInv, ClaimInv, Sending
    <3>. QED BY <2>1, <3>1, NamesAssumption DEF IInv, HolderInv
  <2>4. Underway(u, A)' \subseteq Underway(u, A) \ {w}
    <3>1. SUFFICES ASSUME NEW v \in Underway(u, A)' PROVE v \in Underway(u, A) \ {w}
      OBVIOUS
    <3>2. PICK o \in A : /\ at'[v] = <<o, u>> /\ <<o, u>> \notin everDeferred'
                         /\ status'[<<o, u>>] = "none"
      BY <3>1 DEF Underway
    <3>3. v \in Workers /\ <<o, u>> \in Pairs /\ <<o, u>> # p
      BY <2>1, <3>1, <3>2 DEF Underway, Pairs
    <3>4. at[v] = <<o, u>> /\ v # w
      BY <2>2, <3>2, <3>3, NamesAssumption
    <3>. QED BY <2>1, <3>2, <3>3, <3>4 DEF Underway
  <2>5. CASE p \in everDeferred \/ \A o \in A : p # <<o, u>>
    <3>1. Recent(u, A, D)' \subseteq Recent(u, A, D)
      BY <2>1, <2>5 DEF Recent, Pairs
    <3>. QED BY <2>4, <3>1 DEF Onward
  <2>6. ASSUME p \notin everDeferred, NEW o \in A, p = <<o, u>> PROVE Onward(u, A, D)
    <3>1. w \in Underway(u, A)
      BY <2>3, <2>6 DEF Underway
    <3>2. Recent(u, A, D)' \subseteq Recent(u, A, D) \union {o}
      BY <2>1, <2>6 DEF Recent, Pairs
    <3>. QED BY <2>4, <3>1, <3>2 DEF Onward
  <2>. QED BY <2>5, <2>6
<1>10. CASE UNCHANGED vars
  BY <1>0, <1>10, QuietStep DEF vars, TypeOK
<1>. QED BY <1>1, <1>2, <1>3, <1>4, <1>5, <1>6, <1>7, <1>8, <1>9, <1>10
         DEF Next, Environment, Step

\* A worker is let through: what was sent does not change, and only it comes underway.
LEMMA Admission ==
  ASSUME IInv, NEW w \in Workers, NEW p \in Pairs, Admit(w, p), NEW u \in Users,
         NEW A \in SUBSET Orders, NEW D
  PROVE  /\ Recent(u, A, D)' = Recent(u, A, D)
         /\ Underway(u, A)' \subseteq Underway(u, A) \union {w}
         /\ w \in Underway(u, A)' =>
              \E o \in A : p = <<o, u>> /\ p \notin everDeferred /\ status[p] = "none"
<1>1. /\ UNCHANGED <<time, status, sentAt, everDeferred>>
      /\ at' = [at EXCEPT ![w] = p] /\ at \in [Workers -> Pairs \union {NoPair}]
  BY DEF Admit, rowVars, IInv, TypeOK
<1>2. Recent(u, A, D)' = Recent(u, A, D)
  BY <1>1 DEF Recent
<1>3. Underway(u, A)' \subseteq Underway(u, A) \union {w}
  BY <1>1 DEF Underway
<1>4. w \in Underway(u, A)' =>
        \E o \in A : p = <<o, u>> /\ p \notin everDeferred /\ status[p] = "none"
  BY <1>1 DEF Underway
<1>. QED BY <1>2, <1>3, <1>4

LEMMA QuotaStep ==
  ASSUME IInv, ClockInv, QuotaInv, [Next]_vars
  PROVE  QuotaInv'
<1> SUFFICES ASSUME NEW u \in Users, Quota[u] # Unlimited
             PROVE  Load(u, Orders, Period)' <= Quota[u] + Cardinality(Workers) - 1
  BY DEF QuotaInv
<1>. DEFINE R == Recent(u, Orders, Period)
            U == Underway(u, Orders)
            N == Cardinality(Workers)
<1>0. Quota[u] \in Nat /\ Load(u, Orders, Period) <= Quota[u] + N - 1
  BY SettingsAssumption DEF QuotaInv
<1>t. /\ IsFiniteSet(R) /\ Cardinality(R) \in Nat /\ Cardinality(U) \in Nat
      /\ Cardinality(R') \in Nat /\ Cardinality(U') \in Nat /\ Cardinality(U') <= N /\ N \in Nat
  <2>1. Underway(u, Orders)' \subseteq Workers /\ Recent(u, Orders, Period)' \subseteq Orders
    BY DEF Underway, Recent
  <2>. QED BY <2>1, LoadType, SizesAssumption, FS_Subset, FS_CardinalityType
<1>1. CASE \A w \in Workers, p \in Pairs : ~Admit(w, p)
  <2>1. Load(u, Orders, Period)' <= Load(u, Orders, Period)
    BY <1>1, OnwardUnlessAdmitted, OnwardIsNoMore, BoundsAssumption
  <2>. QED BY <1>0, <1>t, <2>1 DEF Load
<1>2. ASSUME NEW w \in Workers, NEW p \in Pairs, Admit(w, p)
      PROVE  Load(u, Orders, Period)' <= Quota[u] + N - 1
  <2>1. R' = R /\ U' \subseteq U \union {w} /\ (w \in U' => p[2] = u)
    BY <1>2, Admission
  <2>2. CASE p[2] = u
    <3>1. Quota[u] > Cardinality(SentSince(w, u))
      <4>1. ~(Cardinality(SentSince(w, u)) >= Quota[u])
        BY <1>0, <1>2, <2>2 DEF Admit, Admitted, RateLimited
      <4>2. Cardinality(SentSince(w, u)) \in Nat
        BY SizesAssumption, FS_Subset, FS_CardinalityType DEF SentSince
      <4>. QED BY <1>0, <4>1, <4>2
    <3>2. R \subseteq SentSince(w, u)
      <4>1. now[w] \in Int /\ time \in Int /\ now[w] <= time
        BY BoundsAssumption DEF ClockInv, IInv, TypeOK, Times
      <4>2. \A o \in Orders : sentAt[<<o, u>>] \in Int
        BY BoundsAssumption DEF IInv, TypeOK, Times, Pairs
      <4>3. \A o \in Orders : sentAt[<<o, u>>] >= time - Period => sentAt[<<o, u>>] >= now[w] - Period
        BY <4>1, <4>2, BoundsAssumption
      <4>. QED BY <4>3 DEF Recent, SentSince
    <3>3. Cardinality(R) <= Cardinality(SentSince(w, u)) /\ Cardinality(SentSince(w, u)) \in Nat
      BY <3>2, SizesAssumption, FS_Subset, FS_CardinalityType DEF SentSince
    <3>. QED BY <1>0, <1>t, <2>1, <3>1, <3>3 DEF Load
  <2>3. CASE p[2] # u
    <3>1. U' \subseteq U /\ IsFiniteSet(U)
      BY <2>1, <2>3, LoadType
    <3>2. Cardinality(U') <= Cardinality(U)
      <4>. HIDE DEF U
      <4>. QED BY <3>1, FS_Subset
    <3>. QED BY <1>0, <1>t, <2>1, <3>2 DEF Load
  <2>. QED BY <2>2, <2>3
<1>. QED BY <1>1, <1>2

LEMMA SimilarStep ==
  ASSUME IInv, ClockInv, SimilarInv, [Next]_vars
  PROVE  SimilarInv'
<1> SUFFICES ASSUME NEW u \in Users, NEW o \in Orders, Cooldown[u] # Unlimited
             PROVE  Load(u, Alike(o), Cooldown[u])' <= Cardinality(Workers)
  BY DEF SimilarInv
<1>. DEFINE A == Alike(o)
            R == Recent(u, A, Cooldown[u])
            U == Underway(u, A)
            N == Cardinality(Workers)
<1>0. /\ Cooldown[u] \in Nat /\ A \in SUBSET Orders
      /\ Load(u, A, Cooldown[u]) <= N
  BY SettingsAssumption DEF SimilarInv, Alike
<1>t. /\ IsFiniteSet(R) /\ Cardinality(R) \in Nat /\ Cardinality(U) \in Nat
      /\ Cardinality(R') \in Nat /\ Cardinality(U') \in Nat /\ Cardinality(U') <= N /\ N \in Nat
  <2>1. Underway(u, A)' \subseteq Workers /\ Recent(u, A, Cooldown[u])' \subseteq Orders
    BY DEF Underway, Recent, Alike
  <2>. QED BY <1>0, <2>1, LoadType, SizesAssumption, FS_Subset, FS_CardinalityType
<1>1. CASE \A w \in Workers, p \in Pairs : ~Admit(w, p)
  <2>1. Load(u, A, Cooldown[u])' <= Load(u, A, Cooldown[u])
    BY <1>0, <1>1, OnwardUnlessAdmitted, OnwardIsNoMore
  <2>. QED BY <1>0, <1>t, <2>1 DEF Load
<1>2. ASSUME NEW w \in Workers, NEW p \in Pairs, Admit(w, p)
      PROVE  Load(u, A, Cooldown[u])' <= N
  <2>1. /\ R' = R /\ U' \subseteq U \union {w}
        /\ w \in U' => \E q \in A : p = <<q, u>> /\ p \notin everDeferred /\ status[p] = "none"
    BY <1>0, <1>2, Admission
  <2>2. CASE p[2] = u /\ p[1] \in A
    <3>1. R \subseteq {p[1]}
      <4>1. now[w] \in Int /\ time \in Int /\ now[w] <= time
        BY BoundsAssumption DEF ClockInv, IInv, TypeOK, Times
      <4>2. \A q \in Orders : sentAt[<<q, u>>] \in Int
        BY BoundsAssumption DEF IInv, TypeOK, Times, Pairs
      <4>3. \A q \in A : /\ q \in Orders /\ Fingerprint[q] = Fingerprint[p[1]]
                        /\ (sentAt[<<q, u>>] >= time - Cooldown[u]
                              => sentAt[<<q, u>>] >= now[w] - Cooldown[u])
        BY <1>0, <2>2, <4>1, <4>2 DEF Alike
      <4>4. ~CoolingDown(w, p)
        BY <1>2 DEF Admit, Admitted
      <4>5. ASSUME NEW q \in A, q # p[1], status[<<q, u>>] = "sent",
                   sentAt[<<q, u>>] >= now[w] - Cooldown[u]
            PROVE  FALSE
        BY <2>2, <4>3, <4>4, <4>5 DEF CoolingDown
      <4>. QED BY <4>3, <4>5 DEF Recent
    <3>2. CASE R = {}
      <4>1. Cardinality(R) = 0
        BY <3>2, FS_EmptySet
      <4>. QED BY <1>t, <2>1, <4>1 DEF Load
    <3>3. CASE R # {}
      <4>1. R = {p[1]}
        BY <3>1, <3>3
      <4>2. Cardinality(R) = 1
        BY <4>1, FS_Singleton
      <4>3. status[p] # "none"
        <5>1. p = <<p[1], u>>
          BY <2>2 DEF Pairs
        <5>. QED BY <4>1, <5>1 DEF Recent
      <4>4. U' \subseteq Workers \ {w}
        BY <2>1, <4>3 DEF Underway
      <4>5. /\ IsFiniteSet(Workers \ {w}) /\ Cardinality(Workers \ {w}) = N - 1
        BY SizesAssumption, FS_RemoveElement
      <4>6. Cardinality(U') <= N - 1
        <5>. HIDE DEF U
        <5>. QED BY <4>4, <4>5, FS_Subset
      <4>. QED BY <1>t, <2>1, <4>2, <4>6 DEF Load
    <3>. QED BY <3>2, <3>3
  <2>3. CASE ~(p[2] = u /\ p[1] \in A)
    <3>1. U' \subseteq U /\ IsFiniteSet(U)
      BY <1>0, <2>1, <2>3, LoadType
    <3>2. Cardinality(U') <= Cardinality(U)
      <4>. HIDE DEF U
      <4>. QED BY <3>1, FS_Subset
    <3>. QED BY <1>0, <1>t, <2>1, <3>2 DEF Load
  <2>. QED BY <2>2, <2>3
<1>. QED BY <1>1, <1>2

\* The clock a task has read is never ahead.
LEMMA ClockStep == TypeOK /\ ClockInv /\ [Next]_vars => ClockInv'
<1> SUFFICES ASSUME TypeOK, ClockInv, [Next]_vars PROVE ClockInv'
  OBVIOUS
<1>0. time \in Int /\ \A w \in Workers : now[w] \in Int
  BY BoundsAssumption DEF TypeOK, Times
<1>1. \/ time' = time + 1 /\ now' = now
      \/ time' = time /\ now' = now
      \/ time' = time /\ \E w \in Workers : now' = [now EXCEPT ![w] = time]
  BY DEF Next, Environment, TakeOrder, Step, Tick, Publish, ChangeOrder, ChangeSubscription,
         SkipOrder, StartSend, StartDeferred, Crash, LoseWorker, Finish, SkipRecipient, Admit,
         Lookup, Insert, InsertConflict, Defer, SendNow, SkipDeferred, TakeDeferred, Delivered,
         SendError, GiveUp, CommitResult, vars, workVars
<1>2. \A w \in Workers : now'[w] \in {now[w], time}
  BY <1>1 DEF TypeOK
<1>. QED BY <1>0, <1>1, <1>2 DEF ClockInv

LEMMA LimitsInductive == Spec => []LimitInv
<1>1. Init => LimitInv
  <2> SUFFICES ASSUME Init PROVE LimitInv
    OBVIOUS
  <2>1. ASSUME NEW u \in Users, NEW A \in SUBSET Orders, NEW D PROVE Load(u, A, D) = 0
    <3>1. Recent(u, A, D) = {}
      BY <2>1 DEF Init, Recent, Pairs
    <3>2. Underway(u, A) = {}
      <4>1. \A w \in Workers, o \in A : at[w] # <<o, u>>
        BY <2>1, NamesAssumption DEF Init, Pairs
      <4>. QED BY <4>1 DEF Underway
    <3>. QED BY <3>1, <3>2, FS_EmptySet DEF Load
  <2>2. Cardinality(Workers) \in Nat \ {0}
    BY SizesAssumption, FS_CardinalityType, FS_EmptySet
  <2>3. QuotaInv
    <3> SUFFICES ASSUME NEW u \in Users, Quota[u] # Unlimited
                 PROVE  Load(u, Orders, Period) <= Quota[u] + Cardinality(Workers) - 1
      BY DEF QuotaInv
    <3>1. Quota[u] \in Nat /\ Load(u, Orders, Period) = 0
      BY <2>1, SettingsAssumption
    <3>. QED BY <2>2, <3>1
  <2>4. SimilarInv
    BY <2>1, <2>2 DEF SimilarInv, Alike
  <2>5. ClockInv
    BY DEF Init, ClockInv
  <2>. QED BY <2>3, <2>4, <2>5 DEF LimitInv
<1>2. IInv /\ LimitInv /\ [Next]_vars => LimitInv'
  BY ClockStep, QuotaStep, SimilarStep DEF LimitInv, IInv
<1>. QED BY <1>1, <1>2, Inductive, PTL DEF Spec

\* Whatever quotas and cool-downs users set, however many workers send and whatever fails:
\* no more notifications go out beyond a limit than there are other workers.
THEOREM LimitsHold == Spec => []LimitsOvershootBounded
<1>1. IInv /\ LimitInv => LimitsOvershootBounded
  <2> SUFFICES ASSUME IInv, LimitInv PROVE LimitsOvershootBounded
    OBVIOUS
  <2>1. QuotaOvershootBounded
    <3> SUFFICES ASSUME NEW u \in Users, Quota[u] # Unlimited
                 PROVE  Cardinality(SentInPeriod(u)) <= Quota[u] + Cardinality(Workers) - 1
      BY DEF QuotaOvershootBounded
    <3>1. SentInPeriod(u) = Recent(u, Orders, Period)
      BY DEF SentInPeriod, Recent
    <3>2. Load(u, Orders, Period) <= Quota[u] + Cardinality(Workers) - 1 /\ Quota[u] \in Nat
      BY SettingsAssumption DEF LimitInv, QuotaInv
    <3>. QED BY <3>1, <3>2, LoadType DEF Load
  <2>2. SimilarOvershootBounded
    <3> SUFFICES ASSUME NEW u \in Users, NEW o \in Orders, Cooldown[u] # Unlimited
                 PROVE  Cardinality({q \in Orders : /\ Fingerprint[q] = Fingerprint[o]
                                                    /\ <<q, u>> \notin everDeferred
                                                    /\ status[<<q, u>>] = "sent"
                                                    /\ sentAt[<<q, u>>] >= time - Cooldown[u]})
                          <= Cardinality(Workers)
      BY DEF SimilarOvershootBounded
    <3>. DEFINE S == {q \in Orders : /\ Fingerprint[q] = Fingerprint[o]
                                     /\ <<q, u>> \notin everDeferred
                                     /\ status[<<q, u>>] = "sent"
                                     /\ sentAt[<<q, u>>] >= time - Cooldown[u]}
    <3>1. S = Recent(u, Alike(o), Cooldown[u])
      BY DEF Recent, Alike
    <3>2. Load(u, Alike(o), Cooldown[u]) <= Cardinality(Workers) /\ Alike(o) \in SUBSET Orders
      BY DEF LimitInv, SimilarInv, Alike
    <3>3. Cardinality(Recent(u, Alike(o), Cooldown[u])) <= Cardinality(Workers)
      BY <3>2, LoadType DEF Load
    <3>4. Cardinality(S) <= Cardinality(Workers)
      <4>. HIDE DEF S
      <4>. QED BY <3>1, <3>3
    <3>. QED BY <3>4
  <2>. QED BY <2>1, <2>2 DEF LimitsOvershootBounded
<1>. QED BY <1>1, Inductive, LimitsInductive, PTL

=============================================================================
