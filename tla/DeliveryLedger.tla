--------------------------- MODULE DeliveryLedger ---------------------------
(***************************************************************************)
(* What the delivery of notifications promises, without workers, tasks and *)
(* locks: a notification has one attempt at a time, what the attempt did   *)
(* is recorded once, and every message is accounted for by that record or  *)
(* by an accident.  A notification that was put off once is promised       *)
(* nothing but a record.                                                   *)
(***************************************************************************)
EXTENDS Naturals, TLAPS

CONSTANTS
  Pairs,      \* notifications: <<order, user>>
  MaxRetries  \* sends an attempt may make

VARIABLES
  row,        \* the outcome on record, "none" before there is one
  attempt,    \* "none", "open", or "delivered" once Telegram has confirmed
  messages,   \* messages the user got
  unrecorded, \* of these, the ones nobody knows of
  putOff      \* notifications that were deferred once

ledgerVars == <<row, attempt, messages, unrecorded, putOff>>

LedgerInit ==
  /\ row = [p \in Pairs |-> "none"] /\ attempt = [p \in Pairs |-> "none"]
  /\ messages = [p \in Pairs |-> 0] /\ unrecorded = [p \in Pairs |-> 0]
  /\ putOff = {}

Claim(p) ==
  /\ row[p] = "none" /\ attempt[p] = "none"
  /\ attempt' = [attempt EXCEPT ![p] = "open"]
  /\ UNCHANGED <<row, messages, unrecorded, putOff>>

Deliver(p) ==
  /\ attempt[p] = "open" /\ attempt' = [attempt EXCEPT ![p] = "delivered"]
  /\ messages' = [messages EXCEPT ![p] = @ + 1]
  /\ UNCHANGED <<row, unrecorded, putOff>>

\* Telegram delivers and its confirmation is lost.
LoseReply(p) ==
  /\ attempt[p] = "open"
  /\ messages' = [messages EXCEPT ![p] = @ + 1]
  /\ unrecorded' = [unrecorded EXCEPT ![p] = @ + 1]
  /\ UNCHANGED <<row, attempt, putOff>>

Outcome(p) ==
  IF attempt[p] = "delivered" \/ MaxRetries = 0 THEN "sent" ELSE "failed"

Record(p) ==
  /\ attempt[p] # "none" /\ attempt' = [attempt EXCEPT ![p] = "none"]
  /\ row' = [row EXCEPT ![p] = Outcome(p)]
  /\ UNCHANGED <<messages, unrecorded, putOff>>

\* A crash
Abandon(p) ==
  /\ attempt[p] # "none" /\ attempt' = [attempt EXCEPT ![p] = "none"]
  /\ unrecorded' = [unrecorded EXCEPT ![p] = IF attempt[p] = "delivered" THEN @ + 1 ELSE @]
  /\ UNCHANGED <<row, messages, putOff>>

\* Quiet hours
PutOff(p) ==
  /\ attempt[p] = "open" /\ attempt' = [attempt EXCEPT ![p] = "none"]
  /\ row' = [row EXCEPT ![p] = "deferred"] /\ putOff' = putOff \union {p}
  /\ UNCHANGED <<messages, unrecorded>>

\* Deferred runs and send tasks that overlap
Again(p) ==
  /\ p \in putOff
  /\ \E outcome \in {"deferred", "sent", "failed", "skipped"} :
       row' = [row EXCEPT ![p] = outcome]
  /\ \E n \in {0, 1} : messages' = [messages EXCEPT ![p] = @ + n]
  /\ \E n \in {0, 1} : unrecorded' = [unrecorded EXCEPT ![p] = @ + n]
  /\ UNCHANGED <<attempt, putOff>>

LedgerNext ==
  \E p \in Pairs : Claim(p) \/ Deliver(p) \/ LoseReply(p) \/ Record(p) \/ Abandon(p)
                   \/ PutOff(p) \/ Again(p)

LedgerSpec == LedgerInit /\ [][LedgerNext]_ledgerVars

\* The account: a user has got the message on record, or the one the attempt has
\* delivered, and those that accidents kept off the record; no more and no less.
Balanced ==
  MaxRetries > 0 =>
    \A p \in Pairs \ putOff :
      messages[p] = unrecorded[p]
                    + (IF row[p] = "sent" \/ attempt[p] = "delivered" THEN 1 ELSE 0)

-----------------------------------------------------------------------------
(* The accounts balance *)

Rows == {"none", "deferred", "sent", "failed", "skipped"}

LedgerTypeOK ==
  /\ row \in [Pairs -> Rows] /\ attempt \in [Pairs -> {"none", "open", "delivered"}]
  /\ messages \in [Pairs -> Nat] /\ unrecorded \in [Pairs -> Nat]
  /\ putOff \subseteq Pairs

\* An attempt is only open where there is no record, and what was put off has one.
OneAtATime ==
  \A p \in Pairs : /\ attempt[p] # "none" => row[p] = "none"
                   /\ p \in putOff => row[p] # "none"

LInv == LedgerTypeOK /\ OneAtATime /\ Balanced

\* Whatever accidents happen, a user has got what the record and the attempt say, and
\* one message for each that an accident kept off the record.
THEOREM AccountsBalance == LedgerSpec => []Balanced
<1>. USE DEF LInv, LedgerTypeOK, OneAtATime, Balanced, Rows
<1>1. LedgerInit => LInv
  BY DEF LedgerInit
<1>2. LInv /\ [LedgerNext]_ledgerVars => LInv'
  <2> SUFFICES ASSUME LInv, [LedgerNext]_ledgerVars PROVE LInv'
    OBVIOUS
  <2>1. ASSUME NEW p \in Pairs, Claim(p) PROVE LInv'
    BY <2>1 DEF Claim
  <2>2. ASSUME NEW p \in Pairs, Deliver(p) PROVE LInv'
    BY <2>2 DEF Deliver
  <2>3. ASSUME NEW p \in Pairs, LoseReply(p) PROVE LInv'
    BY <2>3 DEF LoseReply
  <2>4. ASSUME NEW p \in Pairs, Record(p) PROVE LInv'
    BY <2>4 DEF Record, Outcome
  <2>5. ASSUME NEW p \in Pairs, Abandon(p) PROVE LInv'
    BY <2>5 DEF Abandon
  <2>6. ASSUME NEW p \in Pairs, PutOff(p) PROVE LInv'
    BY <2>6 DEF PutOff
  <2>7. ASSUME NEW p \in Pairs, Again(p) PROVE LInv'
    <3>1. row'[p] \in Rows \ {"none"} /\ \A q \in Pairs \ {p} : row'[q] = row[q]
      BY <2>7 DEF Again
    <3>2. messages' \in [Pairs -> Nat] /\ \A q \in Pairs \ {p} : messages'[q] = messages[q]
      BY <2>7 DEF Again
    <3>3. /\ unrecorded' \in [Pairs -> Nat]
          /\ \A q \in Pairs \ {p} : unrecorded'[q] = unrecorded[q]
      BY <2>7 DEF Again
    <3>4. row' \in [Pairs -> Rows]
      BY <2>7 DEF Again
    <3>. QED BY <2>7, <3>1, <3>2, <3>3, <3>4 DEF Again
  <2>8. CASE UNCHANGED ledgerVars
    BY <2>8 DEF ledgerVars
  <2>. QED BY <2>1, <2>2, <2>3, <2>4, <2>5, <2>6, <2>7, <2>8 DEF LedgerNext
<1>3. LInv => Balanced
  OBVIOUS
<1>. QED BY <1>1, <1>2, <1>3, PTL DEF LedgerSpec

=============================================================================
