----------------------- MODULE MCNotificationDelivery -----------------------
(* Small instances of NotificationDelivery for TLC. *)
EXTENDS NotificationDelivery, TLC

CONSTANTS o1, o2, o3, u1, u2

\* Every order matches; nobody has limits or quiet hours.
AllPairs == Orders \X Users
Awake == [u \in Users |-> [t \in Times |-> t]]
NoLimit == [u \in Users |-> Unlimited]
Distinct == [o \in Orders |-> o]
AllAlike == [o \in Orders |-> o1]

\* It is night for everybody from 0 to 1, and from 1 to 2 only for u2.
Night == [u \in Users |-> [t \in Times |-> IF t = 0 THEN 1 ELSE t]]
LateNight == [u \in Users |-> [t \in Times |->
               IF u = u2 /\ t = 1 THEN 2 ELSE IF t = 0 THEN 1 ELSE t]]

\* One user per kind of limit: u1 has a quota, u2 a cool-down.
OneQuota == [u \in Users |-> IF u = u1 THEN 1 ELSE Unlimited]
OneCooldown == [u \in Users |-> IF u = u2 THEN 1 ELSE Unlimited]

WorkerSymmetry == Permutations(Workers)

=============================================================================
