-------------------------- MODULE InOrderDelivery --------------------------
(***************************************************************************)
(* What the order outbox promises the people it writes to, without leases, *)
(* workers, retries or time: every queue is read in the order it was       *)
(* posted, and the shop only believes a message delivered (confirmed) once *)
(* the recipient has it and everything before it is confirmed too.         *)
(*                                                                         *)
(* SPEC.md section 9 calls this the "ordered durable outbox".              *)
(***************************************************************************)
EXTENDS Naturals

CONSTANTS Ids, Queues, NoQueue

VARIABLES
  posted,     \* the queue each message was posted to
  seen,       \* the messages whose recipient has at least one copy
  confirmed   \* the messages the shop knows to be delivered

vars == <<posted, seen, confirmed>>

Before(j, i) == j < i /\ posted[j] = posted[i]

Init ==
  /\ posted = [i \in Ids |-> NoQueue]
  /\ seen = {}
  /\ confirmed = {}

\* Messages of one event go to the end of their queue, all or none.
Post(S, q) ==
  /\ S # {}
  /\ \A i \in S : posted[i] = NoQueue
  /\ \A i \in S, j \in Ids : posted[j] = q => j < i
  /\ posted' = [i \in Ids |-> IF i \in S THEN q ELSE posted[i]]
  /\ UNCHANGED <<seen, confirmed>>

\* The recipient gets the first copy of the next message of the queue.
See(i) ==
  /\ posted[i] # NoQueue
  /\ i \notin seen
  /\ \A j \in Ids : Before(j, i) => j \in confirmed
  /\ seen' = seen \cup {i}
  /\ UNCHANGED <<posted, confirmed>>

Confirm(i) ==
  /\ i \in seen \ confirmed
  /\ \A j \in Ids : Before(j, i) => j \in confirmed
  /\ confirmed' = confirmed \cup {i}
  /\ UNCHANGED <<posted, seen>>

Next ==
  \/ \E S \in SUBSET Ids, q \in Queues : Post(S, q)
  \/ \E i \in Ids : See(i) \/ Confirm(i)

Spec == Init /\ [][Next]_vars
=============================================================================
