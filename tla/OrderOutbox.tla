---------------------------- MODULE OrderOutbox ----------------------------
(***************************************************************************)
(* The transactional outbox of order notifications: the table              *)
(* order_notifications, the five-second worker job that leases a row,      *)
(* sends it over Telegram and records the result, and the manual retry of  *)
(* a failed row by an admin.                                               *)
(*                                                                         *)
(*   app/db/repositories/order_notification_repo.py   claim, mark          *)
(*   app/services/order_notification_service.py       deliver one claim    *)
(*   app/services/order_workflow.py                   enqueue, retry       *)
(*                                                                         *)
(* A queue is one pair (order_id, recipient_tg_id).  A row's identifier is *)
(* its primary key.  available_at and lease_until are kept as the time     *)
(* that remains until they are due (zero once they have passed), so that   *)
(* no absolute clock is needed; one Tick is one unit of that time.         *)
(*                                                                         *)
(* A lease token is a uuid4.  A result is fenced by row and token, so it   *)
(* is enough that tokens are unique per row: the token of the n-th lease   *)
(* of row i is n, and issued[i] is how many were ever granted.             *)
(***************************************************************************)
EXTENDS Naturals, Sequences

CONSTANTS
  MaxRows,            \* bound: primary keys 1..MaxRows are ever inserted
  Queues,             \* the pairs (order, recipient)
  NoQueue,            \* the queue of a key no row has
  Workers,            \* overlapping runs of the delivery job
  LeaseDuration,      \* LEASE_DURATION
  RetryDelays,        \* RETRY_DELAYS, a sequence of durations
  RetryAfters,        \* the delays Telegram may ask for in a RetryAfter
  MaxLag,             \* bound: how late a run commits the clock it has read
  MaxManualRetries    \* bound: manual retries of one row

MaxAttempts == 1 + Len(RetryDelays)
Ids == 1 .. MaxRows

ASSUME OutboxAssumption ==
  /\ MaxRows \in Nat
  /\ NoQueue \notin Queues
  /\ LeaseDuration \in Nat
  /\ RetryDelays \in Seq(Nat)
  /\ RetryAfters \subseteq Nat
  /\ MaxLag \in Nat
  /\ MaxManualRetries \in Nat

Statuses == {"absent", "pending", "sending", "sent", "failed"}

NoClaim == [id |-> 0, attempts |-> 0, token |-> 0]
Claims == [id : Ids \cup {0}, attempts : Nat, token : Nat]
Phases == {"idle", "sending", "accepted", "refused", "suppressed", "retryafter"}

VARIABLES
  queue,      \* order_id and recipient_tg_id of each row
  replyTo,    \* reply_to_notification_id of an admin_order_location, else 0
  status,     \* "absent" until the row is committed
  attempts,
  wait,       \* available_at - now
  lease,      \* lease_until - now
  token,      \* lease_token, 0 for NULL
  phase,      \* what each run of the job is doing
  claim,      \* the ClaimedOrderNotification it holds in memory
  issued,     \* history: leases ever granted on each row
  accepted,   \* history: the leases under which Telegram accepted the row
  retries     \* history: manual retries of each row

rowVars == <<queue, replyTo, status, attempts, wait, lease, token>>
runVars == <<phase, claim>>
history == <<issued, accepted, retries>>
vars == <<rowVars, runVars, history>>

TypeOK ==
  /\ queue \in [Ids -> Queues \cup {NoQueue}]
  /\ replyTo \in [Ids -> Ids \cup {0}]
  /\ status \in [Ids -> Statuses]
  /\ attempts \in [Ids -> 0 .. MaxAttempts]
  /\ wait \in [Ids -> Nat]
  /\ lease \in [Ids -> 0 .. LeaseDuration]
  /\ token \in [Ids -> Nat]
  /\ phase \in [Workers -> Phases]
  /\ claim \in [Workers -> Claims]
  /\ issued \in [Ids -> Nat]
  /\ accepted \in [Ids -> SUBSET Nat]
  /\ retries \in [Ids -> 0 .. MaxManualRetries]

Init ==
  /\ queue = [i \in Ids |-> NoQueue]
  /\ replyTo = [i \in Ids |-> 0]
  /\ status = [i \in Ids |-> "absent"]
  /\ attempts = [i \in Ids |-> 0]
  /\ wait = [i \in Ids |-> 0]
  /\ lease = [i \in Ids |-> 0]
  /\ token = [i \in Ids |-> 0]
  /\ phase = [w \in Workers |-> "idle"]
  /\ claim = [w \in Workers |-> NoClaim]
  /\ issued = [i \in Ids |-> 0]
  /\ accepted = [i \in Ids |-> {}]
  /\ retries = [i \in Ids |-> 0]

-----------------------------------------------------------------------------
Earlier(j, i) == j < i /\ queue[j] = queue[i] /\ status[j] # "absent"

IsLocation(i) == replyTo[i] # 0

\* Mutant of IsHead: a failed row no longer holds back its queue.
IsHeadPastFailed(i) ==
  \A j \in Ids : Earlier(j, i) => status[j] \in {"sent", "failed"}

\* is_head: nothing before the row in its queue remains unsent.
IsHead(i) == \A j \in Ids : Earlier(j, i) => status[j] = "sent"

\* Mutant of Eligible: the lease of a dead run is never taken over.
EligibleIfPending(i) == status[i] = "pending" /\ wait[i] = 0

Eligible(i) ==
  \/ status[i] = "pending" /\ wait[i] = 0
  \/ status[i] = "sending" /\ lease[i] = 0

SendsLeft(i) == attempts[i] < MaxAttempts

\* Mutant of Owns: the result is fenced by status alone.
OwnsByStatus(w) == status[claim[w].id] = "sending"

\* mark_notification_*: the result of a run counts only while the row is
\* still leased under the token of that run.
Owns(w) ==
  /\ status[claim[w].id] = "sending"
  /\ token[claim[w].id] = claim[w].token

-----------------------------------------------------------------------------
(* The committed effect of an event on the outbox.  The order row is locked *)
(* while the keys are drawn, so within a queue they grow in commit order;   *)
(* keys of other orders may become visible in any order.                    *)
NewKeys(S, q) ==
  /\ S \subseteq Ids
  /\ \A i \in S : status[i] = "absent"
  /\ \A i \in S, j \in Ids : queue[j] = q => j < i

Enqueue(q, i) ==
  /\ NewKeys({i}, q)
  /\ queue' = [queue EXCEPT ![i] = q]
  /\ status' = [status EXCEPT ![i] = "pending"]
  /\ UNCHANGED <<replyTo, attempts, wait, lease, token, runVars, history>>

\* create_event for an order with a pin: the message and its location.
EnqueueWithLocation(q, i, j) ==
  /\ i < j /\ NewKeys({i, j}, q)
  /\ queue' = [queue EXCEPT ![i] = q, ![j] = q]
  /\ status' = [status EXCEPT ![i] = "pending", ![j] = "pending"]
  /\ replyTo' = [replyTo EXCEPT ![j] = i]
  /\ UNCHANGED <<attempts, wait, lease, token, runVars, history>>

(* claim_due_notifications: a run leases one due head.  SKIP LOCKED lets it *)
(* pass over a lower key that another transaction holds, so any due head    *)
(* may be chosen.  The run read its clock up to MaxLag before it commits.   *)
Claim(w, i, lag) ==
  /\ phase[w] = "idle"
  /\ IsHead(i) /\ Eligible(i)
  /\ SendsLeft(i)
  /\ status' = [status EXCEPT ![i] = "sending"]
  /\ attempts' = [attempts EXCEPT ![i] = @ + 1]
  /\ issued' = [issued EXCEPT ![i] = @ + 1]
  /\ token' = [token EXCEPT ![i] = issued[i] + 1]
  /\ lease' = [lease EXCEPT ![i] = IF lag < LeaseDuration
                                     THEN LeaseDuration - lag ELSE 0]
  /\ phase' = [phase EXCEPT ![w] = "sending"]
  /\ claim' = [claim EXCEPT ![w] =
       [id |-> i, attempts |-> attempts[i] + 1, token |-> issued[i] + 1]]
  /\ UNCHANGED <<queue, replyTo, wait, accepted, retries>>

\* The same call, on a row whose last permitted lease has expired.
Exhaust(w, i) ==
  /\ phase[w] = "idle"
  /\ IsHead(i) /\ Eligible(i)
  /\ ~SendsLeft(i)
  /\ status' = [status EXCEPT ![i] = "failed"]
  /\ lease' = [lease EXCEPT ![i] = 0]
  /\ token' = [token EXCEPT ![i] = 0]
  /\ UNCHANGED <<queue, replyTo, attempts, wait, runVars, history>>

-----------------------------------------------------------------------------
(* _send_claim and the classification of its outcome.  A location needs the *)
(* message it replies to; the recipient may be refused by the recheck.      *)
ParentSent(i) ==
  /\ queue[replyTo[i]] = queue[i]
  /\ ~IsLocation(replyTo[i])
  /\ status[replyTo[i]] = "sent"

MaySend(w) ==
  /\ phase[w] = "sending"
  /\ IsLocation(claim[w].id) => ParentSent(claim[w].id)

\* Telegram takes the message; its answer reaches the worker, or is lost.
TelegramAccepts(w) ==
  /\ MaySend(w)
  /\ accepted' = [accepted EXCEPT ![claim[w].id] = @ \cup {claim[w].token}]
  /\ \E p \in {"accepted", "refused"} : phase' = [phase EXCEPT ![w] = p]
  /\ UNCHANGED <<rowVars, claim, issued, retries>>

\* A network or server error, a RetryAfter, or a permanent refusal.
TelegramRefuses(w) ==
  /\ MaySend(w)
  /\ \E p \in {"refused", "retryafter", "suppressed"} :
       phase' = [phase EXCEPT ![w] = p]
  /\ UNCHANGED <<rowVars, claim, history>>

\* _PermanentDeliveryError: the recipient recheck, or an orphan location.
Suppress(w) ==
  /\ phase[w] = "sending"
  /\ phase' = [phase EXCEPT ![w] = "suppressed"]
  /\ UNCHANGED <<rowVars, claim, history>>

-----------------------------------------------------------------------------
Finish(w) ==
  /\ phase' = [phase EXCEPT ![w] = "idle"]
  /\ claim' = [claim EXCEPT ![w] = NoClaim]

MarkSent(w) ==
  /\ phase[w] = "accepted"
  /\ IF Owns(w)
       THEN LET i == claim[w].id IN
            /\ status' = [status EXCEPT ![i] = "sent"]
            /\ lease' = [lease EXCEPT ![i] = 0]
            /\ token' = [token EXCEPT ![i] = 0]
       ELSE UNCHANGED <<status, lease, token>>
  /\ Finish(w)
  /\ UNCHANGED <<queue, replyTo, attempts, wait, history>>

\* The delay before the next attempt: what Telegram asked for, or backoff.
Backoff(w, d) ==
  IF phase[w] = "retryafter"
    THEN d \in RetryAfters
    ELSE d = IF claim[w].attempts \in 1 .. Len(RetryDelays)
               THEN RetryDelays[claim[w].attempts] ELSE 0

MarkFailed(w) ==
  /\ phase[w] \in {"refused", "retryafter", "suppressed"}
  /\ IF Owns(w)
       THEN LET i == claim[w].id
                final == \/ phase[w] = "suppressed"
                         \/ claim[w].attempts >= MaxAttempts
            IN
            /\ status' = [status EXCEPT ![i] = IF final THEN "failed"
                                                        ELSE "pending"]
            /\ \E d \in RetryAfters \cup {0} \cup
                        {RetryDelays[k] : k \in 1 .. Len(RetryDelays)} :
                 /\ Backoff(w, d)
                 /\ wait' = [wait EXCEPT ![i] = d]
            /\ lease' = [lease EXCEPT ![i] = 0]
            /\ token' = [token EXCEPT ![i] = 0]
       ELSE UNCHANGED <<status, wait, lease, token>>
  /\ Finish(w)
  /\ UNCHANGED <<queue, replyTo, attempts, history>>

\* The worker process dies, or the job is cancelled: what it held in memory
\* is gone, what it committed stays.
Crash(w) ==
  /\ phase[w] # "idle"
  /\ Finish(w)
  /\ UNCHANGED <<rowVars, history>>

\* OrderWorkflow.retry_notification.
ManualRetry(i) ==
  /\ status[i] = "failed"
  /\ retries[i] < MaxManualRetries
  /\ status' = [status EXCEPT ![i] = "pending"]
  /\ wait' = [wait EXCEPT ![i] = 0]
  /\ lease' = [lease EXCEPT ![i] = 0]
  /\ token' = [token EXCEPT ![i] = 0]
  /\ attempts' = [attempts EXCEPT ![i] = 0]
  /\ retries' = [retries EXCEPT ![i] = @ + 1]
  /\ UNCHANGED <<queue, replyTo, runVars, issued, accepted>>

Elapse(t) == [i \in Ids |-> IF t[i] > 0 THEN t[i] - 1 ELSE 0]

Tick ==
  /\ \E i \in Ids : wait[i] > 0 \/ lease[i] > 0
  /\ wait' = Elapse(wait)
  /\ lease' = Elapse(lease)
  /\ UNCHANGED <<queue, replyTo, status, attempts, token, runVars, history>>

-----------------------------------------------------------------------------
ClaimSome(w) ==
  \E i \in Ids : Exhaust(w, i) \/ \E lag \in 0 .. MaxLag : Claim(w, i, lag)

Conclude(w) ==
  TelegramAccepts(w) \/ TelegramRefuses(w) \/ Suppress(w)
    \/ MarkSent(w) \/ MarkFailed(w)

Next ==
  \/ \E q \in Queues, i \in Ids :
       Enqueue(q, i) \/ \E j \in Ids : EnqueueWithLocation(q, i, j)
  \/ \E w \in Workers : ClaimSome(w) \/ Conclude(w) \/ Crash(w)
  \/ \E i \in Ids : ManualRetry(i)
  \/ Tick

\* The cron fires every five seconds whatever became of the last run, every
\* Telegram call returns or is cancelled, and time passes.
Fairness ==
  /\ WF_vars(\E w \in Workers : ClaimSome(w))
  /\ \A w \in Workers : WF_vars(Conclude(w) \/ Crash(w))
  /\ WF_vars(Tick)

Spec == Init /\ [][Next]_vars
FairSpec == Spec /\ Fairness
-----------------------------------------------------------------------------
(* Nothing overtakes within a queue: a row that was ever leased, or has     *)
(* been settled, has only sent rows before it -- although runs overlap,     *)
(* leases expire under a run that is still sending, and rows fail.          *)
HeadOfLine ==
  \A i, j \in Ids :
    Earlier(j, i) /\ (issued[i] > 0 \/ status[i] \in {"sending", "sent", "failed"})
      => status[j] = "sent"

(* What the recipient sees: the first copy of a row never arrives before    *)
(* the first copy of every earlier row of its order.  (Second copies may    *)
(* arrive late; Telegram takes no idempotency key.)                         *)
FirstCopiesInOrder ==
  \A i, j \in Ids :
    Earlier(j, i) /\ accepted[i] # {} => accepted[j] # {}

(* "sent" is recorded only by the latest lease, for the message Telegram    *)
(* accepted under that lease: a stale run never settles a row for another.  *)
SentUnderLatestLease ==
  \A i \in Ids : status[i] = "sent" => issued[i] \in accepted[i]

(* No sixth send: between two manual retries a row is leased, and so put    *)
(* on the network, at most MAX_ATTEMPTS times, crashes included.            *)
NoSixthSend ==
  \A i \in Ids :
    /\ issued[i] <= MaxAttempts * (1 + retries[i])
    /\ accepted[i] \subseteq 1 .. issued[i]

(* At most one run at a time may settle anything in a queue.                *)
OneOwnerPerQueue ==
  \A v, w \in Workers :
    /\ phase[v] # "idle" /\ Owns(v)
    /\ phase[w] # "idle" /\ Owns(w)
    /\ queue[claim[v].id] = queue[claim[w].id]
    => v = w

(* The pin is never refused as admin_order_message_not_sent: any run that   *)
(* holds a location, stale or not, finds its message sent.                  *)
LocationHasItsMessage ==
  \A w \in Workers :
    phase[w] = "sending" /\ IsLocation(claim[w].id) => ParentSent(claim[w].id)

(* A sent row is final, and only its current lease holder or an expired     *)
(* lease moves a row out of "sending".                                      *)
SettledByOwner ==
  [][\A i \in Ids :
       /\ status[i] = "sent" => status'[i] = "sent" /\ token'[i] = token[i]
       /\ status[i] = "sending" /\ status'[i] # "sending" =>
            \/ lease[i] = 0
            \/ \E w \in Workers : claim[w].id = i /\ claim[w].token = token[i]]_vars

(* Every row is eventually sent, or its queue stops at a failed row that    *)
(* waits for an admin.                                                      *)
DrainsOrStops ==
  \A i \in Ids :
    status[i] # "absent" ~>
      \/ status[i] = "sent"
      \/ \E j \in Ids : (j = i \/ Earlier(j, i)) /\ status[j] = "failed"

(* The outbox implements in-order delivery with repetition.                 *)
Promise == INSTANCE InOrderDelivery WITH
  posted <- queue,
  seen <- {i \in Ids : accepted[i] # {}},
  confirmed <- {i \in Ids : status[i] = "sent"}

(* Every step of the outbox is a step of InOrderDelivery or invisible.      *)
ImplementsInOrderDelivery == Promise!Spec
-----------------------------------------------------------------------------
(* The inductive invariant behind the safety properties: how the columns of *)
(* a row, the claims in memory and the history fit together.                *)
RowsAgree ==
  \A i \in Ids :
    /\ status[i] = "absent" => /\ queue[i] = NoQueue /\ replyTo[i] = 0
                              /\ issued[i] = 0
    /\ status[i] # "absent" => queue[i] \in Queues
    /\ status[i] = "sending" => issued[i] > 0 /\ token[i] = issued[i]
    /\ status[i] # "sending" => token[i] = 0
    /\ accepted[i] \subseteq 1 .. issued[i]

RunsAgree ==
  \A w \in Workers :
    phase[w] # "idle" =>
      /\ claim[w].id \in Ids
      /\ claim[w].token \in 1 .. issued[claim[w].id]
      /\ phase[w] = "accepted" => claim[w].token \in accepted[claim[w].id]

TokensUnique ==
  \A v, w \in Workers :
    /\ phase[v] # "idle" /\ phase[w] # "idle"
    /\ claim[v].id = claim[w].id /\ claim[v].token = claim[w].token
    => v = w

LocationsFollow ==
  \A i \in Ids :
    IsLocation(i) =>
      /\ replyTo[i] < i
      /\ queue[replyTo[i]] = queue[i] /\ ~IsLocation(replyTo[i])

LeasesCounted ==
  \A i \in Ids : issued[i] <= MaxAttempts * retries[i] + attempts[i]

(* Holds in every reachable state and is preserved by every step.           *)
IInv ==
  /\ TypeOK
  /\ RowsAgree
  /\ RunsAgree
  /\ TokensUnique
  /\ HeadOfLine
  /\ SentUnderLatestLease
  /\ LocationsFollow
  /\ LeasesCounted
=============================================================================
