--------------------------- MODULE StatusMessages ---------------------------
(***************************************************************************)
(* The message that tells a customer in Telegram how far the answer is     *)
(* (app/services/chat_progress.py, the end of                              *)
(* deliver_conversation_notifications, services/telegram_cleanup.py).      *)
(*                                                                         *)
(* The bot sends it once per question, a cron job edits it while the       *)
(* question is worked on, the delivery of the answer deletes it, and what  *)
(* is left goes with the cleanup of day-old messages.  Each of them holds  *)
(* what it read across a call to Telegram and writes afterwards.  One      *)
(* question and its chat are modelled; the chat is a customer's, so the    *)
(* guards for administrators' chats are left out.                          *)
(***************************************************************************)
EXTENDS Naturals

CONSTANTS
    Handlers,    \* bot handlers that got the question: Telegram repeats updates
    Runs,        \* runs of update_chat_progress
    Cleaners,    \* runs of cleanup_telegram_messages
    Ids,         \* bound: Telegram message ids, given out in any order
    NoId,
    MaxAttempts, \* MAX_RETRY_ATTEMPTS
    MaxCrashes   \* bound: processes that die

ASSUME StatusMessagesAssumption ==
    /\ NoId \notin Ids
    /\ MaxAttempts \in Nat \ {0}
    /\ MaxCrashes \in Nat

VARIABLES
    job,     \* the conversation_jobs row: status, slot, lease, id
    shown,   \* what the customer sees under each id
    row,     \* telegram_messages
    age,     \* hours since each message was sent: under 24, under 48, more
    handler, \* what each handler is at, and the slot it computed
    run,     \* what each progress run is at, with what it read
    notice,  \* the delivery of the answer, with the id it read
    cleaner, \* what each cleanup run is at, with its copies of rows
    crashes

vars == <<job, shown, row, age, handler, run, notice, cleaner, crashes>>
processes == <<handler, run, notice, cleaner>>

-----------------------------------------------------------------------------
Finished == "done"

Slot(status) ==
    CASE status = "pending" -> "queued"
      [] status = "running" -> "running"
      [] status = "answered" -> Finished

NoRow == [status |-> "none", attempts |-> 0, leased |-> FALSE, waits |-> FALSE]
NewRow == [NoRow EXCEPT !.status = "pending"]
Terminal == {"deleted", "failed", "expired"}

IdleHandler == [at |-> "idle", slot |-> "new", id |-> NoId]
IdleRun == [at |-> "idle", slot |-> "new", old |-> "new", id |-> NoId]
IdleCleaner == [at |-> "idle", rows |-> [i \in Ids |-> NoRow], late |-> {}, id |-> NoId, outcome |-> "none"]

Init ==
    /\ job = [status |-> "pending", slot |-> "new", lease |-> FALSE, id |-> NoId]
    /\ shown = [i \in Ids |-> "unsent"]
    /\ row = [i \in Ids |-> NoRow]
    /\ age = [i \in Ids |-> 0]
    /\ handler = [h \in Handlers |-> [IdleHandler EXCEPT !.at = "start"]]
    /\ run = [r \in Runs |-> IdleRun]
    /\ notice = [at |-> "none", id |-> NoId]
    /\ cleaner = [k \in Cleaners |-> IdleCleaner]
    /\ crashes = 0

-----------------------------------------------------------------------------
(* The question is worked on (Conversation).                               *)

Start ==
    /\ job.status = "pending"
    /\ job' = [job EXCEPT !.status = "running"]
    /\ UNCHANGED <<shown, row, age, processes, crashes>>

Answer ==
    /\ job.status = "running"
    /\ job' = [job EXCEPT !.status = "answered"]
    /\ notice' = [notice EXCEPT !.at = "due"]
    /\ UNCHANGED <<shown, row, age, handler, run, cleaner, crashes>>

-----------------------------------------------------------------------------
(* acknowledge().                                                          *)

MayReserve == job.slot = "new"

Reserve(h) ==
    /\ handler[h].at = "start"
    /\ IF MayReserve
       THEN /\ job' = [job EXCEPT !.slot = "reserved"]
            /\ handler' = [handler EXCEPT ![h].at = "reserved"]
       ELSE /\ handler' = [handler EXCEPT ![h] = IdleHandler]
            /\ UNCHANGED job
    /\ UNCHANGED <<shown, row, age, run, notice, cleaner, crashes>>

Compose(h) ==
    /\ handler[h].at = "reserved"
    /\ handler' = [handler EXCEPT ![h] = [@ EXCEPT !.at = "composed", !.slot = Slot(job.status)]]
    /\ UNCHANGED <<job, shown, row, age, run, notice, cleaner, crashes>>

\* Telegram may refuse, accept, or accept without saying so; then the id is
\* lost with the exception.
SendStatus(h) ==
    /\ handler[h].at = "composed"
    /\ \/ \E i \in Ids :
            /\ shown[i] = "unsent"
            /\ shown' = [shown EXCEPT ![i] = handler[h].slot]
            /\ handler' \in {[handler EXCEPT ![h] = [@ EXCEPT !.at = "sent", !.id = i]],
                             [handler EXCEPT ![h] = IdleHandler]}
       \/ /\ handler' = [handler EXCEPT ![h] = IdleHandler]
          /\ UNCHANGED shown
    /\ UNCHANGED <<job, row, age, run, notice, cleaner, crashes>>

\* The registration and the slot, in one transaction.
RecordStatus(h) ==
    LET i == handler[h].id
    IN  /\ handler[h].at = "sent"
        /\ row' = [row EXCEPT ![i] = IF @ = NoRow THEN NewRow ELSE @]
        /\ job' = [job EXCEPT !.id = i, !.slot = handler[h].slot]
        /\ handler' = [handler EXCEPT ![h] = IdleHandler]
        /\ UNCHANGED <<shown, age, run, notice, cleaner, crashes>>

-----------------------------------------------------------------------------
(* update_chat_progress().                                                 *)

List(r) ==
    /\ run[r].at = "idle"
    /\ job.id # NoId
    /\ job.slot # "done"
    /\ ~job.lease
    /\ run' = [run EXCEPT ![r].at = "listed"]
    /\ UNCHANGED <<job, shown, row, age, handler, notice, cleaner, crashes>>

\* The lease is looked at again, the slot is not.
ClaimJob(r) ==
    /\ run[r].at = "listed"
    /\ IF job.lease
       THEN /\ run' = [run EXCEPT ![r] = IdleRun]
            /\ UNCHANGED job
       ELSE /\ job' = [job EXCEPT !.lease = TRUE]
            /\ run' = [run EXCEPT ![r] = [at |-> "claimed", slot |-> Slot(job.status),
                                          old |-> job.slot, id |-> job.id]]
    /\ UNCHANGED <<shown, row, age, handler, notice, cleaner, crashes>>

\* A message that is gone cannot be edited; an edit may fail for any reason,
\* or be made without the run hearing of it.
Edit(r) ==
    /\ run[r].at = "claimed"
    /\ run' = [run EXCEPT ![r].at = "edited"]
    /\ \/ /\ run[r].slot # run[r].old
          /\ shown[run[r].id] # "gone"
          /\ shown' = [shown EXCEPT ![run[r].id] = run[r].slot]
       \/ UNCHANGED shown
    /\ UNCHANGED <<job, row, age, handler, notice, cleaner, crashes>>

\* Whoever holds the lease by now.
WriteSlot(r) ==
    /\ run[r].at = "edited"
    /\ job' = [job EXCEPT !.slot = run[r].slot, !.lease = TRUE]
    /\ run' = [run EXCEPT ![r] = IdleRun]
    /\ UNCHANGED <<shown, row, age, handler, notice, cleaner, crashes>>

JobLeaseEnds ==
    /\ job.lease
    /\ job' = [job EXCEPT !.lease = FALSE]
    /\ UNCHANGED <<shown, row, age, processes, crashes>>

-----------------------------------------------------------------------------
(* deliver_conversation_notifications(), from where it knows the message.  *)

\* The id is read before the answer is sent and recorded.
SendAnswer ==
    /\ notice.at = "due"
    /\ notice' = [at |-> IF job.id = NoId THEN "over" ELSE "sent", id |-> job.id]
    /\ UNCHANGED <<job, shown, row, age, handler, run, cleaner, crashes>>

DeleteStatus ==
    /\ notice.at = "sent"
    /\ \/ /\ shown[notice.id] # "gone"
          /\ shown' = [shown EXCEPT ![notice.id] = "gone"]
          /\ notice' \in {[notice EXCEPT !.at = "retired"], [notice EXCEPT !.at = "over"]}
       \/ /\ notice' = [notice EXCEPT !.at = "over"]
          /\ UNCHANGED shown
    /\ UNCHANGED <<job, row, age, handler, run, cleaner, crashes>>

MarkDeleted(r) == IF r.status \in {"none", "deleted"} THEN r ELSE [r EXCEPT !.status = "deleted", !.leased = FALSE]

Retire ==
    /\ notice.at = "retired"
    /\ row' = [row EXCEPT ![notice.id] = MarkDeleted(@)]
    /\ job' = IF job.id = notice.id THEN [job EXCEPT !.slot = "done", !.lease = FALSE] ELSE job
    /\ notice' = [notice EXCEPT !.at = "over"]
    /\ UNCHANGED <<shown, age, handler, run, cleaner, crashes>>

-----------------------------------------------------------------------------
(* cleanup_telegram_messages().  The advisory lock ends with the commit of *)
(* the claim, so runs overlap once leases have ended.                      *)

ClaimableIfPending(i) ==
    /\ age[i] > 0
    /\ ~row[i].waits
    /\ row[i].status \in {"pending", "retry"}

Claimable(i) ==
    /\ age[i] > 0
    /\ ~row[i].waits
    /\ \/ row[i].status \in {"pending", "retry"}
       \/ row[i].status = "deleting" /\ ~row[i].leased

Claimed(r) == [r EXCEPT !.status = "deleting", !.leased = TRUE]

ClaimRows(k) ==
    LET due == {i \in Ids : Claimable(i)}
    IN  /\ cleaner[k].at = "idle"
        /\ due # {}
        /\ row' = [i \in Ids |-> IF i \in due THEN Claimed(row[i]) ELSE row[i]]
        /\ cleaner' = [cleaner EXCEPT ![k] =
                        [IdleCleaner EXCEPT !.at = "work",
                                            !.late = {i \in due : age[i] = 2},
                                            !.rows = [i \in Ids |-> IF i \in due THEN row'[i] ELSE NoRow]]]
        /\ UNCHANGED <<job, shown, age, handler, run, notice, crashes>>

Refusal == "failed"

\* Telegram deletes the message (or finds it gone) and its answer may be lost,
\* refuses for good, or fails; past its window it is not asked.
Remove(k, i) ==
    LET ends(outcome) ==
            cleaner' = [cleaner EXCEPT ![k] = [@ EXCEPT !.at = "write", !.id = i, !.outcome = outcome]]
    IN  /\ cleaner[k].at = "work"
        /\ cleaner[k].rows[i] # NoRow
        /\ \/ i \in cleaner[k].late /\ ends("expired") /\ UNCHANGED shown
           \/ /\ i \notin cleaner[k].late
              /\ shown' = [shown EXCEPT ![i] = "gone"]
              /\ ends("deleted") \/ ends("transient")
           \/ /\ i \notin cleaner[k].late
              /\ ends(Refusal) \/ ends("transient")
              /\ UNCHANGED shown
        /\ UNCHANGED <<job, row, age, handler, run, notice, crashes>>

\* What one outcome makes of the run's copy.
Settled(copy, outcome) ==
    IF outcome # "transient" THEN [copy EXCEPT !.status = outcome, !.leased = FALSE]
    ELSE IF copy.attempts + 1 >= MaxAttempts
         THEN [copy EXCEPT !.status = "failed", !.leased = FALSE, !.attempts = @ + 1]
         ELSE [copy EXCEPT !.status = "retry", !.leased = FALSE, !.attempts = @ + 1, !.waits = TRUE]

\* The columns that differ from the copy are written, whatever the row is by
\* now; only a retry writes when to try again.
WriteRow(k) ==
    LET i == cleaner[k].id
        new == Settled(cleaner[k].rows[i], cleaner[k].outcome)
        left == [cleaner[k].rows EXCEPT ![i] = NoRow]
    IN  /\ cleaner[k].at = "write"
        /\ row' = [row EXCEPT ![i] =
                    [new EXCEPT !.attempts = IF cleaner[k].outcome = "transient" THEN @ ELSE row[i].attempts,
                                !.waits = new.waits \/ row[i].waits]]
        /\ cleaner' = [cleaner EXCEPT ![k] =
                        IF left = IdleCleaner.rows THEN IdleCleaner
                        ELSE [@ EXCEPT !.at = "work", !.rows = left]]
        /\ UNCHANGED <<job, shown, age, handler, run, notice, crashes>>

RowLeaseEnds(i) ==
    /\ row[i].leased
    /\ row' = [row EXCEPT ![i].leased = FALSE]
    /\ UNCHANGED <<job, shown, age, processes, crashes>>

RetryTimeComes(i) ==
    /\ row[i].waits
    /\ row' = [row EXCEPT ![i].waits = FALSE]
    /\ UNCHANGED <<job, shown, age, processes, crashes>>

Older(i) ==
    /\ shown[i] # "unsent"
    /\ age[i] < 2
    /\ age' = [age EXCEPT ![i] = @ + 1]
    /\ UNCHANGED <<job, shown, row, processes, crashes>>

-----------------------------------------------------------------------------
Crash ==
    /\ crashes < MaxCrashes
    /\ crashes' = crashes + 1
    /\ \/ \E h \in Handlers :
            /\ handler[h].at \notin {"start", "idle"}
            /\ handler' = [handler EXCEPT ![h] = IdleHandler]
            /\ UNCHANGED <<run, notice, cleaner>>
       \/ \E r \in Runs :
            /\ run[r].at # "idle"
            /\ run' = [run EXCEPT ![r] = IdleRun]
            /\ UNCHANGED <<handler, notice, cleaner>>
       \/ /\ notice.at \in {"sent", "retired"}
          /\ notice' = [notice EXCEPT !.at = "over"]
          /\ UNCHANGED <<handler, run, cleaner>>
       \/ \E k \in Cleaners :
            /\ cleaner[k].at # "idle"
            /\ cleaner' = [cleaner EXCEPT ![k] = IdleCleaner]
            /\ UNCHANGED <<handler, run, notice>>
    /\ UNCHANGED <<job, shown, row, age>>

Acknowledge(h) == Reserve(h) \/ Compose(h) \/ SendStatus(h) \/ RecordStatus(h)
Update(r) == List(r) \/ ClaimJob(r) \/ Edit(r) \/ WriteSlot(r)
Deliver == SendAnswer \/ DeleteStatus \/ Retire
Cleanup(k) ==
    \/ ClaimRows(k)
    \/ \E i \in Ids : Remove(k, i)
    \/ WriteRow(k)

Time == JobLeaseEnds \/ \E i \in Ids : RowLeaseEnds(i) \/ RetryTimeComes(i) \/ Older(i)

Next ==
    \/ Start
    \/ Answer
    \/ \E h \in Handlers : Acknowledge(h)
    \/ \E r \in Runs : Update(r)
    \/ Deliver
    \/ \E k \in Cleaners : Cleanup(k)
    \/ Time
    \/ Crash

Spec == Init /\ [][Next]_vars

\* The crons come again and again, and time passes.
Fairness ==
    /\ \A h \in Handlers : WF_vars(Acknowledge(h))
    /\ \A r \in Runs : WF_vars(Update(r))
    /\ WF_vars(Deliver)
    /\ \A k \in Cleaners : WF_vars(Cleanup(k))
    /\ WF_vars(JobLeaseEnds)
    /\ \A i \in Ids : WF_vars(RowLeaseEnds(i)) /\ WF_vars(RetryTimeComes(i)) /\ WF_vars(Older(i))

FairSpec == Spec /\ Fairness

-----------------------------------------------------------------------------
Slots == {"new", "reserved", "queued", "running", "done"}
Rows == [status : {"none", "pending", "retry", "deleting"} \cup Terminal, attempts : 0 .. MaxAttempts,
         leased : BOOLEAN, waits : BOOLEAN]

TypeOK ==
    /\ job \in [status : {"pending", "running", "answered"}, slot : Slots, lease : BOOLEAN, id : Ids \cup {NoId}]
    /\ shown \in [Ids -> Slots \cup {"unsent", "gone"}]
    /\ row \in [Ids -> Rows]
    /\ age \in [Ids -> 0 .. 2]
    /\ handler \in [Handlers -> [at : {"idle", "start", "reserved", "composed", "sent"}, slot : Slots,
                                 id : Ids \cup {NoId}]]
    /\ run \in [Runs -> [at : {"idle", "listed", "claimed", "edited"}, slot : Slots, old : Slots,
                         id : Ids \cup {NoId}]]
    /\ notice \in [at : {"none", "due", "sent", "retired", "over"}, id : Ids \cup {NoId}]
    /\ \A k \in Cleaners :
        /\ cleaner[k].at \in {"idle", "work", "write"}
        /\ cleaner[k].rows \in [Ids -> Rows]
    /\ crashes \in 0 .. MaxCrashes

\* Every registered message settles for good: overlapping and dying runs,
\* lost answers and late writes do not keep a row in the queue.
RegisteredMessagesSettle == \A i \in Ids : <>[](row[i].status \in Terminal \cup {"none"})
=============================================================================
