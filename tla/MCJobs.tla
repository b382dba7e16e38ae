------------------------------- MODULE MCJobs -------------------------------
(***************************************************************************)
(* The worker's jobs that share nothing: each behaviour runs one of them,  *)
(* and the others stay as they were initially.                             *)
(***************************************************************************)
EXTENDS StatusMessages, Reminders, TokenBudget

CONSTANTS
    Offers, AgingDays, StaleDays, MaxAge,
    Containers, Public, MaxStarts, MaxStrays

VARIABLES
    alive,
    state, updated, marking,
    url, container, counts

ageVars == <<state, updated, marking>>
webhookVars == <<url, container, counts>>
jobVars == <<alive, vars, ageVars, remindVars, tokenVars, webhookVars>>

Age == INSTANCE PriceAging WITH job <- marking
Webhook == INSTANCE WebhookGuard

Jobs == {"status", "age", "remind", "token", "webhook"}

JobsInit ==
    /\ alive \in Jobs
    /\ Init
    /\ Age!Init
    /\ RemindInit
    /\ TokenInit
    /\ Webhook!Init

JobsNext ==
    /\ UNCHANGED alive
    /\ \/ /\ alive = "status"
          /\ Next
          /\ UNCHANGED <<ageVars, remindVars, tokenVars, webhookVars>>
       \/ /\ alive = "age"
          /\ Age!Next
          /\ UNCHANGED <<vars, remindVars, tokenVars, webhookVars>>
       \/ /\ alive = "remind"
          /\ RemindNext
          /\ UNCHANGED <<vars, ageVars, tokenVars, webhookVars>>
       \/ /\ alive = "token"
          /\ TokenNext
          /\ UNCHANGED <<vars, ageVars, remindVars, webhookVars>>
       \/ /\ alive = "webhook"
          /\ Webhook!Next
          /\ UNCHANGED <<vars, ageVars, remindVars, tokenVars>>

\* Each job's fairness, as its module states it, while it is the one alive.
JobsFairness ==
    /\ \A h \in Handlers : WF_vars(alive = "status" /\ Acknowledge(h))
    /\ \A r \in Runs : WF_vars(alive = "status" /\ Update(r))
    /\ WF_vars(alive = "status" /\ Deliver)
    /\ \A k \in Cleaners : WF_vars(alive = "status" /\ Cleanup(k))
    /\ WF_vars(alive = "status" /\ JobLeaseEnds)
    /\ \A i \in Ids :
        /\ WF_vars(alive = "status" /\ RowLeaseEnds(i))
        /\ WF_vars(alive = "status" /\ RetryTimeComes(i))
        /\ WF_vars(alive = "status" /\ Older(i))
    /\ WF_ageVars(alive = "age" /\ Age!ReadOffers)
    /\ SF_ageVars(alive = "age" /\ Age!MarkOffers)
    /\ SF_ageVars(alive = "age" /\ Age!Day)
    /\ \A c \in Containers :
        /\ WF_webhookVars(alive = "webhook" /\ Webhook!Start(c) /\ \A d \in Public : container[d] = "down")
        /\ WF_webhookVars(alive = "webhook" /\ Webhook!Register(c))
        /\ WF_webhookVars(alive = "webhook" /\ Webhook!Look(c))
        /\ WF_webhookVars(alive = "webhook" /\ Webhook!Repair(c))

JobsSpec == JobsInit /\ [][JobsNext]_jobVars /\ JobsFairness

-----------------------------------------------------------------------------
\* A registered status message is deleted in the end, or given up.
StatusMessagesSettle == alive = "status" => RegisteredMessagesSettle

\* An offer nobody touches is taken out of the quotes.
UntouchedOffersGoStale == alive = "age" => Age!UntouchedOffersGoStale

\* Whoever took the webhook away, it comes back to this deployment.
WebhookComesBack == alive = "webhook" => Webhook!WebhookComesBack
=============================================================================
