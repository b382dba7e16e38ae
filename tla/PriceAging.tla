----------------------------- MODULE PriceAging -----------------------------
(***************************************************************************)
(* How old prices leave the quotes: the hourly job of                      *)
(* app/workers/tasks.py marks offers by the age of updated_at, and         *)
(* everything that writes the row moves updated_at (TimestampMixin of      *)
(* db/base.py), the job's own update included.                             *)
(*                                                                         *)
(* Ages are in whole days: an age of n means more than n days.             *)
(***************************************************************************)
EXTENDS Naturals

CONSTANTS
    Offers,     \* active offers of one product
    AgingDays,  \* settings.price_staleness_aging_days
    StaleDays,  \* settings.price_staleness_stale_days
    MaxAge      \* bound: days are not counted beyond

VARIABLES
    state,   \* shop_products.staleness_state
    updated, \* days since updated_at
    job      \* the run of mark_price_staleness: the two lists of ids it read

vars == <<state, updated, job>>

Idle == [at |-> "idle", aging |-> {}, stale |-> {}]

Init ==
    /\ state = [o \in Offers |-> "fresh"]
    /\ updated = [o \in Offers |-> 0]
    /\ job = Idle

-----------------------------------------------------------------------------
Aging == {o \in Offers : updated[o] >= AgingDays /\ updated[o] < StaleDays /\ state[o] # "aging"}
StaleWhenAging == {o \in Offers : updated[o] >= StaleDays /\ state[o] = "aging"}
Stale == {o \in Offers : updated[o] >= StaleDays /\ state[o] # "stale"}

\* The advisory lock is the transaction's, so one run reads and writes at a time.
ReadOffers ==
    /\ job.at = "idle"
    /\ job' = [at |-> "read", aging |-> Aging, stale |-> Stale]
    /\ UNCHANGED <<state, updated>>

\* Both updates name ids only: what happened to the rows since is overwritten,
\* and onupdate moves updated_at of every row they name.
MarkOffers ==
    LET marked == job.aging \cup job.stale
    IN  /\ job.at = "read"
        /\ state' = [o \in Offers |-> IF o \in job.stale THEN "stale"
                                      ELSE IF o \in job.aging THEN "aging" ELSE state[o]]
        /\ updated' = [o \in Offers |-> IF o \in marked THEN 0 ELSE updated[o]]
        /\ job' = Idle

\* The worker stops: the transaction and its lock are gone.
StopJob ==
    /\ job.at = "read"
    /\ job' = Idle
    /\ UNCHANGED <<state, updated>>

\* set_offer_price with other values, and every other way to set a price.
SavePrice(o) ==
    /\ state' = [state EXCEPT ![o] = "fresh"]
    /\ updated' = [updated EXCEPT ![o] = 0]
    /\ UNCHANGED job

\* Stock, name, photo: any other column of the row.  A price saved unchanged
\* returns before it writes.
EditOffer(o) ==
    /\ updated' = [updated EXCEPT ![o] = 0]
    /\ UNCHANGED <<state, job>>

Older(age) == IF age < MaxAge THEN age + 1 ELSE age

Day ==
    /\ job.at = "idle"
    /\ updated' = [o \in Offers |-> Older(updated[o])]
    /\ UNCHANGED <<state, job>>

Next ==
    \/ ReadOffers
    \/ MarkOffers
    \/ StopJob
    \/ \E o \in Offers : SavePrice(o) \/ EditOffer(o)
    \/ Day

Spec == Init /\ [][Next]_vars

\* The cron runs every hour, and not every run dies.
Fairness == WF_vars(ReadOffers) /\ SF_vars(MarkOffers) /\ SF_vars(Day)

-----------------------------------------------------------------------------
TypeOK ==
    /\ state \in [Offers -> {"fresh", "aging", "stale"}]
    /\ updated \in [Offers -> 0 .. MaxAge]
    /\ job \in [at : {"idle", "read"}, aging : SUBSET Offers, stale : SUBSET Offers]

\* An offer that nobody touches leaves the quotes again and again, however the
\* job's own writes count as touching it.
UntouchedOffersGoStale ==
    \A o \in Offers : <>[][~SavePrice(o) /\ ~EditOffer(o)]_vars => []<>(state[o] = "stale")
=============================================================================
