------------------------------ MODULE Reminders ------------------------------
(***************************************************************************)
(* Reminding the administrators of an order nobody has confirmed           *)
(* (remind_unconfirmed_orders of app/workers/tasks.py): every five minutes *)
(* a run lists the orders that are still new, tells every administrator of *)
(* each that no committed event names yet, and commits its events at the   *)
(* end.  Telegram cannot take back what a lost run has sent.               *)
(***************************************************************************)
EXTENDS Naturals, FiniteSets

CONSTANTS
    Schedulers,  \* worker processes that the cron fires in
    Orders,
    Admins,      \* administrators of settings.admin_tg_ids who are no test accounts
    MaxErrors,   \* bound: messages that the worker hears were not sent
    MaxDeaths    \* bound: runs that die

\* A run is at an order, or at one of two points that are none.
ASSUME RemindersAssumption == {"idle", "next"} \cap Orders = {}

VARIABLES
    order,    \* "young", "due" (new for order_confirm_reminder_minutes) or "handled"
    blocked,  \* administrators whose account is blocked by now
    reminded, \* orders named by a committed event
    lock,     \* workers that hold the job's advisory lock
    worker,   \* each run: the orders it listed and has not reached, the
              \* administrators left to tell of the order at hand, its events
    told,     \* how often each administrator was told of each order
    errors,
    deaths

remindVars == <<order, blocked, reminded, lock, worker, told, errors, deaths>>

Idle == [at |-> "idle", list |-> {}, left |-> {}, heard |-> FALSE, events |-> {}]

RemindInit ==
    /\ order = [o \in Orders |-> "young"]
    /\ blocked = {}
    /\ reminded = {}
    /\ lock = {}
    /\ worker = [w \in Schedulers |-> Idle]
    /\ told = [o \in Orders |-> [a \in Admins |-> 0]]
    /\ errors = 0
    /\ deaths = 0

-----------------------------------------------------------------------------
\* pg_try_advisory_xact_lock: held until the run commits or its connection is gone.
LockIgnored == TRUE
LockFree == lock = {}

ToRemind == {o \in Orders : order[o] = "due"} \ reminded

StartRun(w) ==
    /\ worker[w].at = "idle"
    /\ LockFree
    /\ ToRemind # {}
    /\ lock' = lock \cup {w}
    /\ worker' = [worker EXCEPT ![w] = [Idle EXCEPT !.at = "next", !.list = ToRemind]]
    /\ UNCHANGED <<order, blocked, reminded, told, errors, deaths>>

\* The order is told of as it was listed, whatever happened to it since.
TakeOrder(w) ==
    /\ worker[w].at = "next"
    /\ \E o \in worker[w].list :
        worker' = [worker EXCEPT ![w] = [@ EXCEPT !.at = o, !.left = Admins, !.heard = FALSE]]
    /\ UNCHANGED <<order, blocked, reminded, lock, told, errors, deaths>>

\* A blocked account is passed over.  An error is logged and the next one told;
\* Telegram may have delivered the message all the same.
Tell(w) ==
    LET o == worker[w].at
        passes(a) == worker' = [worker EXCEPT ![w].left = @ \ {a}]
    IN  /\ o \in Orders
        /\ \E a \in worker[w].left :
            \/ /\ a \in blocked
               /\ passes(a)
               /\ UNCHANGED <<told, errors>>
            \/ /\ a \notin blocked
               /\ told' = [told EXCEPT ![o][a] = @ + 1]
               /\ worker' = [worker EXCEPT ![w].left = @ \ {a}, ![w].heard = TRUE]
               /\ UNCHANGED errors
            \/ /\ a \notin blocked
               /\ errors < MaxErrors
               /\ errors' = errors + 1
               /\ passes(a)
               /\ told' \in {told, [told EXCEPT ![o][a] = @ + 1]}
        /\ UNCHANGED <<order, blocked, reminded, lock, deaths>>

Heard(w) == IF worker[w].heard THEN {worker[w].at} ELSE {}

LogEvent(w) ==
    /\ worker[w].at \in Orders
    /\ worker[w].left = {}
    /\ worker' = [worker EXCEPT ![w].at = "next", ![w].list = @ \ {worker[w].at},
                                ![w].events = @ \cup Heard(w)]
    /\ UNCHANGED <<order, blocked, reminded, lock, told, errors, deaths>>

Commit(w) ==
    /\ worker[w].at = "next"
    /\ worker[w].list = {}
    /\ reminded' = reminded \cup worker[w].events
    /\ lock' = lock \ {w}
    /\ worker' = [worker EXCEPT ![w] = Idle]
    /\ UNCHANGED <<order, blocked, told, errors, deaths>>

RunDies(w) ==
    /\ deaths < MaxDeaths
    /\ worker[w].at # "idle"
    /\ deaths' = deaths + 1
    /\ lock' = lock \ {w}
    /\ worker' = [worker EXCEPT ![w] = Idle]
    /\ UNCHANGED <<order, blocked, reminded, told, errors>>

-----------------------------------------------------------------------------
BecomesDue(o) ==
    /\ order[o] = "young"
    /\ order' = [order EXCEPT ![o] = "due"]
    /\ UNCHANGED <<blocked, reminded, lock, worker, told, errors, deaths>>

Handle(o) ==
    /\ order[o] # "handled"
    /\ order' = [order EXCEPT ![o] = "handled"]
    /\ UNCHANGED <<blocked, reminded, lock, worker, told, errors, deaths>>

\* One administrator is left who may be told.
Block(a) ==
    /\ Cardinality(Admins \ (blocked \cup {a})) > 0
    /\ blocked' = blocked \cup {a}
    /\ UNCHANGED <<order, reminded, lock, worker, told, errors, deaths>>

Run(w) == StartRun(w) \/ TakeOrder(w) \/ Tell(w) \/ LogEvent(w) \/ Commit(w)

RemindNext ==
    \/ \E w \in Schedulers : Run(w) \/ RunDies(w)
    \/ \E o \in Orders : BecomesDue(o) \/ Handle(o)
    \/ \E a \in Admins : Block(a)

RemindSpec == RemindInit /\ [][RemindNext]_remindVars

-----------------------------------------------------------------------------
RemindTypeOK ==
    /\ order \in [Orders -> {"young", "due", "handled"}]
    /\ blocked \subseteq Admins
    /\ reminded \subseteq Orders
    /\ lock \subseteq Schedulers
    /\ worker \in [Schedulers -> [at : {"idle", "next"} \cup Orders, list : SUBSET Orders,
                               left : SUBSET Admins, heard : BOOLEAN, events : SUBSET Orders]]
    /\ told \in [Orders -> [Admins -> Nat]]
    /\ errors \in 0 .. MaxErrors
    /\ deaths \in 0 .. MaxDeaths

\* "Once per order, not once per run", as far as sending before the commit
\* allows: an administrator is told of an order again only for a run that died
\* or a message that did not seem to arrive.
RepeatsCostAFailure == \A o \in Orders : \A a \in Admins : told[o][a] <= 1 + deaths + errors

=============================================================================
