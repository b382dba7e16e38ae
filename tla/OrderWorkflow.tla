--------------------------- MODULE OrderWorkflow ---------------------------
(***************************************************************************)
(* The life of one order after checkout: app/services/order_workflow.py    *)
(* and the screens and buttons that call it.  Every call locks the order   *)
(* row for the whole transaction, so a call is one step here; what makes   *)
(* it interesting is that its inputs are old.  An admin acts on a page or  *)
(* a Telegram button rendered earlier (page), the transaction of the       *)
(* request starts (and fixes created_at, the database's now()) before the  *)
(* lock is granted, and other admins commit in between.                    *)
(*                                                                         *)
(*   routers/manage.py, bot/handlers/admin.py   act on a rendered page     *)
(*   routers/shop.py                            re-reads the revision      *)
(*                                                                         *)
(* Rows of other orders are untouched, so one order is modelled.           *)
(***************************************************************************)
EXTENDS Naturals, Sequences, FiniteSets

CONSTANTS
  Admins,        \* signed-in admins, also the recipients of new-order messages
  Contacts,      \* a courier's name and phone, both present
  NoContact,     \* the name or the phone is missing
  MaxRevision,   \* bound: edits of the order
  MaxRetries,    \* bound: manual retries of a failed notification
  MaxClock       \* bound: request transactions that are ever started

ASSUME WorkflowAssumption ==
  /\ NoContact \notin Contacts
  /\ MaxRevision \in Nat
  /\ MaxRetries \in Nat
  /\ MaxClock \in Nat

Statuses == {"new", "confirmed", "collecting", "in_transit", "fulfilled", "cancelled"}
ActiveTransitions ==
  [new        |-> {"confirmed", "cancelled"},
   confirmed  |-> {"collecting", "cancelled"},
   collecting |-> {"in_transit", "cancelled"},
   in_transit |-> {"fulfilled", "cancelled"},
   fulfilled  |-> {},
   cancelled  |-> {}]
Final == {"fulfilled", "cancelled"}
Departed == {"in_transit", "fulfilled"}

NoPage == [revision |-> 0, status |-> "none"]
Pages == [revision : 0 .. MaxRevision, status : Statuses \cup {"none"}]
NoTx == [began |-> 0, route |-> "none", seen |-> NoPage]
Routes == {"none", "page", "shop", "reread"}

StatusKinds == {"order_created", "status_changed", "status_corrected"}
EventKinds == StatusKinds \cup
  {"courier_updated", "courier_contact_updated", "delivery_note_updated",
   "notification_retry"}
Events ==
  [kind : EventKinds, from : Statuses \cup {"none"}, to : Statuses,
   public : BOOLEAN,            \* details.public_reason is set
   created : 0 .. MaxClock, route : Routes]
NoticeKinds == {"order_ack", "status", "correction", "departure", "courier_contact"}
Notices ==
  [event : 1 .. (MaxRevision + MaxRetries + 1), kind : NoticeKinds,
   contact : Contacts \cup {NoContact}]

VARIABLES
  status,        \* orders.status, "none" until checkout has committed
  revision,      \* orders.workflow_revision
  courier,       \* courier_name and courier_phone
  cancelReason,  \* cancel_reason: "none", "public" or "private" text
  part,          \* order_shop_parts.status and shop_response of the house part
  events,        \* order_events, in primary key order
  notices,       \* the order_notifications addressed to the customer
  reachable,     \* _eligible_customer: known to Telegram, not blocked, not test
  page,          \* what each admin's page or button was rendered from
  tx,            \* the request transaction each admin has open
  clock          \* the number of transactions started so far

order == <<status, revision, courier, cancelReason, part>>
vars == <<order, events, notices, reachable, page, tx, clock>>

TypeOK ==
  /\ status \in Statuses \cup {"none"}
  /\ revision \in 0 .. MaxRevision
  /\ courier \in Contacts \cup {NoContact}
  /\ cancelReason \in {"none", "public", "private"}
  /\ part \in [status : {"new", "pending", "accepted", "rejected"},
               response : {"pending", "accepted", "rejected"}]
  /\ events \in Seq(Events)
  /\ notices \in Seq(Notices)
  /\ reachable \in BOOLEAN
  /\ page \in [Admins -> Pages]
  /\ tx \in [Admins -> [began : 0 .. MaxClock, route : Routes, seen : Pages]]
  /\ clock \in 0 .. MaxClock

Init ==
  /\ status = "none" /\ revision = 0 /\ courier = NoContact
  /\ cancelReason = "none"
  /\ part = [status |-> "new", response |-> "pending"]
  /\ events = <<>> /\ notices = <<>>
  /\ reachable \in BOOLEAN
  /\ page = [a \in Admins |-> NoPage]
  /\ tx = [a \in Admins |-> NoTx]
  /\ clock = 0

-----------------------------------------------------------------------------
(* create_event, called once in the transaction that places the order.  A   *)
(* repeated call finds the order_created event and changes nothing.         *)
Place(source) ==
  /\ status = "none"
  /\ status' = "new"
  /\ events' = <<[kind |-> "order_created", from |-> "none", to |-> "new",
                  public |-> FALSE, created |-> clock, route |-> "none"]>>
  /\ notices' = IF source = "web" /\ reachable
                  THEN <<[event |-> 1, kind |-> "order_ack", contact |-> NoContact]>>
                  ELSE <<>>
  /\ UNCHANGED <<revision, courier, cancelReason, part, reachable, page, tx, clock>>

\* The order page, the decision keyboard, or its refresh after a cancel tap.
OpenPage(a) ==
  /\ status # "none"
  /\ page' = [page EXCEPT ![a] = [revision |-> revision, status |-> status]]
  /\ UNCHANGED <<order, events, notices, reachable, tx, clock>>

\* A request arrives: loading the user starts the transaction.  A page route
\* carries the revision it was rendered from, the shop route carries none.
Begin(a, route) ==
  /\ tx[a] = NoTx /\ clock < MaxClock
  /\ route \in {"page", "shop"}
  /\ route = "page" => page[a] # NoPage
  /\ status # "none"
  /\ clock' = clock + 1
  /\ tx' = [tx EXCEPT ![a] =
       [began |-> clock + 1, route |-> route,
        seen |-> IF route = "page" THEN page[a] ELSE NoPage]]
  /\ UNCHANGED <<order, events, notices, reachable, page>>

\* respond_to_order reads the part with its order, and expects "new".
Reread(a) ==
  /\ tx[a].route = "shop"
  /\ tx' = [tx EXCEPT ![a].route = "reread",
                      ![a].seen = [revision |-> revision, status |-> "new"]]
  /\ UNCHANGED <<order, events, notices, reachable, page, clock>>

\* A WorkflowError, a form that changes nothing, or a lost connection: rollback.
Abandon(a) ==
  /\ tx[a] # NoTx
  /\ tx' = [tx EXCEPT ![a] = NoTx]
  /\ UNCHANGED <<order, events, notices, reachable, page, clock>>

-----------------------------------------------------------------------------
\* Mutant of MayEdit: the revision of the form is not compared.
MayEditIgnoringRevision(a) ==
  /\ tx[a].route \in {"page", "reread"}
  /\ revision < MaxRevision

\* _lock_order, _check_revision.
MayEdit(a) ==
  /\ tx[a].route \in {"page", "reread"}
  /\ tx[a].seen.revision = revision
  /\ revision < MaxRevision

\* Mutant of Record: from_status is read after the assignment of the target.
RecordAfterAssignment(a, kind, to, public) ==
  events' = Append(events,
    [kind |-> kind, from |-> to, to |-> to, public |-> public,
     created |-> tx[a].began, route |-> tx[a].route])

Record(a, kind, to, public) ==
  events' = Append(events,
    [kind |-> kind, from |-> status, to |-> to, public |-> public,
     created |-> tx[a].began, route |-> tx[a].route])

\* The row is flushed after its event and carries the event's id.
Notify(kind, contact) ==
  notices' = IF reachable
    THEN Append(notices, [event |-> Len(events) + 1, kind |-> kind, contact |-> contact])
    ELSE notices

Commit(a) ==
  /\ revision' = revision + 1
  /\ tx' = [tx EXCEPT ![a] = NoTx]
  /\ UNCHANGED <<reachable, page, clock>>

\* The checks of change_status once the form is known to be current.
Allowed(target, correction, reason) ==
  /\ correction \/ target = "cancelled" => reason
  /\ correction \/ target \in ActiveTransitions[status]
  /\ target \in Departed => courier # NoContact

\* _sync_house_parts.
PartFor(target) ==
  LET r == CASE target = "new" -> "pending"
             [] target = "cancelled" -> "rejected"
             [] OTHER -> "accepted"
  IN  [status |-> r, response |-> r]

ReasonFor(target, correction) ==
  IF target = "cancelled" /\ ~correction THEN "public" ELSE "none"

NoticeFor(target, correction) ==
  IF correction THEN "correction"
  ELSE IF target = "in_transit" THEN "departure" ELSE "status"

\* The courier a message names: only a departure does.
ContactFor(target, correction) ==
  IF target = "in_transit" /\ ~correction THEN courier ELSE NoContact

ChangeStatus(a, target, correction, reason) ==
  /\ MayEdit(a)
  /\ tx[a].seen.status = status
  /\ target # status
  /\ tx[a].route = "reread" => target \in {"confirmed", "cancelled"} /\ ~correction
  /\ Allowed(target, correction, reason)
  /\ status' = target
  /\ cancelReason' = ReasonFor(target, correction)
  /\ part' = PartFor(target)
  /\ Record(a, IF correction THEN "status_corrected" ELSE "status_changed",
            target, target = "cancelled" /\ ~correction)
  /\ Notify(NoticeFor(target, correction), ContactFor(target, correction))
  /\ Commit(a)
  /\ UNCHANGED courier

KeepsCourier(contact) == status \in Departed => contact # NoContact

\* Mutant of ContactChanged: a changed contact is announced only at departure.
ContactNeverChanged(contact) == FALSE

ContactChanged(contact) == contact # courier /\ status = "in_transit"

\* update_courier; the vehicle or the cost may change with the contact kept.
UpdateCourier(a, contact) ==
  /\ MayEdit(a)
  /\ tx[a].route = "page"
  /\ KeepsCourier(contact)
  /\ courier' = contact
  /\ IF ContactChanged(contact)
       THEN /\ Record(a, "courier_contact_updated", status, FALSE)
            /\ Notify("courier_contact", contact)
       ELSE /\ Record(a, "courier_updated", status, FALSE)
            /\ UNCHANGED notices
  /\ Commit(a)
  /\ UNCHANGED <<status, cancelReason, part>>

UpdateNote(a) ==
  /\ MayEdit(a)
  /\ tx[a].route = "page"
  /\ Record(a, "delivery_note_updated", status, FALSE)
  /\ Commit(a)
  /\ UNCHANGED <<status, courier, cancelReason, part, notices>>

\* retry_notification: which message has failed is the outbox's business
\* (OrderOutbox!ManualRetry); on the order it only leaves an event, at the
\* revision it found, and it compares no revision.
RetryNotification(a) ==
  /\ tx[a].route = "page"
  /\ Len(events) - revision <= MaxRetries
  /\ Record(a, "notification_retry", status, FALSE)
  /\ tx' = [tx EXCEPT ![a] = NoTx]
  /\ UNCHANGED <<order, notices, reachable, page, clock>>

\* The customer blocks the bot or is blocked, and comes back.
Reach ==
  /\ reachable' = ~reachable
  /\ UNCHANGED <<order, events, notices, page, tx, clock>>

Edit(a) ==
  \/ \E target \in Statuses, correction, reason \in BOOLEAN :
       ChangeStatus(a, target, correction, reason)
  \/ \E contact \in Contacts \cup {NoContact} : UpdateCourier(a, contact)
  \/ UpdateNote(a)
  \/ RetryNotification(a)

Next ==
  \/ \E source \in {"web", "bot"} : Place(source)
  \/ \E a \in Admins :
       \/ OpenPage(a) \/ Reread(a) \/ Abandon(a) \/ Edit(a)
       \/ \E route \in {"page", "shop"} : Begin(a, route)
  \/ Reach

Spec == Init /\ [][Next]_vars

-----------------------------------------------------------------------------
(* What the house part tells the shop never drifts from the order.          *)
PartMirrorsOrder ==
  CASE status \in {"none", "new"} -> part.response = "pending"
    [] status = "cancelled" -> part = [status |-> "rejected", response |-> "rejected"]
    [] OTHER -> part = [status |-> "accepted", response |-> "accepted"]

(* An order on the road or delivered has a courier, through any mix of      *)
(* corrections and courier edits by several admins.                         *)
DepartedHasCourier == status \in Departed => courier # NoContact

IsStatusEvent(k) == events[k].kind \in StatusKinds
LastStatusEvent(k) ==
  /\ k \in DOMAIN events /\ IsStatusEvent(k)
  /\ \A j \in DOMAIN events : j > k => ~IsStatusEvent(j)

IsEdit(k) == events[k].kind # "notification_retry"

(* The audit trail is complete: every revision has one event, each event    *)
(* starts where the one before it ended, and the last one ends at the       *)
(* status of the order, whatever edits and retries are interleaved.         *)
AuditTrail ==
  status # "none" =>
    /\ Cardinality({k \in DOMAIN events : IsEdit(k)}) = revision + 1
    /\ events[1].kind = "order_created"
    /\ \A k \in 2 .. Len(events) : events[k].from = events[k - 1].to
    /\ events[Len(events)].to = status

(* The cancel reason the customer's pages show belongs to the cancellation  *)
(* in force; the private explanation of a correction never takes its place. *)
CancelReasonIsCurrent ==
  \A k \in DOMAIN events :
    LastStatusEvent(k) =>
      cancelReason = IF events[k].public THEN "public" ELSE "none"

(* An admin who worked from a rendered page never has the edit dated before *)
(* an edit it was based on, so the customer's timeline, which sorts by      *)
(* created_at, shows the two in the order they happened.                    *)
PageEditsDatedInOrder ==
  \A j, k \in DOMAIN events :
    j < k /\ IsEdit(j) /\ IsEdit(k) /\ events[k].route = "page" =>
      events[j].created <= events[k].created

(* Telling the customer the courier: while an order that left by the normal *)
(* route is on the road, the latest event that names a courier is the last  *)
(* change of the contact, so the message sent for it, if the customer could *)
(* be reached at that moment, names the courier who has the order now.      *)
NamesCourier(k) ==
  \/ events[k].kind = "courier_contact_updated"
  \/ events[k].kind = "status_changed" /\ events[k].to = "in_transit"
CustomerKnowsCourier ==
  \A k \in DOMAIN events, n \in DOMAIN notices :
    /\ status = "in_transit"
    /\ NamesCourier(k) /\ \A j \in DOMAIN events : j > k => ~NamesCourier(j)
    /\ \A j \in DOMAIN events : j > k => events[j].kind # "status_corrected"
    /\ notices[n].event = k
    => notices[n].contact = courier

(* Only a recorded correction takes an order out of a final status.         *)
FinalUnlessCorrected ==
  [][(status \in Final /\ status' # status) =>
       /\ Len(events') = Len(events) + 1
       /\ events'[Len(events')].kind = "status_corrected"]_vars
=============================================================================
