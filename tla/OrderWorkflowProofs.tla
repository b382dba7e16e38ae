------------------------ MODULE OrderWorkflowProofs ------------------------
(***************************************************************************)
(* Proofs about orders and the dialogues of the bot that lead to them, for *)
(* any number of admins, couriers, edits, retries and requests, of         *)
(* products, lines and phrases, places and addresses, buttons and keys.    *)
(*                                                                         *)
(* OrderWorkflow: the audit trail, the dates and the courier's messages    *)
(* are about the list of events, to which a step appends at most one.      *)
(* What they need besides themselves is what an open request knows: it saw *)
(* no revision that is not there yet, and one that came from a page and is *)
(* still current began after every edit so far (CurrentPagesAreLate).      *)
(*                                                                         *)
(* The dialogues: what the dialogue holds is what its customer was shown,  *)
(* or the dialogue knows that it is not (BasketInv, ConfirmationIsShown),  *)
(* and a cart that was ordered is empty (OrderedCartIsEmpty).              *)
(***************************************************************************)
EXTENDS OrderWorkflow, BasketDialogue, CheckoutDialogue, EnquiryDialogue,
        FiniteSetTheorems, NaturalsInduction, WellFoundedInduction, TLAPS

\* Before checkout there is nothing to edit and nobody who could.
Unplaced ==
  status = "none" =>
    /\ events = <<>> /\ notices = <<>> /\ revision = 0
    /\ cancelReason = "none" /\ courier = NoContact
    /\ \A a \in Admins : tx[a] = NoTx

\* Every event but the edits is a retry.
EventsCounted == Len(events) <= revision + MaxRetries + 1

\* No request began in the future.
RequestsBegun == \A a \in Admins : tx[a].began <= clock

\* Nobody has seen a revision of the future and no event is dated in it.
NothingAhead ==
  /\ \A k \in DOMAIN events : events[k].created <= clock
  /\ \A a \in Admins :
       /\ page[a].revision <= revision
       /\ tx[a].seen.revision <= revision

\* A request that carries the current revision from a page began after every edit.
CurrentPagesAreLate ==
  \A a \in Admins :
    tx[a].route = "page" /\ tx[a].seen.revision = revision =>
      \A j \in DOMAIN events : IsEdit(j) => events[j].created <= tx[a].began

\* A notice is about an event that is there.
NoticesHaveEvents == \A n \in DOMAIN notices : notices[n].event \in DOMAIN events

\* The inductive invariant.
IInv ==
  /\ TypeOK
  /\ Unplaced
  /\ EventsCounted
  /\ RequestsBegun
  /\ NothingAhead
  /\ CurrentPagesAreLate
  /\ NoticesHaveEvents
  /\ AuditTrail
  /\ PageEditsDatedInOrder
  /\ CustomerKnowsCourier
  /\ PartMirrorsOrder
  /\ DepartedHasCourier
  /\ CancelReasonIsCurrent

\* What the four calls have in common: one event is appended, of the admin's
\* open request, which it closes.
Logs(a, e) ==
  /\ e \in Events
  /\ e.from = status /\ e.to = status'
  /\ e.created = tx[a].began /\ e.route = tx[a].route
  /\ events' = Append(events, e)
  /\ tx' = [tx EXCEPT ![a] = NoTx]
  /\ UNCHANGED <<reachable, page, clock>>
  /\ status # "none" /\ status' # "none"
  /\ \/ e.kind = "notification_retry" /\ revision' = revision /\ Len(events) - revision <= MaxRetries
     \/ e.kind # "notification_retry" /\ revision' = revision + 1 /\ MayEdit(a)

-----------------------------------------------------------------------------
\* An appended event leaves the earlier ones where they are.
LEMMA Appending ==
  ASSUME events \in Seq(Events), NEW e \in Events, events' = Append(events, e)
  PROVE  /\ events' \in Seq(Events)
         /\ Len(events) \in Nat
         /\ Len(events') = Len(events) + 1
         /\ DOMAIN events = 1 .. Len(events)
         /\ DOMAIN events' = 1 .. Len(events) + 1
         /\ \A k \in DOMAIN events : events'[k] = events[k]
         /\ events'[Len(events) + 1] = e
  OBVIOUS

\* The revisions count the edits, and an edit adds one to both.
LEMMA EditsCounted ==
  ASSUME events \in Seq(Events), NEW e \in Events, events' = Append(events, e)
  PROVE  /\ e.kind # "notification_retry" =>
              Cardinality({k \in DOMAIN events : IsEdit(k)})'
                = Cardinality({k \in DOMAIN events : IsEdit(k)}) + 1
         /\ e.kind = "notification_retry" =>
              Cardinality({k \in DOMAIN events : IsEdit(k)})'
                = Cardinality({k \in DOMAIN events : IsEdit(k)})
<1> DEFINE edits == {k \in DOMAIN events : IsEdit(k)}
           last == Len(events) + 1
<1>1. last \notin edits
  BY Appending
<1>2. IsFiniteSet(edits)
  <2>1. IsFiniteSet(1 .. Len(events))
    BY FS_Interval, Appending
  <2> QED
    BY <2>1, FS_Subset, Appending
<1>3. e.kind # "notification_retry" => edits' = edits \cup {last}
  BY Appending DEF IsEdit
<1>4. e.kind = "notification_retry" => edits' = edits
  BY Appending DEF IsEdit
<1>5. Cardinality(edits \cup {last}) = Cardinality(edits) + 1
  BY <1>1, <1>2, FS_AddElement
<1> QED
  BY <1>3, <1>4, <1>5

\* The trail stays a chain that ends at the order's status.
LEMMA TrailGrows ==
  ASSUME IInv, NEW a \in Admins, NEW e, Logs(a, e)
  PROVE  AuditTrail'
<1>1. events \in Seq(Events) /\ e \in Events /\ events' = Append(events, e) /\ revision \in Nat
  BY DEF IInv, TypeOK, Logs
<1>2. /\ Cardinality({k \in DOMAIN events : IsEdit(k)}) = revision + 1
      /\ events[1].kind = "order_created"
      /\ \A k \in 2 .. Len(events) : events[k].from = events[k - 1].to
      /\ events[Len(events)].to = status
  BY DEF IInv, AuditTrail, Logs
<1>3. Len(events) >= 1
  <2>1. SUFFICES ASSUME Len(events) = 0 PROVE FALSE
    BY <1>1
  <2>2. {k \in DOMAIN events : IsEdit(k)} = {}
    BY <1>1, <2>1
  <2>3. Cardinality({k \in DOMAIN events : IsEdit(k)}) = 0
    BY <2>2, FS_EmptySet
  <2>4. revision + 1 = 0
    BY <1>2, <2>3
  <2> QED
    BY <1>1, <2>4
<1>4. Cardinality({k \in DOMAIN events : IsEdit(k)})' = revision' + 1
  BY <1>1, <1>2, EditsCounted DEF Logs
<1>5. events'[1].kind = "order_created"
  BY <1>1, <1>2, <1>3, Appending
<1>6. \A k \in 2 .. Len(events') : events'[k].from = events'[k - 1].to
  <2> SUFFICES ASSUME NEW k \in 2 .. Len(events') PROVE events'[k].from = events'[k - 1].to
    OBVIOUS
  <2>1. CASE k = Len(events) + 1
    BY <1>1, <1>2, <1>3, <2>1, Appending DEF Logs
  <2>2. CASE k # Len(events) + 1
    BY <1>1, <1>2, <2>2, Appending
  <2> QED
    BY <2>1, <2>2
<1>7. events'[Len(events')].to = status'
  BY <1>1, Appending DEF Logs
<1> QED
  BY <1>4, <1>5, <1>6, <1>7 DEF AuditTrail

\* An edit from a page is dated after the edits it was based on, because a page
\* that is still current was rendered after them.
LEMMA DatesStayInOrder ==
  ASSUME IInv, NEW a \in Admins, NEW e, Logs(a, e)
  PROVE  PageEditsDatedInOrder' /\ CurrentPagesAreLate'
<1>1. events \in Seq(Events) /\ e \in Events /\ events' = Append(events, e)
  BY DEF IInv, TypeOK, Logs
<1>2. tx \in [Admins -> [began : 0 .. MaxClock, route : Routes, seen : Pages]]
  BY DEF IInv, TypeOK
<1>3. PageEditsDatedInOrder'
  <2> SUFFICES ASSUME NEW j \in DOMAIN events', NEW k \in DOMAIN events',
                      j < k, IsEdit(j)', IsEdit(k)', events'[k].route = "page"
               PROVE  events'[j].created <= events'[k].created
    BY DEF PageEditsDatedInOrder
  <2>1. j \in DOMAIN events /\ events'[j] = events[j]
    BY <1>1, Appending
  <2>2. CASE k \in DOMAIN events
    <3>1. events'[k] = events[k]
      BY <1>1, <2>2, Appending
    <3> QED
      BY <2>1, <2>2, <3>1 DEF IInv, PageEditsDatedInOrder, IsEdit
  <2>3. CASE k \notin DOMAIN events
    <3>1. events'[k] = e
      BY <1>1, <2>3, Appending
    <3>2. tx[a].route = "page" /\ tx[a].seen.revision = revision
      BY <3>1 DEF Logs, MayEdit, IsEdit
    <3>3. IsEdit(j)
      BY <2>1 DEF IsEdit
    <3>4. events[j].created <= tx[a].began
      BY <2>1, <3>2, <3>3 DEF IInv, CurrentPagesAreLate
    <3> QED
      BY <2>1, <3>1, <3>4 DEF Logs
  <2> QED
    BY <2>2, <2>3
<1>4. CurrentPagesAreLate'
  <2> SUFFICES ASSUME NEW b \in Admins, tx'[b].route = "page", tx'[b].seen.revision = revision',
                      NEW j \in DOMAIN events', IsEdit(j)'
               PROVE  events'[j].created <= tx'[b].began
    BY DEF CurrentPagesAreLate
  <2>1. b # a /\ tx'[b] = tx[b]
    BY <1>2 DEF Logs, NoTx
  <2>2. tx[b].seen.revision <= revision /\ revision \in Nat
    BY DEF IInv, NothingAhead, TypeOK
  <2>3. e.kind = "notification_retry" /\ revision' = revision
    BY <2>1, <2>2 DEF Logs
  <2>4. j \in DOMAIN events /\ events'[j] = events[j] /\ IsEdit(j)
    BY <1>1, <2>3, Appending DEF IsEdit
  <2> QED
    BY <2>1, <2>3, <2>4 DEF IInv, CurrentPagesAreLate
<1> QED
  BY <1>3, <1>4

\* The types and counts of what a logged call writes.
LEMMA LoggedTypes ==
  ASSUME IInv, NEW a \in Admins, NEW e, Logs(a, e)
  PROVE  /\ revision' \in 0 .. MaxRevision /\ events' \in Seq(Events)
         /\ reachable' \in BOOLEAN /\ page' \in [Admins -> Pages] /\ clock' \in 0 .. MaxClock
         /\ tx' \in [Admins -> [began : 0 .. MaxClock, route : Routes, seen : Pages]]
         /\ Unplaced' /\ EventsCounted' /\ RequestsBegun' /\ NothingAhead'
<1>1. /\ events \in Seq(Events) /\ e \in Events /\ events' = Append(events, e)
      /\ revision \in 0 .. MaxRevision /\ clock \in 0 .. MaxClock
      /\ MaxRevision \in Nat /\ MaxRetries \in Nat /\ MaxClock \in Nat
      /\ page \in [Admins -> Pages]
      /\ tx \in [Admins -> [began : 0 .. MaxClock, route : Routes, seen : Pages]]
  BY WorkflowAssumption DEF IInv, TypeOK, Logs
<1>2. /\ revision' \in {revision, revision + 1}
      /\ revision' = revision + 1 => revision < MaxRevision
  BY <1>1 DEF Logs, MayEdit
<1>3. NoTx \in [began : 0 .. MaxClock, route : Routes, seen : Pages]
  BY <1>1 DEF NoTx, Routes, NoPage, Pages
<1>4. tx' \in [Admins -> [began : 0 .. MaxClock, route : Routes, seen : Pages]]
  BY <1>1, <1>3 DEF Logs
<1>5. Unplaced'
  BY DEF Logs, Unplaced
<1>6. EventsCounted'
  BY <1>1, Appending DEF Logs, IInv, EventsCounted
<1>7. \A k \in DOMAIN events' : events'[k].created <= clock'
  <2> SUFFICES ASSUME NEW k \in DOMAIN events' PROVE events'[k].created <= clock'
    OBVIOUS
  <2>1. CASE k \in DOMAIN events
    BY <1>1, <2>1, Appending DEF Logs, IInv, NothingAhead
  <2>2. CASE k \notin DOMAIN events
    <3>1. events'[k] = e
      BY <1>1, <2>2, Appending
    <3>2. tx[a].began <= clock
      BY <1>1 DEF IInv, RequestsBegun
    <3> QED
      BY <3>1, <3>2 DEF Logs
  <2> QED
    BY <2>1, <2>2
<1>8. \A b \in Admins : page'[b].revision <= revision' /\ tx'[b].seen.revision <= revision'
  <2> SUFFICES ASSUME NEW b \in Admins
               PROVE  page'[b].revision <= revision' /\ tx'[b].seen.revision <= revision'
    OBVIOUS
  <2>1. page[b].revision <= revision /\ tx[b].seen.revision <= revision
    BY DEF IInv, NothingAhead
  <2>2. page[b].revision \in Nat /\ tx[b].seen.revision \in Nat /\ NoTx.seen.revision = 0
    BY <1>1 DEF Pages, NoTx, NoPage
  <2>3. page'[b] = page[b] /\ tx'[b] \in {tx[b], NoTx}
    BY <1>1 DEF Logs
  <2> QED
    BY <1>1, <1>2, <2>1, <2>2, <2>3
<1>9. NothingAhead'
  BY <1>7, <1>8 DEF NothingAhead
<1>10. RequestsBegun'
  BY <1>1 DEF Logs, NoTx, IInv, RequestsBegun
<1> QED
  BY <1>1, <1>2, <1>4, <1>5, <1>6, <1>9, <1>10, Appending DEF Logs, IInv, TypeOK

-----------------------------------------------------------------------------
(* What each call does to the customer's notices and the order's fields    *)

\* A notice that is sent with an event is about that event.
LEMMA NoticesGrow ==
  ASSUME IInv, NEW a \in Admins, NEW e, Logs(a, e), revision' = revision + 1, MayEdit(a),
         NEW kind \in NoticeKinds, NEW contact \in Contacts \cup {NoContact},
         Notify(kind, contact)
  PROVE  /\ notices' \in Seq(Notices) /\ NoticesHaveEvents'
         /\ \A n \in DOMAIN notices' :
              \/ n \in DOMAIN notices /\ notices'[n] = notices[n]
              \/ notices'[n].event = Len(events) + 1 /\ notices'[n].contact = contact
<1>1. /\ events \in Seq(Events) /\ e \in Events /\ events' = Append(events, e)
      /\ notices \in Seq(Notices)
      /\ revision \in 0 .. MaxRevision /\ MaxRevision \in Nat /\ MaxRetries \in Nat
  BY WorkflowAssumption DEF IInv, TypeOK, Logs
<1>2. Len(events) + 1 \in 1 .. MaxRevision + MaxRetries + 1
  BY <1>1, Appending DEF IInv, EventsCounted, MayEdit
<1> DEFINE notice == [event |-> Len(events) + 1, kind |-> kind, contact |-> contact]
<1>3. notice \in Notices
  BY <1>2 DEF Notices
<1>4. CASE notices' = notices
  BY <1>1, <1>4, Appending DEF IInv, NoticesHaveEvents
<1>5. CASE notices' = Append(notices, notice)
  <2>1. /\ notices' \in Seq(Notices)
        /\ DOMAIN notices' = 1 .. Len(notices) + 1 /\ DOMAIN notices = 1 .. Len(notices)
        /\ \A n \in DOMAIN notices : notices'[n] = notices[n]
        /\ notices'[Len(notices) + 1] = notice
    BY <1>1, <1>3, <1>5
  <2>2. \A n \in DOMAIN notices' :
          \/ n \in DOMAIN notices /\ notices'[n] = notices[n]
          \/ notices'[n].event = Len(events) + 1 /\ notices'[n].contact = contact
    BY <2>1
  <2>3. NoticesHaveEvents'
    BY <1>1, <2>2, Appending DEF IInv, NoticesHaveEvents
  <2> QED
    BY <2>1, <2>2, <2>3
<1> QED
  BY <1>4, <1>5 DEF Notify

\* Does this event name a courier to the customer?
Names(e) ==
  \/ e.kind = "courier_contact_updated"
  \/ e.kind = "status_changed" /\ e.to = "in_transit"

\* The customer still knows the courier after an event that names the present
\* one, that is a correction, or that changes nothing about courier and road.
LEMMA CourierStaysKnown ==
  ASSUME IInv, NEW a \in Admins, NEW e, Logs(a, e),
         \A n \in DOMAIN notices' :
           \/ n \in DOMAIN notices /\ notices'[n] = notices[n]
           \/ notices'[n].event = Len(events) + 1 /\ (Names(e) => notices'[n].contact = courier'),
         status' = "in_transit" =>
           \/ Names(e)
           \/ e.kind = "status_corrected"
           \/ status = "in_transit" /\ courier' = courier
  PROVE  CustomerKnowsCourier'
<1>1. events \in Seq(Events) /\ e \in Events /\ events' = Append(events, e)
  BY DEF IInv, TypeOK, Logs
<1>2. \A k \in DOMAIN events : NamesCourier(k)' <=> NamesCourier(k)
  BY <1>1, Appending DEF NamesCourier
<1>3. \A k \in DOMAIN events' : k = Len(events) + 1 => (NamesCourier(k)' <=> Names(e))
  BY <1>1, Appending DEF NamesCourier, Names
<1> SUFFICES ASSUME NEW k \in DOMAIN events', NEW n \in DOMAIN notices',
                    status' = "in_transit", NamesCourier(k)',
                    \A j \in DOMAIN events' : j > k => ~NamesCourier(j)',
                    \A j \in DOMAIN events' : j > k => events'[j].kind # "status_corrected",
                    notices'[n].event = k
             PROVE  notices'[n].contact = courier'
  BY DEF CustomerKnowsCourier
<1>4. CASE k = Len(events) + 1
  <2>1. Names(e)
    BY <1>3, <1>4
  <2>2. ~(n \in DOMAIN notices /\ notices'[n] = notices[n])
    BY <1>1, <1>4, Appending DEF IInv, NoticesHaveEvents
  <2> QED
    BY <2>1, <2>2
<1>5. CASE k # Len(events) + 1
  <2>1. k \in DOMAIN events /\ Len(events) + 1 > k /\ Len(events) + 1 \in DOMAIN events'
    BY <1>1, <1>5, Appending
  <2>2. ~Names(e) /\ e.kind # "status_corrected"
    BY <1>1, <1>3, <2>1, Appending
  <2>3. status = "in_transit" /\ courier' = courier
    BY <2>2
  <2>4. n \in DOMAIN notices /\ notices'[n] = notices[n]
    BY <1>5
  <2>5. NamesCourier(k) /\ \A j \in DOMAIN events : j > k => ~NamesCourier(j)
    BY <1>1, <1>2, <2>1, Appending
  <2>6. \A j \in DOMAIN events : j > k => events[j].kind # "status_corrected"
    BY <1>1, Appending
  <2> QED
    BY <2>1, <2>3, <2>4, <2>5, <2>6 DEF IInv, CustomerKnowsCourier
<1> QED
  BY <1>4, <1>5

\* The cancel reason goes with the last event about the status.
LEMMA ReasonStaysCurrent ==
  ASSUME IInv, NEW a \in Admins, NEW e, Logs(a, e),
         \/ e.kind \in StatusKinds /\ cancelReason' = IF e.public THEN "public" ELSE "none"
         \/ e.kind \notin StatusKinds /\ cancelReason' = cancelReason
  PROVE  CancelReasonIsCurrent'
<1>1. events \in Seq(Events) /\ e \in Events /\ events' = Append(events, e)
  BY DEF IInv, TypeOK, Logs
<1>2. \A k \in DOMAIN events : IsStatusEvent(k)' <=> IsStatusEvent(k)
  BY <1>1, Appending DEF IsStatusEvent
<1>3. \A k \in DOMAIN events' : k = Len(events) + 1 => (IsStatusEvent(k)' <=> e.kind \in StatusKinds)
  BY <1>1, Appending DEF IsStatusEvent
<1> SUFFICES ASSUME NEW k \in DOMAIN events', LastStatusEvent(k)'
             PROVE  cancelReason' = IF events'[k].public THEN "public" ELSE "none"
  BY DEF CancelReasonIsCurrent
<1>4. IsStatusEvent(k)' /\ \A j \in DOMAIN events' : j > k => ~IsStatusEvent(j)'
  BY DEF LastStatusEvent
<1>5. CASE k = Len(events) + 1
  BY <1>1, <1>3, <1>4, <1>5, Appending
<1>6. CASE k # Len(events) + 1
  <2>1. k \in DOMAIN events /\ Len(events) + 1 > k /\ Len(events) + 1 \in DOMAIN events'
    BY <1>1, <1>6, Appending
  <2>2. e.kind \notin StatusKinds
    BY <1>3, <1>4, <2>1
  <2>3. LastStatusEvent(k)
    BY <1>1, <1>2, <1>4, <2>1, Appending DEF LastStatusEvent
  <2>4. events'[k] = events[k]
    BY <1>1, <2>1, Appending
  <2> QED
    BY <2>1, <2>2, <2>3, <2>4 DEF IInv, CancelReasonIsCurrent
<1> QED
  BY <1>5, <1>6

-----------------------------------------------------------------------------
(* The actions                                                             *)

\* Only an order that exists has requests.
LEMMA RequestsArePlaced ==
  ASSUME IInv, NEW a \in Admins, tx[a].route # "none"
  PROVE  status \in Statuses
  BY DEF IInv, TypeOK, Unplaced, NoTx

\* change_status keeps the invariant.
LEMMA StatusChanges ==
  ASSUME IInv, NEW a \in Admins, NEW target \in Statuses, NEW correction \in BOOLEAN,
         NEW reason \in BOOLEAN, ChangeStatus(a, target, correction, reason)
  PROVE  IInv'
<1> DEFINE kind == IF correction THEN "status_corrected" ELSE "status_changed"
           public == target = "cancelled" /\ ~correction
           e == [kind |-> kind, from |-> status, to |-> target, public |-> public,
                 created |-> tx[a].began, route |-> tx[a].route]
<1>1. /\ MayEdit(a) /\ Allowed(target, correction, reason)
      /\ status' = target /\ cancelReason' = ReasonFor(target, correction)
      /\ part' = PartFor(target) /\ events' = Append(events, e)
      /\ Notify(NoticeFor(target, correction), ContactFor(target, correction))
      /\ Commit(a) /\ courier' = courier
  BY DEF ChangeStatus, Record
<1>2. status \in Statuses /\ status # "none" /\ target # "none"
  BY <1>1, RequestsArePlaced DEF MayEdit, Statuses
<1>3. public \in BOOLEAN
  OBVIOUS
<1>4. kind \in {"status_changed", "status_corrected"}
  OBVIOUS
<1>5. /\ tx[a].began \in 0 .. MaxClock /\ tx[a].route \in Routes
      /\ courier \in Contacts \cup {NoContact}
  BY DEF IInv, TypeOK
<1>6. e \in Events
  <2> HIDE DEF kind, public
  <2> QED
    BY <1>2, <1>3, <1>4, <1>5 DEF Events, EventKinds, StatusKinds
<1>7. /\ e.kind = kind /\ e.public = public /\ e.from = status /\ e.to = target
      /\ e.created = tx[a].began /\ e.route = tx[a].route
  OBVIOUS
<1> HIDE DEF e
<1>8. Logs(a, e) /\ revision' = revision + 1
  BY <1>1, <1>2, <1>4, <1>6, <1>7 DEF Logs, Commit
<1>9. NoticeFor(target, correction) \in NoticeKinds
  BY DEF NoticeFor, NoticeKinds
<1>10. ContactFor(target, correction) \in Contacts \cup {NoContact}
  BY <1>5 DEF ContactFor
<1>11. /\ notices' \in Seq(Notices) /\ NoticesHaveEvents'
       /\ \A n \in DOMAIN notices' :
            \/ n \in DOMAIN notices /\ notices'[n] = notices[n]
            \/ notices'[n].event = Len(events) + 1
                 /\ notices'[n].contact = ContactFor(target, correction)
  BY <1>1, <1>8, <1>9, <1>10, NoticesGrow
<1>12. Names(e) => ContactFor(target, correction) = courier'
  BY <1>1, <1>7 DEF Names, ContactFor
<1>13. status' = "in_transit" => Names(e) \/ e.kind = "status_corrected"
  BY <1>1, <1>7 DEF Names
<1>14. CustomerKnowsCourier'
  BY <1>8, <1>11, <1>12, <1>13, CourierStaysKnown
<1>15. CancelReasonIsCurrent'
  <2>1. cancelReason' = IF e.public THEN "public" ELSE "none"
    BY <1>1, <1>7 DEF ReasonFor
  <2>2. e.kind \in StatusKinds
    BY <1>4, <1>7 DEF StatusKinds
  <2> QED
    BY <1>8, <2>1, <2>2, ReasonStaysCurrent
<1>16. PartMirrorsOrder' /\ part' \in [status : {"new", "pending", "accepted", "rejected"},
                                     response : {"pending", "accepted", "rejected"}]
  BY <1>1 DEF PartMirrorsOrder, PartFor, Statuses
<1>17. DepartedHasCourier' /\ cancelReason' \in {"none", "public", "private"}
  BY <1>1 DEF DepartedHasCourier, Allowed, ReasonFor
<1> QED
  BY <1>1, <1>5, <1>8, <1>11, <1>14, <1>15, <1>16, <1>17, LoggedTypes, TrailGrows, DatesStayInOrder
     DEF IInv, TypeOK

\* update_courier keeps the invariant.
LEMMA CourierChanges ==
  ASSUME IInv, NEW a \in Admins, NEW contact \in Contacts \cup {NoContact},
         UpdateCourier(a, contact)
  PROVE  IInv'
<1> DEFINE kind == IF ContactChanged(contact) THEN "courier_contact_updated" ELSE "courier_updated"
           e == [kind |-> kind, from |-> status, to |-> status, public |-> FALSE,
                 created |-> tx[a].began, route |-> tx[a].route]
<1>1. /\ MayEdit(a) /\ KeepsCourier(contact) /\ tx[a].route = "page"
      /\ courier' = contact /\ events' = Append(events, e)
      /\ IF ContactChanged(contact) THEN Notify("courier_contact", contact) ELSE UNCHANGED notices
      /\ Commit(a) /\ UNCHANGED <<status, cancelReason, part>>
  BY DEF UpdateCourier, Record
<1>2. status \in Statuses /\ status # "none"
  BY <1>1, RequestsArePlaced DEF Statuses
<1>3. kind \in {"courier_contact_updated", "courier_updated"}
  OBVIOUS
<1>4. tx[a].began \in 0 .. MaxClock /\ tx[a].route \in Routes
  BY DEF IInv, TypeOK
<1>5. e \in Events
  <2> HIDE DEF kind
  <2> QED
    BY <1>2, <1>3, <1>4 DEF Events, EventKinds
<1>6. /\ e.kind = kind /\ e.from = status /\ e.to = status
      /\ e.created = tx[a].began /\ e.route = tx[a].route
  OBVIOUS
<1> HIDE DEF e
<1>7. Logs(a, e) /\ revision' = revision + 1
  BY <1>1, <1>2, <1>3, <1>5, <1>6 DEF Logs, Commit
<1>8. /\ notices' \in Seq(Notices) /\ NoticesHaveEvents'
      /\ \A n \in DOMAIN notices' :
           \/ n \in DOMAIN notices /\ notices'[n] = notices[n]
           \/ notices'[n].event = Len(events) + 1 /\ notices'[n].contact = contact
  <2>1. CASE ContactChanged(contact)
    <3>1. "courier_contact" \in NoticeKinds
      BY DEF NoticeKinds
    <3> QED
      BY <1>1, <1>7, <2>1, <3>1, NoticesGrow
  <2>2. CASE ~ContactChanged(contact)
    BY <1>1, <1>5, <2>2, Appending DEF IInv, TypeOK, NoticesHaveEvents
  <2> QED
    BY <2>1, <2>2
<1>9. status' = "in_transit" => Names(e) \/ (status = "in_transit" /\ courier' = courier)
  BY <1>1, <1>6 DEF Names, ContactChanged
<1>10. CustomerKnowsCourier'
  BY <1>1, <1>7, <1>8, <1>9, CourierStaysKnown
<1>11. CancelReasonIsCurrent'
  BY <1>1, <1>3, <1>6, <1>7, ReasonStaysCurrent DEF StatusKinds
<1>12. PartMirrorsOrder' /\ DepartedHasCourier'
  BY <1>1 DEF IInv, PartMirrorsOrder, DepartedHasCourier, KeepsCourier
<1> QED
  BY <1>1, <1>7, <1>8, <1>10, <1>11, <1>12, LoggedTypes, TrailGrows, DatesStayInOrder
     DEF IInv, TypeOK

\* update_note and retry_notification write nothing but their event.
LEMMA OnlyLogged ==
  ASSUME IInv, NEW a \in Admins, NEW e, Logs(a, e),
         e.kind \in {"delivery_note_updated", "notification_retry"},
         UNCHANGED <<status, courier, cancelReason, part, notices>>
  PROVE  IInv'
<1>1. events \in Seq(Events) /\ e \in Events /\ events' = Append(events, e)
  BY DEF IInv, TypeOK, Logs
<1>2. NoticesHaveEvents'
  BY <1>1, Appending DEF IInv, NoticesHaveEvents
<1>3. CustomerKnowsCourier'
  BY CourierStaysKnown
<1>4. CancelReasonIsCurrent'
  BY ReasonStaysCurrent DEF StatusKinds
<1>5. PartMirrorsOrder' /\ DepartedHasCourier'
  BY DEF IInv, PartMirrorsOrder, DepartedHasCourier
<1> QED
  BY <1>2, <1>3, <1>4, <1>5, LoggedTypes, TrailGrows, DatesStayInOrder DEF IInv, TypeOK

\* update_note keeps the invariant.
LEMMA NoteChanges ==
  ASSUME IInv, NEW a \in Admins, UpdateNote(a)
  PROVE  IInv'
<1> DEFINE e == [kind |-> "delivery_note_updated", from |-> status, to |-> status, public |-> FALSE,
                 created |-> tx[a].began, route |-> tx[a].route]
<1>1. status \in Statuses /\ status # "none"
  BY RequestsArePlaced DEF UpdateNote, Statuses
<1>2. e \in Events
  BY <1>1 DEF IInv, TypeOK, Events, EventKinds
<1>3. Logs(a, e)
  BY <1>1, <1>2 DEF Logs, UpdateNote, Record, Commit
<1> QED
  BY <1>3, OnlyLogged DEF UpdateNote

\* retry_notification keeps the invariant.
LEMMA RetryIsLogged ==
  ASSUME IInv, NEW a \in Admins, RetryNotification(a)
  PROVE  IInv'
<1> DEFINE e == [kind |-> "notification_retry", from |-> status, to |-> status, public |-> FALSE,
                 created |-> tx[a].began, route |-> tx[a].route]
<1>1. status \in Statuses /\ status # "none"
  BY RequestsArePlaced DEF RetryNotification, Statuses
<1>2. e \in Events
  BY <1>1 DEF IInv, TypeOK, Events, EventKinds
<1>3. Logs(a, e)
  BY <1>1, <1>2 DEF Logs, RetryNotification, Record, order
<1> QED
  BY <1>3, OnlyLogged DEF RetryNotification, order

\* No order yet: everything holds of the empty history.
LEMMA Initially == Init => IInv
<1> SUFFICES ASSUME Init PROVE IInv
  OBVIOUS
<1>1. /\ events = <<>> /\ notices = <<>> /\ DOMAIN events = {} /\ DOMAIN notices = {}
      /\ Len(events) = 0 /\ MaxRevision \in Nat /\ MaxRetries \in Nat /\ MaxClock \in Nat
  BY WorkflowAssumption DEF Init
<1>2. NoPage \in Pages /\ NoPage.revision = 0
  BY <1>1 DEF NoPage, Pages
<1>3. NoTx \in [began : 0 .. MaxClock, route : Routes, seen : Pages]
  BY <1>1, <1>2 DEF NoTx, Routes
<1>4. TypeOK
  BY <1>1, <1>2, <1>3 DEF Init, TypeOK
<1>5. Unplaced /\ EventsCounted /\ RequestsBegun /\ NothingAhead /\ CurrentPagesAreLate
  BY <1>1, <1>2 DEF Init, Unplaced, EventsCounted, RequestsBegun, NothingAhead,
                    CurrentPagesAreLate, NoTx
<1>6. NoticesHaveEvents /\ AuditTrail /\ PageEditsDatedInOrder /\ CustomerKnowsCourier
  BY <1>1 DEF Init, NoticesHaveEvents, AuditTrail, PageEditsDatedInOrder, CustomerKnowsCourier
<1>7. PartMirrorsOrder /\ DepartedHasCourier /\ CancelReasonIsCurrent
  BY <1>1 DEF Init, PartMirrorsOrder, DepartedHasCourier, CancelReasonIsCurrent, Departed
<1> QED
  BY <1>4, <1>5, <1>6, <1>7 DEF IInv

\* Checkout writes the first event, and perhaps a message about it.
LEMMA PlaceKeeps ==
  ASSUME IInv, NEW source \in {"web", "bot"}, Place(source)
  PROVE  IInv'
<1> DEFINE e == [kind |-> "order_created", from |-> "none", to |-> "new", public |-> FALSE,
                 created |-> clock, route |-> "none"]
           ack == [event |-> 1, kind |-> "order_ack", contact |-> NoContact]
<1>1. /\ status = "none" /\ status' = "new" /\ events' = <<e>>
      /\ notices' = <<ack>> \/ notices' = <<>>
      /\ UNCHANGED <<revision, courier, cancelReason, part, reachable, page, tx, clock>>
  BY DEF Place
<1>2. /\ revision = 0 /\ cancelReason = "none" /\ courier = NoContact
      /\ \A a \in Admins : tx[a] = NoTx
  BY <1>1 DEF IInv, Unplaced
<1>3. MaxRevision \in Nat /\ MaxRetries \in Nat /\ clock \in 0 .. MaxClock
  BY WorkflowAssumption DEF IInv, TypeOK
<1>4. e \in Events
  BY <1>3 DEF Events, EventKinds, StatusKinds, Statuses, Routes
<1>5. ack \in Notices
  BY <1>3 DEF Notices, NoticeKinds
<1>6. DOMAIN events' = {1} /\ events'[1] = e /\ Len(events') = 1 /\ events' \in Seq(Events)
  BY <1>1, <1>4
<1>7. notices' \in Seq(Notices) /\ \A n \in DOMAIN notices' : notices'[n] = ack
  <2> HIDE DEF ack, e
  <2>1. CASE notices' = <<ack>>
    BY <1>5, <2>1
  <2>2. CASE notices' = <<>>
    BY <2>2
  <2> QED
    BY <1>1, <2>1, <2>2
<1>8. TypeOK'
  BY <1>1, <1>6, <1>7 DEF IInv, TypeOK, Statuses
<1>9. Unplaced' /\ EventsCounted' /\ RequestsBegun' /\ CurrentPagesAreLate'
  BY <1>1, <1>2, <1>3, <1>6 DEF Unplaced, EventsCounted, RequestsBegun, CurrentPagesAreLate,
                                IInv, NoTx
<1>10. NothingAhead'
  BY <1>1, <1>3, <1>6 DEF NothingAhead, IInv
<1>11. NoticesHaveEvents' /\ PageEditsDatedInOrder' /\ CustomerKnowsCourier'
  BY <1>1, <1>6, <1>7 DEF NoticesHaveEvents, PageEditsDatedInOrder, CustomerKnowsCourier
<1>12. AuditTrail'
  <2> DEFINE edits == {k \in DOMAIN events : IsEdit(k)}
  <2>1. edits' = {1}
    BY <1>6 DEF IsEdit
  <2>2. Cardinality(edits') = 1
    BY <2>1, FS_Singleton
  <2> HIDE DEF edits
  <2>3. Cardinality({k \in DOMAIN events : IsEdit(k)})' = revision' + 1
    <3>1. Cardinality(edits)' = revision' + 1
      BY <1>1, <1>2, <2>2
    <3> QED
      BY <3>1 DEF edits
  <2>4. /\ events'[1].kind = "order_created"
        /\ \A k \in 2 .. Len(events') : events'[k].from = events'[k - 1].to
        /\ events'[Len(events')].to = status'
    BY <1>1, <1>6
  <2> QED
    BY <2>3, <2>4 DEF AuditTrail
<1>13. PartMirrorsOrder' /\ DepartedHasCourier'
  BY <1>1 DEF IInv, PartMirrorsOrder, DepartedHasCourier, Departed
<1>14. CancelReasonIsCurrent'
  BY <1>1, <1>2, <1>6 DEF CancelReasonIsCurrent
<1> QED
  BY <1>8, <1>9, <1>10, <1>11, <1>12, <1>13, <1>14 DEF IInv

\* What is said of the order alone survives a step that leaves the order alone.
LEMMA OrderUntouched ==
  ASSUME IInv, UNCHANGED <<order, events, notices>>
  PROVE  /\ EventsCounted' /\ NoticesHaveEvents' /\ AuditTrail' /\ PageEditsDatedInOrder'
         /\ CustomerKnowsCourier' /\ PartMirrorsOrder' /\ DepartedHasCourier'
         /\ CancelReasonIsCurrent'
<1> USE DEF IInv, order
<1>1. EventsCounted' /\ NoticesHaveEvents' /\ PartMirrorsOrder' /\ DepartedHasCourier'
  BY DEF EventsCounted, NoticesHaveEvents, PartMirrorsOrder, DepartedHasCourier
<1>2. AuditTrail' /\ PageEditsDatedInOrder'
  BY DEF AuditTrail, PageEditsDatedInOrder, IsEdit
<1>3. CustomerKnowsCourier' /\ CancelReasonIsCurrent'
  BY DEF CustomerKnowsCourier, NamesCourier, CancelReasonIsCurrent, LastStatusEvent, IsStatusEvent
<1> QED
  BY <1>1, <1>2, <1>3

\* Every step keeps the invariant.
LEMMA Consecution == IInv /\ [Next]_vars => IInv'
<1> SUFFICES ASSUME IInv, [Next]_vars PROVE IInv'
  OBVIOUS
<1>1. ASSUME NEW a \in Admins, OpenPage(a) PROVE IInv'
  <2>1. [revision |-> revision, status |-> status] \in Pages
    BY <1>1 DEF IInv, TypeOK, Pages
  <2>2. TypeOK'
    BY <1>1, <2>1 DEF OpenPage, order, IInv, TypeOK
  <2>3. NothingAhead'
    BY <1>1 DEF OpenPage, order, IInv, TypeOK, NothingAhead
  <2>4. Unplaced' /\ RequestsBegun' /\ CurrentPagesAreLate'
    BY <1>1 DEF OpenPage, order, IInv, Unplaced, RequestsBegun, CurrentPagesAreLate, IsEdit
  <2> QED
    BY <1>1, <2>2, <2>3, <2>4, OrderUntouched DEF OpenPage, IInv
<1>2. ASSUME NEW a \in Admins, NEW route \in {"page", "shop"}, Begin(a, route) PROVE IInv'
  <2> DEFINE request == [began |-> clock + 1, route |-> route,
                         seen |-> IF route = "page" THEN page[a] ELSE NoPage]
  <2>1. /\ tx' = [tx EXCEPT ![a] = request] /\ clock' = clock + 1 /\ clock < MaxClock
        /\ status # "none" /\ UNCHANGED <<order, events, notices, reachable, page>>
    BY <1>2 DEF Begin
  <2>2. MaxClock \in Nat /\ clock \in 0 .. MaxClock /\ MaxRevision \in Nat /\ revision \in Nat
    BY WorkflowAssumption DEF IInv, TypeOK
  <2>3. NoPage \in Pages /\ NoPage.revision = 0 /\ page[a] \in Pages
    BY <2>2 DEF NoPage, Pages, IInv, TypeOK
  <2>4. request \in [began : 0 .. MaxClock, route : Routes, seen : Pages]
    BY <2>1, <2>2, <2>3 DEF Routes
  <2>5. TypeOK'
    BY <2>1, <2>2, <2>4 DEF order, IInv, TypeOK
  <2>6. \A k \in DOMAIN events : events[k].created \in Nat
    <3> SUFFICES ASSUME NEW k \in DOMAIN events PROVE events[k].created \in Nat
      OBVIOUS
    <3>1. events[k] \in Events
      BY DEF IInv, TypeOK
    <3> QED
      BY <2>2, <3>1 DEF Events
  <2>7. RequestsBegun' /\ NothingAhead'
    BY <2>1, <2>2, <2>3, <2>6 DEF order, IInv, TypeOK, RequestsBegun, NothingAhead
  <2>8. CurrentPagesAreLate'
    BY <2>1, <2>2, <2>6 DEF order, IInv, TypeOK, NothingAhead, CurrentPagesAreLate, IsEdit
  <2>9. Unplaced'
    BY <2>1 DEF Unplaced, order
  <2> QED
    BY <2>1, <2>5, <2>7, <2>8, <2>9, OrderUntouched DEF IInv
<1>3. ASSUME NEW a \in Admins, Reread(a) PROVE IInv'
  <2> DEFINE seen == [revision |-> revision, status |-> "new"]
  <2>1. /\ tx' = [tx EXCEPT ![a].route = "reread", ![a].seen = seen] /\ tx[a].route = "shop"
        /\ UNCHANGED <<order, events, notices, reachable, page, clock>>
    BY <1>3 DEF Reread
  <2>2. seen \in Pages
    BY DEF IInv, TypeOK, Pages, Statuses
  <2>3. TypeOK'
    BY <2>1, <2>2 DEF order, IInv, TypeOK, Routes
  <2>4. RequestsBegun' /\ NothingAhead' /\ CurrentPagesAreLate'
    BY <2>1 DEF order, IInv, TypeOK, RequestsBegun, NothingAhead, CurrentPagesAreLate, IsEdit
  <2>5. Unplaced'
    BY <2>1 DEF order, IInv, Unplaced, NoTx
  <2> QED
    BY <2>1, <2>3, <2>4, <2>5, OrderUntouched DEF IInv
<1>4. ASSUME NEW a \in Admins, Abandon(a) PROVE IInv'
  <2>1. /\ tx' = [tx EXCEPT ![a] = NoTx]
        /\ UNCHANGED <<order, events, notices, reachable, page, clock>>
    BY <1>4 DEF Abandon
  <2>2. NoTx \in [began : 0 .. MaxClock, route : Routes, seen : Pages]
    BY WorkflowAssumption DEF NoTx, Routes, NoPage, Pages
  <2>3. TypeOK'
    BY <2>1, <2>2 DEF order, IInv, TypeOK
  <2>4. NoTx.began = 0 /\ NoTx.seen.revision = 0 /\ NoTx.route = "none"
    BY DEF NoTx, NoPage
  <2>5. RequestsBegun' /\ NothingAhead' /\ CurrentPagesAreLate'
    BY <2>1, <2>4 DEF order, IInv, TypeOK, RequestsBegun, NothingAhead, CurrentPagesAreLate, IsEdit
  <2>6. Unplaced'
    BY <2>1 DEF order, IInv, Unplaced, TypeOK
  <2> QED
    BY <2>1, <2>3, <2>5, <2>6, OrderUntouched DEF IInv
<1>5. CASE Reach \/ UNCHANGED vars
  <2>1. UNCHANGED <<order, events, notices, page, tx, clock>> /\ reachable' \in BOOLEAN
    BY <1>5 DEF Reach, vars, IInv, TypeOK
  <2>2. TypeOK' /\ Unplaced' /\ RequestsBegun' /\ NothingAhead' /\ CurrentPagesAreLate'
    BY <2>1 DEF order, IInv, TypeOK, Unplaced, RequestsBegun, NothingAhead, CurrentPagesAreLate,
                IsEdit
  <2> QED
    BY <2>1, <2>2, OrderUntouched DEF IInv
<1> QED
  BY <1>1, <1>2, <1>3, <1>4, <1>5, PlaceKeeps, StatusChanges, CourierChanges, NoteChanges,
     RetryIsLogged DEF Next, Edit

LEMMA Invariance == Spec => []IInv
  BY Initially, Consecution, PTL DEF Spec

-----------------------------------------------------------------------------
\* Every variable keeps its type, and the list of events its bound.
THEOREM TypeCorrect == Spec => []TypeOK
<1>1. IInv => TypeOK
  BY DEF IInv
<1> QED
  BY <1>1, Invariance, PTL

\* Every revision has one event, and the events are a chain that ends at the
\* order's status (_record of order_workflow.py).
THEOREM TrailIsComplete == Spec => []AuditTrail
<1>1. IInv => AuditTrail
  BY DEF IInv
<1> QED
  BY <1>1, Invariance, PTL

\* No admin's edit from a page is dated before an edit it was based on
\* (_check_revision against the page's revision).
THEOREM PagesEditInOrder == Spec => []PageEditsDatedInOrder
<1>1. IInv => PageEditsDatedInOrder
  BY DEF IInv
<1> QED
  BY <1>1, Invariance, PTL

\* The last message that names a courier names the one who has the order
\* (update_courier and the departure notice of change_status).
THEOREM CourierIsTold == Spec => []CustomerKnowsCourier
<1>1. IInv => CustomerKnowsCourier
  BY DEF IInv
<1> QED
  BY <1>1, Invariance, PTL

\* The house part says what the order says (_sync_house_parts), whatever jumps
\* corrections make.
THEOREM PartFollows == Spec => []PartMirrorsOrder
<1>1. IInv => PartMirrorsOrder
  BY DEF IInv
<1> QED
  BY <1>1, Invariance, PTL

\* No order is on the road or delivered without a courier (change_status and
\* update_courier both refuse it).
THEOREM CourierBeforeDeparture == Spec => []DepartedHasCourier
<1>1. IInv => DepartedHasCourier
  BY DEF IInv
<1> QED
  BY <1>1, Invariance, PTL

\* The cancel reason shown is the one of the cancellation in force.
THEOREM ReasonIsCurrent == Spec => []CancelReasonIsCurrent
<1>1. IInv => CancelReasonIsCurrent
  BY DEF IInv
<1> QED
  BY <1>1, Invariance, PTL

\* Only a recorded correction takes an order out of a final status
\* (ActiveTransitions has no way out of one).
THEOREM FinalIsFinal == Spec => FinalUnlessCorrected
<1> DEFINE Step == status \in Final /\ status' # status =>
                     /\ Len(events') = Len(events) + 1
                     /\ events'[Len(events')].kind = "status_corrected"
<1>1. IInv /\ [Next]_vars => [Step]_vars
  <2> SUFFICES ASSUME IInv, Next, status \in Final, status' # status
               PROVE  /\ Len(events') = Len(events) + 1
                      /\ events'[Len(events')].kind = "status_corrected"
    OBVIOUS
  <2>1. PICK a \in Admins, target \in Statuses, correction \in BOOLEAN, reason \in BOOLEAN :
          ChangeStatus(a, target, correction, reason)
    BY DEF Next, Edit, Place, OpenPage, Reread, Abandon, Begin, Reach, UpdateCourier, UpdateNote,
           RetryNotification, order, Final
  <2> DEFINE e == [kind |-> IF correction THEN "status_corrected" ELSE "status_changed",
                   from |-> status, to |-> target,
                   public |-> target = "cancelled" /\ ~correction,
                   created |-> tx[a].began, route |-> tx[a].route]
  <2>2. correction
    BY <2>1 DEF ChangeStatus, Allowed, ActiveTransitions, Final
  <2>3. events' = Append(events, e) /\ e.kind = "status_corrected"
    BY <2>1, <2>2 DEF ChangeStatus, Record
  <2>4. events \in Seq(Events)
    BY DEF IInv, TypeOK
  <2> HIDE DEF e
  <2> QED
    BY <2>3, <2>4
<1> QED
  BY <1>1, Invariance, PTL DEF Spec, FinalUnlessCorrected

-----------------------------------------------------------------------------
\* Numbers and their order.

\* A set of numbers has a least one.
LEMMA LeastNumber ==
    ASSUME NEW S, S \subseteq Nat, S # {}
    PROVE  \E i \in S : \A j \in S : i <= j
<1> DEFINE R == OpToRel(<, Nat)
<1>1. IsWellFoundedOn(R, Nat)
    BY NatLessThanWellFounded
<1>2. \A m, n \in Nat : m < n => <<m, n>> \in R
    BY DEF OpToRel
<1> HIDE DEF R
<1>3. PICK i \in S : \A j \in S : ~(<<j, i>> \in R)
    BY <1>1, WFMin
<1>4. ASSUME NEW j \in S PROVE i <= j
  <2>1. i \in Nat /\ j \in Nat /\ ~(j < i)
      BY <1>2, <1>3
  <2>2. QED
      BY <2>1
<1>5. QED
    BY <1>4

\* Numbers of a set up to one of them: how many tells which one it is.
LEMMA RanksDiffer ==
    ASSUME NEW S, S \subseteq Nat, IsFiniteSet(S), NEW m \in S, NEW n \in S, m # n
    PROVE  /\ Cardinality({k \in S : k <= m}) \in 1 .. Cardinality(S)
           /\ Cardinality({k \in S : k <= m}) # Cardinality({k \in S : k <= n})
           /\ Cardinality({k \in S : k <= m}) = Cardinality(S) => n < m
<1> DEFINE Upto(x) == {k \in S : k <= x}
<1>1. m \in Nat /\ n \in Nat
    OBVIOUS
<1>2. ASSUME NEW x \in S, NEW y \in S, x < y
      PROVE  Cardinality(Upto(x)) < Cardinality(Upto(y))
  <2>1. Upto(x) \subseteq Upto(y) /\ y \in Upto(y) /\ y \notin Upto(x)
    <3>1. x \in Nat /\ y \in Nat /\ \A k \in S : k \in Nat
        OBVIOUS
    <3>2. \A k \in S : k <= x => k <= y
        BY <1>2, <3>1
    <3>3. y <= y /\ ~(y <= x)
        BY <1>2, <3>1
    <3>4. QED
        BY <3>2, <3>3
  <2>2. IsFiniteSet(Upto(y)) /\ IsFiniteSet(Upto(x))
      BY FS_Subset
  <2> HIDE DEF Upto
  <2>3. Cardinality(Upto(x)) <= Cardinality(Upto(y)) /\ Cardinality(Upto(x)) # Cardinality(Upto(y))
      BY <2>1, <2>2, FS_Subset
  <2>4. Cardinality(Upto(x)) \in Nat /\ Cardinality(Upto(y)) \in Nat
      BY <2>2, FS_CardinalityType
  <2>5. QED
      BY <2>3, <2>4
<1>3. IsFiniteSet(Upto(m)) /\ Cardinality(Upto(m)) \in Nat /\ Cardinality(Upto(n)) \in Nat
  <2>1. Upto(m) \subseteq S /\ Upto(n) \subseteq S
      OBVIOUS
  <2>2. QED
      BY <2>1, FS_Subset, FS_CardinalityType
<1>4. Cardinality(Upto(m)) # 0
  <2>1. m \in Upto(m)
      BY <1>1
  <2>2. QED
      BY <1>3, <2>1, FS_EmptySet
<1>5. Cardinality(Upto(m)) <= Cardinality(S) /\ Cardinality(S) \in Nat
  <2>1. Upto(m) \subseteq S
      OBVIOUS
  <2>2. QED
      BY <2>1, FS_Subset, FS_CardinalityType
<1>6. m < n \/ n < m
    BY <1>1
<1>7. Cardinality(Upto(m)) = Cardinality(S) => n < m
  <2> SUFFICES ASSUME Cardinality(Upto(m)) = Cardinality(S) PROVE n < m
      OBVIOUS
  <2>1. Upto(m) \subseteq S
      OBVIOUS
  <2>2. Upto(m) = S
      BY <2>1, FS_Subset
  <2>3. n <= m
      BY <2>2
  <2>4. QED
      BY <1>1, <2>3
<1>8. Cardinality(Upto(m)) # Cardinality(Upto(n))
  <2>1. Cardinality(Upto(m)) < Cardinality(Upto(n)) \/ Cardinality(Upto(n)) < Cardinality(Upto(m))
      BY <1>2, <1>6
  <2>2. QED
      BY <1>3, <2>1
<1>9. QED
    BY <1>3, <1>4, <1>5, <1>7, <1>8

\* InOrder lists each number of a finite set, and nothing else.
LEMMA InOrderIsAll ==
    ASSUME NEW S, S \subseteq Nat, IsFiniteSet(S)
    PROVE  /\ Cardinality(S) \in Nat /\ DOMAIN InOrder(S) = 1 .. Cardinality(S)
           /\ \A k \in 1 .. Cardinality(S) :
                /\ InOrder(S)[k] \in S
                /\ Cardinality({m \in S : m <= InOrder(S)[k]}) = k
           /\ \A n \in S : \E k \in 1 .. Cardinality(S) : InOrder(S)[k] = n
<1> DEFINE rank == [n \in S |-> Cardinality({m \in S : m <= n})]
<1>1. Cardinality(S) \in Nat
    BY FS_CardinalityType
<1>2. \A n \in S : rank[n] \in 1 .. Cardinality(S)
  <2> SUFFICES ASSUME NEW n \in S PROVE Cardinality({m \in S : m <= n}) \in 1 .. Cardinality(S)
      OBVIOUS
  <2>1. CASE \E m \in S : m # n
      BY <2>1, RanksDiffer
  <2>2. CASE S = {n}
    <3>1. n \in Nat
        OBVIOUS
    <3>2. {m \in S : m <= n} = {n}
        BY <2>2, <3>1
    <3>3. QED
        BY <2>2, <3>2, FS_Singleton
  <2>3. QED
      BY <2>1, <2>2
<1>3. \A m, n \in S : rank[m] = rank[n] => m = n
    BY RanksDiffer
<1>4. rank \in Injection(S, 1 .. Cardinality(S))
    BY <1>2, <1>3 DEF Injection, IsInjective
<1>5. rank \in Surjection(S, 1 .. Cardinality(S))
  <2>1. IsFiniteSet(1 .. Cardinality(S)) /\ Cardinality(1 .. Cardinality(S)) = Cardinality(S)
      BY <1>1, FS_Interval
  <2>2. QED
      BY <1>4, <2>1, FS_Injection
<1>6. \A k \in 1 .. Cardinality(S) : \E n \in S : rank[n] = k
    BY <1>5 DEF Surjection
<1>7. ASSUME NEW k \in 1 .. Cardinality(S)
      PROVE  InOrder(S)[k] \in S /\ Cardinality({m \in S : m <= InOrder(S)[k]}) = k
  <2>1. \E n \in S : Cardinality({m \in S : m <= n}) = k
      BY <1>6
  <2>2. InOrder(S)[k] = CHOOSE n \in S : Cardinality({m \in S : m <= n}) = k
      BY DEF InOrder
  <2>3. QED
      BY <2>1, <2>2
<1>8. ASSUME NEW n \in S PROVE \E k \in 1 .. Cardinality(S) : InOrder(S)[k] = n
  <2>1. rank[n] \in 1 .. Cardinality(S)
      BY <1>2
  <2>2. rank[InOrder(S)[rank[n]]] = rank[n] /\ InOrder(S)[rank[n]] \in S
      BY <1>7, <2>1
  <2>3. QED
      BY <1>3, <2>1, <2>2
<1>9. QED
    BY <1>1, <1>7, <1>8 DEF InOrder

\* A finite set of numbers that is not empty has a greatest.
LEMMA GreatestNumber ==
    ASSUME NEW S, S \subseteq Nat, IsFiniteSet(S), S # {}
    PROVE  Max(S) \in S /\ \A j \in S : j <= Max(S)
<1>1. Cardinality(S) \in 1 .. Cardinality(S)
    BY FS_CardinalityType, FS_EmptySet
<1>2. PICK n \in S : Cardinality({m \in S : m <= n}) = Cardinality(S)
    BY <1>1, InOrderIsAll
<1>3. \A j \in S : n >= j
  <2>1. \A j \in S : j # n => j < n
      BY <1>2, RanksDiffer
  <2>2. n \in Nat /\ \A j \in S : j \in Nat
      OBVIOUS
  <2>3. QED
      BY <2>1, <2>2
<1>4. Max(S) \in S /\ \A j \in S : Max(S) >= j
    BY <1>3 DEF Max
<1>5. QED
  <2>1. \A j \in S : j \in Nat
      OBVIOUS
  <2>2. QED
      BY <1>4, <2>1

-----------------------------------------------------------------------------
\* The basket: lines and the quantities that they stand for.

LineRows == [no : Nat, text : Texts, product : Products \cup {NoProduct}, qty : Nat]

LEMMA LinesInOrder ==
    ASSUME NEW lines \in Seq(LineRows)
    PROVE  /\ Len(lines) \in Nat /\ DOMAIN lines = 1 .. Len(lines)
           /\ \A i \in DOMAIN lines : lines[i] \in LineRows /\ i \in Nat
           /\ IsFiniteSet(DOMAIN lines)
<1>1. /\ Len(lines) \in Nat /\ DOMAIN lines = 1 .. Len(lines)
      /\ \A i \in DOMAIN lines : lines[i] \in LineRows /\ i \in Nat
    OBVIOUS
<1>2. IsFiniteSet(1 .. Len(lines))
    BY <1>1, FS_Interval
<1>3. QED
    BY <1>1, <1>2

\* The quantity of a product is that of one of its lines, or none.
LEMMA QuantityIsOfALine ==
    ASSUME NEW lines \in Seq(LineRows), NEW p
    PROVE  /\ Quantity(lines, p) \in Nat
           /\ \/ /\ Quantity(lines, p) = 0
                 /\ \A i \in DOMAIN lines : lines[i].product # p
              \/ \E i \in DOMAIN lines : lines[i].product = p /\ Quantity(lines, p) = lines[i].qty
<1> DEFINE its == {i \in DOMAIN lines : lines[i].product = p}
<1>1. its \subseteq Nat /\ IsFiniteSet(its)
  <2>1. its \subseteq DOMAIN lines
      OBVIOUS
  <2>2. QED
      BY <2>1, LinesInOrder, FS_Subset
<1>2. Quantity(lines, p) = IF its = {} THEN 0 ELSE lines[Max(its)].qty
    BY DEF Quantity
<1>3. CASE its = {}
    BY <1>2, <1>3
<1>4. CASE its # {}
  <2>1. Max(its) \in its
    <3> HIDE DEF its
    <3>1. QED
        BY <1>1, <1>4, GreatestNumber
  <2>2. lines[Max(its)] \in LineRows /\ Max(its) \in DOMAIN lines /\ lines[Max(its)].product = p
      BY <2>1, LinesInOrder
  <2>3. Quantity(lines, p) = lines[Max(its)].qty
      BY <1>2, <1>4
  <2>4. QED
      BY <2>2, <2>3 DEF LineRows
<1>5. QED
    BY <1>3, <1>4

\* Where every line of a product is at least so much, and there is one if that
\* is anything, the product's quantity is.
LEMMA QuantityAtLeast ==
    ASSUME NEW lines \in Seq(LineRows), NEW p, NEW low \in Nat,
           low > 0 => \E i \in DOMAIN lines : lines[i].product = p,
           \A i \in DOMAIN lines : lines[i].product = p => lines[i].qty >= low
    PROVE  Quantity(lines, p) >= low
<1>1. CASE \E i \in DOMAIN lines : lines[i].product = p /\ Quantity(lines, p) = lines[i].qty
    BY <1>1
<1>2. CASE Quantity(lines, p) = 0 /\ \A i \in DOMAIN lines : lines[i].product # p
  <2>1. low = 0
      BY <1>2
  <2>2. QED
      BY <1>2, <2>1
<1>3. QED
    BY <1>1, <1>2, QuantityIsOfALine

LEMMA WantedTyped ==
    ASSUME NEW lines \in Seq(LineRows)
    PROVE  Wanted(lines) \in [Products -> Nat]
BY QuantityIsOfALine DEF Wanted

LEMMA LinesFollow ==
    ASSUME NEW n \in Nat, NEW s, s = [k \in 1 .. n |-> s[k]], \A k \in 1 .. n : s[k] \in LineRows
    PROVE  s \in Seq(LineRows) /\ Len(s) = n
<1>1. s \in [1 .. n -> LineRows]
    OBVIOUS
<1>2. QED
    BY <1>1

\* A number that no line has yet.
LEMMA NextNoTyped ==
    ASSUME NEW lines \in Seq(LineRows)
    PROVE  NextNo(lines) \in Nat
<1> DEFINE nos == {lines[i].no : i \in DOMAIN lines}
<1>1. CASE lines = <<>>
    BY <1>1 DEF NextNo
<1>2. CASE lines # <<>>
  <2>1. nos \subseteq Nat /\ nos # {}
    <3>1. \A i \in DOMAIN lines : lines[i].no \in Nat
        BY LinesInOrder DEF LineRows
    <3>2. 1 \in DOMAIN lines
        BY <1>2, LinesInOrder
    <3>3. QED
        BY <3>1, <3>2
  <2>2. IsFiniteSet(nos)
    <3> DEFINE f == [i \in DOMAIN lines |-> lines[i].no]
    <3>1. f \in Surjection(DOMAIN lines, nos)
        BY DEF Surjection
    <3> HIDE DEF f, nos
    <3>2. QED
        BY <3>1, LinesInOrder, FS_Surjection
  <2>3. Max(nos) \in Nat
    <3> HIDE DEF nos
    <3>1. QED
        BY <2>1, <2>2, GreatestNumber
  <2>4. NextNo(lines) = Max(nos) + 1
      BY <1>2 DEF NextNo
  <2> HIDE DEF nos
  <2>5. QED
      BY <2>3, <2>4
<1>3. QED
    BY <1>1, <1>2

\* A list without a line is a list.
LEMMA WithoutTyped ==
    ASSUME NEW lines \in Seq(LineRows), NEW no
    PROVE  Without(lines, no) \in Seq(LineRows)
<1> DEFINE others == {i \in DOMAIN lines : lines[i].no # no}
<1>1. others \subseteq Nat /\ IsFiniteSet(others) /\ others \subseteq DOMAIN lines
  <2>1. others \subseteq DOMAIN lines
      OBVIOUS
  <2>2. QED
      BY <2>1, LinesInOrder, FS_Subset
<1>2. PICK kept : kept = InOrder(others)
    OBVIOUS
<1>3. PICK s : s = Without(lines, no)
    OBVIOUS
<1>4. s = [k \in DOMAIN kept |-> lines[kept[k]]]
    BY <1>2, <1>3 DEF Without
<1> HIDE DEF others
<1>5. /\ Cardinality(others) \in Nat /\ DOMAIN kept = 1 .. Cardinality(others)
      /\ \A k \in DOMAIN kept : kept[k] \in others
    BY <1>1, <1>2, InOrderIsAll
<1>6. \A k \in DOMAIN kept : s[k] \in LineRows
    BY <1>1, <1>4, <1>5, LinesInOrder
<1>7. QED
    BY <1>3, <1>4, <1>5, <1>6, LinesFollow

\* What is shown of a cart: a line for every product in it, with its quantity,
\* and other lines without product.
LEMMA ShownIsTheCart ==
    ASSUME NEW of \in [Products -> Nat], NEW lines \in Seq(LineRows)
    PROVE  /\ Shown(of, lines) \in Seq(LineRows)
           /\ \A i \in DOMAIN Shown(of, lines) :
                Shown(of, lines)[i].product \in Products =>
                   Shown(of, lines)[i].qty = of[Shown(of, lines)[i].product]
           /\ \A p \in Products :
                of[p] > 0 => \E i \in DOMAIN Shown(of, lines) : Shown(of, lines)[i].product = p
<1> DEFINE bought == {p \in Products : of[p] > 0}
           open == {i \in DOMAIN lines : lines[i].product = NoProduct}
<1>1. bought \subseteq Nat /\ IsFiniteSet(bought) /\ bought \subseteq Products
  <2>1. IsFiniteSet(1 .. N)
      BY BasketAssumption, FS_Interval
  <2>2. bought \subseteq 1 .. N /\ bought \subseteq Nat
      BY BasketAssumption DEF Products
  <2>3. QED
      BY <2>1, <2>2, FS_Subset DEF Products
<1>2. open \subseteq Nat /\ IsFiniteSet(open) /\ open \subseteq DOMAIN lines
  <2>1. open \subseteq DOMAIN lines
      OBVIOUS
  <2>2. QED
      BY <2>1, LinesInOrder, FS_Subset
<1>3. PICK products : products = InOrder(bought)
    OBVIOUS
<1>4. PICK texts : texts = InOrder(open)
    OBVIOUS
<1>5. PICK durable : durable = [k \in DOMAIN products |-> Line(k, products[k], products[k], of[products[k]])]
    OBVIOUS
<1>6. PICK rest : rest = [k \in DOMAIN texts |-> lines[texts[k]]]
    OBVIOUS
<1>7. Shown(of, lines) = Renumbered(durable \o rest)
    BY <1>3, <1>4, <1>5, <1>6 DEF Shown
<1>8. /\ Cardinality(bought) \in Nat /\ DOMAIN products = 1 .. Cardinality(bought)
      /\ \A k \in DOMAIN products : products[k] \in bought
      /\ \A p \in bought : \E k \in DOMAIN products : products[k] = p
  <2> HIDE DEF bought
  <2>1. QED
      BY <1>1, <1>3, InOrderIsAll
<1>9. /\ Cardinality(open) \in Nat /\ DOMAIN texts = 1 .. Cardinality(open)
      /\ \A k \in DOMAIN texts : texts[k] \in open
  <2> HIDE DEF open
  <2>1. QED
      BY <1>2, <1>4, InOrderIsAll
<1>10. /\ durable \in Seq(LineRows) /\ Len(durable) = Cardinality(bought)
       /\ \A k \in DOMAIN products :
            durable[k].product = products[k] /\ durable[k].qty = of[products[k]]
  <2>1. ASSUME NEW k \in DOMAIN products
        PROVE  /\ durable[k] \in LineRows
               /\ durable[k].product = products[k] /\ durable[k].qty = of[products[k]]
    <3>1. products[k] \in Products /\ of[products[k]] \in Nat /\ k \in Nat
        BY <1>8
    <3>2. durable[k] = [no |-> k, text |-> products[k], product |-> products[k],
                        qty |-> of[products[k]]]
        BY <1>5 DEF Line
    <3>3. QED
        BY <3>1, <3>2 DEF LineRows, Texts
  <2>2. QED
      BY <1>5, <1>8, <2>1, LinesFollow
<1>11. /\ rest \in Seq(LineRows) /\ Len(rest) = Cardinality(open)
       /\ \A k \in DOMAIN texts : rest[k].product = NoProduct
  <2>1. \A k \in DOMAIN texts : rest[k] \in LineRows /\ rest[k].product = NoProduct
      BY <1>2, <1>6, <1>9, LinesInOrder
  <2>2. QED
      BY <1>6, <1>9, <2>1, LinesFollow
<1>12. PICK all : all = durable \o rest
    OBVIOUS
<1>13. /\ all \in Seq(LineRows) /\ Len(all) = Len(durable) + Len(rest)
       /\ \A i \in 1 .. Len(all) :
            all[i] = IF i <= Len(durable) THEN durable[i] ELSE rest[i - Len(durable)]
  <2>1. durable \in Seq(LineRows) /\ rest \in Seq(LineRows)
      BY <1>10, <1>11
  <2>2. all \in Seq(LineRows)
      BY <1>12, <2>1
  <2>3. Len(all) = Len(durable) + Len(rest)
      BY <1>12, <2>1
  <2>4. ASSUME NEW i \in 1 .. Len(all)
        PROVE  all[i] = IF i <= Len(durable) THEN durable[i] ELSE rest[i - Len(durable)]
      BY <1>12, <2>1, <2>3
  <2>5. QED
      BY <2>2, <2>3, <2>4
<1>14. PICK shown : shown = Shown(of, lines)
    OBVIOUS
<1>15. shown = [i \in DOMAIN all |-> [all[i] EXCEPT !.no = i]]
    BY <1>7, <1>12, <1>14 DEF Renumbered
<1>16. ASSUME NEW i \in DOMAIN all
       PROVE  /\ shown[i] \in LineRows
              /\ shown[i].product = all[i].product /\ shown[i].qty = all[i].qty
  <2>1. all[i] \in LineRows /\ i \in Nat
      BY <1>13, LinesInOrder
  <2>2. shown[i] = [all[i] EXCEPT !.no = i]
      BY <1>15
  <2>3. QED
      BY <2>1, <2>2 DEF LineRows
<1>17. shown \in Seq(LineRows) /\ DOMAIN shown = DOMAIN all
    BY <1>13, <1>15, <1>16, LinesFollow, LinesInOrder
<1>18. ASSUME NEW i \in DOMAIN shown, shown[i].product \in Products
       PROVE  shown[i].qty = of[shown[i].product]
  <2>1. i \in 1 .. Len(all)
      BY <1>13, <1>17
  <2>2. CASE i <= Len(durable)
    <3>1. i \in DOMAIN products /\ all[i] = durable[i]
        BY <1>8, <1>10, <1>13, <2>1, <2>2
    <3>2. all[i].product = products[i] /\ all[i].qty = of[products[i]]
        BY <1>10, <3>1
    <3>3. shown[i].product = all[i].product /\ shown[i].qty = all[i].qty
        BY <1>16, <1>17
    <3>4. QED
        BY <3>2, <3>3
  <2>3. CASE ~(i <= Len(durable))
    <3>1. i - Len(durable) \in DOMAIN texts /\ all[i] = rest[i - Len(durable)]
        BY <1>9, <1>10, <1>11, <1>13, <2>1, <2>3
    <3>2. shown[i].product = NoProduct
        BY <1>11, <1>16, <1>17, <3>1
    <3>3. NoProduct \notin Products
        BY DEF NoProduct, Products
    <3>4. QED
        BY <1>18, <3>2, <3>3
  <2>4. QED
      BY <2>2, <2>3
<1>19. ASSUME NEW p \in Products, of[p] > 0 PROVE \E i \in DOMAIN shown : shown[i].product = p
  <2>1. PICK k \in DOMAIN products : products[k] = p
      BY <1>8, <1>19
  <2>2. k \in 1 .. Len(all) /\ all[k] = durable[k]
      BY <1>8, <1>10, <1>11, <1>13
  <2>3. k \in DOMAIN all /\ all[k].product = p
      BY <1>10, <1>13, <2>1, <2>2, LinesInOrder
  <2>4. shown[k].product = p /\ k \in DOMAIN shown
      BY <1>16, <1>17, <2>3
  <2>5. QED
      BY <2>4
<1>20. QED
    BY <1>14, <1>17, <1>18, <1>19

-----------------------------------------------------------------------------
\* The dialogue's states; a quantity is asked for a product.

Known == {"never", "current", "behind"}
Dialogues == {f \in [st : BasketStates, lines : Seq(LineRows), known : Known, quoted : Known,
                     about : Nat] : f.st = "qty" => f.about \in Products}

BasketInv ==
    /\ cart \in [Products -> Nat]
    /\ fsm \in Dialogues
    /\ \A picker \in pickers : picker.text \in Texts
    /\ aliases \in [Texts -> Products \cup {NoProduct}]
    /\ fsm.known = "current" => lastRead = cart

\* What the lines of another time add to the cart takes nothing from it.
LEMMA ImportOnlyAdds ==
    ASSUME BasketInv
    PROVE  /\ Imported \in [Products -> Nat]
           /\ \A p \in Products : Imported[p] >= cart[p]
<1>1. fsm.lines \in Seq(LineRows) /\ cart \in [Products -> Nat]
    BY DEF BasketInv, Dialogues
<1>2. CASE imported
    BY <1>1, <1>2 DEF Imported
<1>3. CASE ~imported
  <2>1. Imported = [p \in Products |->
            IF p \in inactive THEN cart[p] ELSE Larger(cart[p], Quantity(fsm.lines, p))]
      BY <1>3 DEF Imported
  <2>2. ASSUME NEW p \in Products
        PROVE  /\ Larger(cart[p], Quantity(fsm.lines, p)) \in Nat
               /\ Larger(cart[p], Quantity(fsm.lines, p)) >= cart[p]
    <3>1. cart[p] \in Nat /\ Quantity(fsm.lines, p) \in Nat
        BY <1>1, QuantityIsOfALine
    <3>2. \A a, b \in Nat : Larger(a, b) \in Nat /\ Larger(a, b) >= a
        BY DEF Larger
    <3>3. QED
        BY <3>1, <3>2
  <2>3. \A p \in Products : Imported[p] \in Nat /\ Imported[p] >= cart[p]
      BY <1>1, <2>1, <2>2
  <2>4. QED
      BY <2>1, <2>3
<1>4. QED
    BY <1>2, <1>3

\* Another state of the dialogue, its lines read again, or written.
LEMMA AtIsADialogue ==
    ASSUME NEW f \in Dialogues, NEW s \in BasketStates \ {"qty"}
    PROVE  /\ At(f, s) \in Dialogues /\ At(f, s).known = f.known /\ At(f, s).lines = f.lines
           /\ At(f, s).st = s
BY DEF At, Dialogues, NoProduct

LEMMA LoadedIsADialogue ==
    ASSUME BasketInv, NEW f \in Dialogues
    PROVE  /\ Loaded(f) \in Dialogues
           /\ Loaded(f).known = "current" /\ Loaded(f).st = f.st /\ Loaded(f).about = f.about
           /\ Loaded(f).lines = Shown(Imported, f.lines)
<1>1. PICK shown : shown = Shown(Imported, f.lines)
    OBVIOUS
<1>2. PICK quoted : quoted = Outdated(f.quoted, Imported # cart)
    OBVIOUS
<1>3. Loaded(f) = [f EXCEPT !.lines = shown, !.known = "current", !.quoted = quoted]
    BY <1>1, <1>2 DEF Loaded
<1>4. f.lines \in Seq(LineRows) /\ f.quoted \in Known
    BY DEF Dialogues
<1>5. shown \in Seq(LineRows)
    BY <1>1, <1>4, ImportOnlyAdds, ShownIsTheCart
<1>6. quoted \in Known
    BY <1>2, <1>4 DEF Outdated, Known
<1>7. QED
    BY <1>1, <1>3, <1>5, <1>6 DEF Dialogues, Known

LEMMA LinesOfADialogue ==
    ASSUME NEW f \in Dialogues, NEW lines \in Seq(LineRows)
    PROVE  /\ [f EXCEPT !.lines = lines] \in Dialogues
           /\ [f EXCEPT !.lines = lines].known = f.known
BY DEF Dialogues

LEMMA RelinedIsADialogue ==
    ASSUME NEW f \in Dialogues, NEW lines \in Seq(LineRows), NEW quoted \in Known
    PROVE  /\ [f EXCEPT !.lines = lines, !.quoted = quoted] \in Dialogues
           /\ [f EXCEPT !.known = "current", !.quoted = quoted] \in Dialogues
           /\ [f EXCEPT !.quoted = quoted] \in Dialogues
BY DEF Dialogues, Known

\* Pickers and phrasings that a step leaves well formed.
NamesTyped ==
    /\ \A picker \in pickers : picker.text \in Texts
    /\ aliases \in [Texts -> Products \cup {NoProduct}]

LEMMA LoadKeeps ==
    ASSUME BasketInv, NEW f \in Dialogues, Load(f), NamesTyped'
    PROVE  BasketInv'
BY ImportOnlyAdds DEF BasketInv, Load, NamesTyped

LEMMA PersistKeeps ==
    ASSUME BasketInv, NEW lines \in Seq(LineRows), NEW written \in Dialogues,
           NEW refused \in Dialogues, Persist(lines, written, refused), NamesTyped'
    PROVE  BasketInv'
<1>1. CASE Refused(lines)
    BY <1>1, LoadKeeps DEF Persist
<1>2. CASE ~Refused(lines)
  <2>1. /\ cart' = Wanted(lines) /\ lastRead' = Wanted(lines)
        /\ fsm' = [written EXCEPT !.known = "current", !.quoted = "never"]
      BY <1>2 DEF Persist
  <2>2. "never" \in Known
      BY DEF Known
  <2>3. fsm' \in Dialogues
      BY <2>1, <2>2, RelinedIsADialogue
  <2>4. QED
      BY <2>1, <2>3, WantedTyped DEF BasketInv, NamesTyped
<1>3. QED
    BY <1>1, <1>2

\* The product that a phrase is taken for.
LEMMA MatchTyped ==
    ASSUME BasketInv, NEW q \in Phrases
    PROVE  Match(q).product \in Products \cup {NoProduct} /\ q \in Texts
BY BasketAssumption DEF Match, BasketInv, Texts

LEMMA NewLineTyped ==
    ASSUME BasketInv, NEW q \in Phrases, NEW n \in Quantities, NEW lines \in Seq(LineRows)
    PROVE  Append(lines, Line(NextNo(lines), q, Match(q).product, n)) \in Seq(LineRows)
<1>1. NextNo(lines) \in Nat /\ Match(q).product \in Products \cup {NoProduct} /\ q \in Texts /\ n \in Nat
    BY NextNoTyped, MatchTyped, BasketAssumption
<1>2. Line(NextNo(lines), q, Match(q).product, n) \in LineRows
    BY <1>1 DEF Line, LineRows
<1>3. QED
    BY <1>2

LEMMA BasketInitially == BasketInit => BasketInv
<1> SUFFICES ASSUME BasketInit PROVE BasketInv
    OBVIOUS
<1>1. PICK lines \in {<<>>, <<Line(1, N, N, 1)>>} : fsm = [Cleared EXCEPT !.lines = lines]
    BY DEF BasketInit
<1>2. lines \in Seq(LineRows)
  <2>1. N \in Products
      BY BasketAssumption DEF Products
  <2>2. Line(1, N, N, 1) \in LineRows
      BY <2>1 DEF Line, LineRows, Texts
  <2>3. PICK line \in LineRows : line = Line(1, N, N, 1)
      BY <2>2
  <2>4. lines = <<>> \/ lines = <<line>>
      BY <1>1, <2>3
  <2>5. <<>> \in Seq(LineRows) /\ <<line>> \in Seq(LineRows)
      OBVIOUS
  <2>6. QED
      BY <2>4, <2>5
<1>3. Cleared \in Dialogues /\ Cleared.known = "never"
    BY DEF Cleared, Dialogues, BasketStates, Known, NoProduct
<1>4. fsm \in Dialogues /\ fsm.known = "never"
    BY <1>1, <1>2, <1>3, LinesOfADialogue
<1>5. QED
    BY <1>4 DEF BasketInit, BasketInv, EmptyCart

\* Handlers that write the cart.
LEMMA NewTextKeeps ==
    ASSUME BasketInv, NEW q \in Phrases, NEW n \in Quantities, NewText(q, n)
    PROVE  BasketInv'
<1>1. PICK f : f = Loaded(fsm)
    OBVIOUS
<1>2. PICK all : all = Append(f.lines, Line(NextNo(f.lines), q, Match(q).product, n))
    OBVIOUS
<1>3. /\ \/ Load(f) /\ UNCHANGED pickers
         \/ /\ cart' = Wanted(all) /\ lastRead' = Wanted(all)
            /\ fsm' = [At(f, "list") EXCEPT !.lines = all, !.quoted = "never"]
            /\ pickers' = IF Match(q).ask THEN pickers \cup {[no |-> Len(all), text |-> q]}
                          ELSE pickers
      /\ UNCHANGED <<inactive, aliases>>
    BY <1>1, <1>2 DEF NewText
<1>4. f \in Dialogues /\ f.lines \in Seq(LineRows)
    BY <1>1, LoadedIsADialogue DEF BasketInv, Dialogues
<1>5. q \in Texts
    BY MatchTyped
<1>6. NamesTyped'
    BY <1>3, <1>5 DEF NamesTyped, BasketInv
<1>7. CASE Load(f)
    BY <1>4, <1>6, <1>7, LoadKeeps
<1>8. CASE /\ cart' = Wanted(all) /\ lastRead' = Wanted(all)
           /\ fsm' = [At(f, "list") EXCEPT !.lines = all, !.quoted = "never"]
  <2>1. all \in Seq(LineRows)
      BY <1>2, <1>4, NewLineTyped
  <2>2. At(f, "list") \in Dialogues
      BY <1>4, AtIsADialogue DEF BasketStates
  <2>3. fsm' \in Dialogues
      BY <1>8, <2>1, <2>2, RelinedIsADialogue DEF Known
  <2>4. QED
      BY <1>6, <1>8, <2>1, <2>3, WantedTyped DEF BasketInv, NamesTyped
<1>9. QED
    BY <1>3, <1>7, <1>8

LEMMA RewriteKeeps ==
    ASSUME BasketInv, NEW q \in Phrases, NEW n \in Quantities, Rewrite(q, n)
    PROVE  BasketInv'
<1>1. PICK remaining : remaining = Without(fsm.lines, fsm.about)
    OBVIOUS
<1>2. PICK f : f = [fsm EXCEPT !.lines = remaining, !.about = NoProduct]
    OBVIOUS
<1>3. PICK new : new = Line(NextNo(remaining), q, Match(q).product, n)
    OBVIOUS
<1>4. PICK all : all = Append(remaining, new)
    OBVIOUS
<1>5. /\ fsm.st = "editing"
      /\ Persist(all, [At(f, "list") EXCEPT !.lines = all], Loaded(f))
      /\ pickers' = IF Match(q).ask /\ ~ Refused(all)
                    THEN pickers \cup {[no |-> new.no, text |-> q]} ELSE pickers
      /\ UNCHANGED <<inactive, aliases>>
    BY <1>1, <1>2, <1>3, <1>4 DEF Rewrite, Understood
<1>6. fsm \in Dialogues /\ fsm.lines \in Seq(LineRows)
    BY DEF BasketInv, Dialogues
<1>7. remaining \in Seq(LineRows)
    BY <1>1, <1>6, WithoutTyped
<1>8. f \in Dialogues
    BY <1>2, <1>5, <1>6, <1>7 DEF Dialogues, NoProduct
<1>9. all \in Seq(LineRows)
    BY <1>3, <1>4, <1>7, NewLineTyped
<1>10. [At(f, "list") EXCEPT !.lines = all] \in Dialogues
  <2>1. At(f, "list") \in Dialogues
      BY <1>8, AtIsADialogue DEF BasketStates
  <2>2. QED
      BY <1>9, <2>1, LinesOfADialogue
<1>11. Loaded(f) \in Dialogues
    BY <1>8, LoadedIsADialogue
<1>12. NamesTyped'
    BY <1>5, MatchTyped DEF NamesTyped, BasketInv
<1>13. QED
    BY <1>5, <1>9, <1>10, <1>11, <1>12, PersistKeeps

LEMMA PickKeeps ==
    ASSUME BasketInv, NEW picker \in pickers, PickCandidate(picker)
    PROVE  BasketInv'
<1>1. PICK chosen : chosen = IF picker.text \in Phrases THEN Meant[picker.text] ELSE picker.text
    OBVIOUS
<1>2. PICK named : named = {i \in DOMAIN fsm.lines : fsm.lines[i].no = picker.no}
    OBVIOUS
<1>3. PICK lines : lines = [i \in DOMAIN fsm.lines |->
                              IF i \in named THEN [fsm.lines[i] EXCEPT !.product = chosen]
                              ELSE fsm.lines[i]]
    OBVIOUS
<1>4. /\ aliases' = [t \in Texts |->
                       IF aliases[t] = NoProduct /\ \E i \in named : fsm.lines[i].text = t
                       THEN chosen ELSE aliases[t]]
      /\ Persist(lines, [fsm EXCEPT !.lines = lines], Loaded(fsm))
      /\ UNCHANGED <<inactive, pickers>>
    BY <1>1, <1>2, <1>3 DEF PickCandidate
<1>5. chosen \in Products
  <2>1. picker.text \in Texts
      BY DEF BasketInv
  <2>2. QED
      BY <1>1, <2>1, BasketAssumption DEF Texts
<1>6. fsm \in Dialogues /\ fsm.lines \in Seq(LineRows)
    BY DEF BasketInv, Dialogues
<1>7. lines \in Seq(LineRows)
  <2>1. ASSUME NEW i \in DOMAIN fsm.lines PROVE lines[i] \in LineRows
    <3>1. fsm.lines[i] \in LineRows
        BY <1>6, LinesInOrder
    <3>2. [fsm.lines[i] EXCEPT !.product = chosen] \in LineRows
        BY <1>5, <3>1 DEF LineRows
    <3>3. QED
        BY <1>3, <3>1, <3>2
  <2>2. Len(fsm.lines) \in Nat /\ DOMAIN fsm.lines = 1 .. Len(fsm.lines)
      BY <1>6, LinesInOrder
  <2>3. lines = [i \in 1 .. Len(fsm.lines) |-> lines[i]]
      BY <1>3, <2>2
  <2>4. QED
      BY <2>1, <2>2, <2>3, LinesFollow
<1>8. [fsm EXCEPT !.lines = lines] \in Dialogues /\ Loaded(fsm) \in Dialogues
    BY <1>6, <1>7, LinesOfADialogue, LoadedIsADialogue
<1>9. NamesTyped'
  <2>1. \A t \in Texts : aliases[t] \in Products \cup {NoProduct}
      BY DEF BasketInv
  <2>2. aliases' \in [Texts -> Products \cup {NoProduct}]
      BY <1>4, <1>5, <2>1
  <2>3. QED
      BY <1>4, <2>2 DEF NamesTyped, BasketInv
<1>10. QED
    BY <1>4, <1>7, <1>8, <1>9, PersistKeeps

\* The lines after a quantity was given for a product: it has at least what
\* there was, and everything else what it had.
LEMMA QuantityGiven ==
    ASSUME BasketInv, NEW n \in Quantities, ProductQty(n)
    PROVE  \/ Load(Loaded(fsm))
           \/ \E lines \in Seq(LineRows) :
                /\ cart' = Wanted(lines) /\ lastRead' = Wanted(lines)
                /\ fsm' = [At(Loaded(fsm), "list") EXCEPT !.lines = lines, !.quoted = "never"]
                /\ \A x \in Products : Quantity(lines, x) >= Imported[x]
<1>1. PICK f : f = Loaded(fsm)
    OBVIOUS
<1>2. PICK p : p = f.about
    OBVIOUS
<1>3. PICK has : has = {i \in DOMAIN f.lines : f.lines[i].product = p}
    OBVIOUS
<1>4. PICK sum : sum = n + Imported[p]
    OBVIOUS
<1>5. PICK lines : lines = IF has = {} THEN Append(f.lines, Line(NextNo(f.lines), p, p, n))
                           ELSE [i \in DOMAIN f.lines |->
                                   IF i = Min(has) THEN [f.lines[i] EXCEPT !.qty = sum]
                                   ELSE f.lines[i]]
    OBVIOUS
<1>6. /\ fsm.st = "qty"
      /\ \/ Load(f)
         \/ /\ cart' = Wanted(lines) /\ lastRead' = Wanted(lines)
            /\ fsm' = [At(f, "list") EXCEPT !.lines = lines, !.quoted = "never"]
    BY <1>1, <1>2, <1>3, <1>4, <1>5 DEF ProductQty
<1>7. fsm \in Dialogues /\ fsm.lines \in Seq(LineRows)
    BY DEF BasketInv, Dialogues
<1>8. p \in Products /\ f.lines = Shown(Imported, fsm.lines)
  <2>1. f.about = fsm.about /\ f.lines = Shown(Imported, fsm.lines)
      BY <1>1, <1>7, LoadedIsADialogue
  <2>2. QED
      BY <1>2, <1>6, <1>7, <2>1 DEF Dialogues
<1>9. /\ f.lines \in Seq(LineRows)
      /\ \A i \in DOMAIN f.lines : f.lines[i].product \in Products =>
            f.lines[i].qty = Imported[f.lines[i].product]
      /\ \A x \in Products : Imported[x] > 0 => \E i \in DOMAIN f.lines : f.lines[i].product = x
    BY <1>7, <1>8, ImportOnlyAdds, ShownIsTheCart
<1>10. n \in Nat /\ \A x \in Products : Imported[x] \in Nat
    BY BasketAssumption, ImportOnlyAdds
<1>11. sum \in Nat /\ sum >= Imported[p]
    BY <1>4, <1>8, <1>10
<1>12. CASE has = {}
  <2>1. PICK new : new = Line(NextNo(f.lines), p, p, n)
      OBVIOUS
  <2>2. new \in LineRows /\ new.product = p
      BY <1>8, <1>9, <1>10, <2>1, NextNoTyped DEF Line, LineRows, Texts
  <2>3. lines = Append(f.lines, new)
      BY <1>5, <1>12, <2>1
  <2>4. /\ lines \in Seq(LineRows)
        /\ DOMAIN lines = 1 .. (Len(f.lines) + 1)
        /\ \A i \in DOMAIN f.lines : i \in DOMAIN lines /\ lines[i] = f.lines[i]
        /\ lines[Len(f.lines) + 1] = new
        /\ DOMAIN f.lines = 1 .. Len(f.lines) /\ Len(f.lines) \in Nat
      BY <1>9, <2>2, <2>3
  <2>5. Imported[p] = 0
      BY <1>3, <1>8, <1>9, <1>10, <1>12
  <2>6. ASSUME NEW x \in Products PROVE Quantity(lines, x) >= Imported[x]
    <3>1. CASE x = p
        BY <2>4, <2>5, <3>1, QuantityIsOfALine
    <3>2. CASE x # p
      <4>1. ASSUME NEW i \in DOMAIN lines, lines[i].product = x PROVE lines[i].qty >= Imported[x]
        <5>1. i # Len(f.lines) + 1
            BY <2>2, <2>4, <3>2, <4>1
        <5>2. i \in DOMAIN f.lines /\ lines[i] = f.lines[i]
            BY <2>4, <5>1
        <5>3. lines[i].qty = Imported[x]
            BY <1>9, <4>1, <5>2
        <5>4. QED
            BY <1>10, <5>3
      <4>2. Imported[x] > 0 => \E i \in DOMAIN lines : lines[i].product = x
          BY <1>9, <2>4
      <4>3. QED
          BY <1>10, <2>4, <4>1, <4>2, QuantityAtLeast
    <3>3. QED
        BY <3>1, <3>2
  <2>7. QED
      BY <1>1, <1>6, <2>4, <2>6
<1>13. CASE has # {}
  <2>1. Min(has) \in has
    <3>1. has \subseteq Nat
        BY <1>3, <1>9, LinesInOrder
    <3>2. QED
        BY <1>13, <3>1, LeastNumber DEF Min
  <2>2. lines = [i \in DOMAIN f.lines |-> IF i = Min(has) THEN [f.lines[i] EXCEPT !.qty = sum]
                                          ELSE f.lines[i]]
      BY <1>5, <1>13
  <2>3. ASSUME NEW i \in DOMAIN f.lines
        PROVE  /\ lines[i] \in LineRows /\ lines[i].product = f.lines[i].product
               /\ \/ lines[i].qty = f.lines[i].qty
                  \/ lines[i].product = p /\ lines[i].qty = sum
    <3>1. f.lines[i] \in LineRows
        BY <1>9, LinesInOrder
    <3>2. CASE i = Min(has)
      <4>1. lines[i] = [f.lines[i] EXCEPT !.qty = sum] /\ f.lines[i].product = p
          BY <1>3, <2>1, <2>2, <3>2
      <4>2. QED
          BY <1>11, <3>1, <4>1 DEF LineRows
    <3>3. CASE i # Min(has)
        BY <2>2, <3>1, <3>3
    <3>4. QED
        BY <3>2, <3>3
  <2>4. lines \in Seq(LineRows) /\ DOMAIN lines = DOMAIN f.lines
    <3>1. Len(f.lines) \in Nat /\ DOMAIN f.lines = 1 .. Len(f.lines)
        BY <1>9, LinesInOrder
    <3>2. lines = [i \in 1 .. Len(f.lines) |-> lines[i]]
        BY <2>2, <3>1
    <3>3. lines \in Seq(LineRows)
        BY <2>3, <3>1, <3>2, LinesFollow
    <3>4. QED
        BY <2>2, <3>3
  <2>5. ASSUME NEW x \in Products PROVE Quantity(lines, x) >= Imported[x]
    <3>1. ASSUME NEW i \in DOMAIN lines, lines[i].product = x PROVE lines[i].qty >= Imported[x]
      <4>1. f.lines[i].product = x /\ f.lines[i].qty = Imported[x]
          BY <1>9, <2>3, <2>4, <3>1
      <4>2. CASE lines[i].qty = f.lines[i].qty
          BY <1>10, <4>1, <4>2
      <4>3. CASE lines[i].product = p /\ lines[i].qty = sum
          BY <1>11, <3>1, <4>3
      <4>4. QED
          BY <2>3, <2>4, <4>2, <4>3
    <3>2. Imported[x] > 0 => \E i \in DOMAIN lines : lines[i].product = x
        BY <1>9, <2>3, <2>4
    <3>3. QED
        BY <1>10, <2>4, <3>1, <3>2, QuantityAtLeast
  <2>6. QED
      BY <1>1, <1>6, <2>4, <2>5
<1>14. QED
    BY <1>12, <1>13

LEMMA QuantityKeeps ==
    ASSUME BasketInv, NEW n \in Quantities, ProductQty(n)
    PROVE  BasketInv'
<1>1. UNCHANGED <<inactive, pickers, aliases>>
    BY DEF ProductQty
<1>2. NamesTyped'
    BY <1>1 DEF NamesTyped, BasketInv
<1>3. Loaded(fsm) \in Dialogues
    BY LoadedIsADialogue DEF BasketInv
<1>4. CASE Load(Loaded(fsm))
    BY <1>2, <1>3, <1>4, LoadKeeps
<1>5. ASSUME NEW lines \in Seq(LineRows), cart' = Wanted(lines), lastRead' = Wanted(lines),
             fsm' = [At(Loaded(fsm), "list") EXCEPT !.lines = lines, !.quoted = "never"]
      PROVE  BasketInv'
  <2>1. At(Loaded(fsm), "list") \in Dialogues
      BY <1>3, AtIsADialogue DEF BasketStates
  <2>2. fsm' \in Dialogues
      BY <1>5, <2>1, RelinedIsADialogue DEF Known
  <2>3. QED
      BY <1>2, <1>5, <2>2, WantedTyped DEF BasketInv, NamesTyped
<1>6. QED
    BY <1>4, <1>5, QuantityGiven

\* Handlers that take lines away.
LEMMA RemovesKeep ==
    ASSUME BasketInv, Removes
    PROVE  BasketInv'
<1>1. fsm \in Dialogues /\ fsm.lines \in Seq(LineRows) /\ Loaded(fsm) \in Dialogues
    BY LoadedIsADialogue DEF BasketInv, Dialogues
<1>2. At(fsm, "list") \in Dialogues
    BY <1>1, AtIsADialogue DEF BasketStates
<1>3. CASE ClearBasket
  <2>1. /\ Persist(<<>>, [At(fsm, "list") EXCEPT !.lines = <<>>], Loaded(fsm))
        /\ UNCHANGED <<inactive, pickers, aliases>>
      BY <1>3 DEF ClearBasket
  <2>2. <<>> \in Seq(LineRows)
      OBVIOUS
  <2>3. [At(fsm, "list") EXCEPT !.lines = <<>>] \in Dialogues
      BY <1>2, <2>2, LinesOfADialogue
  <2>4. NamesTyped'
      BY <2>1 DEF NamesTyped, BasketInv
  <2>5. QED
      BY <1>1, <2>1, <2>2, <2>3, <2>4, PersistKeeps
<1>4. ASSUME NEW no, DeleteLine(no) PROVE BasketInv'
  <2>1. PICK remaining : remaining = Without(fsm.lines, no)
      OBVIOUS
  <2>2. PICK f : f = IF remaining = <<>> THEN At(fsm, "list") ELSE fsm
      OBVIOUS
  <2>3. /\ Persist(remaining, [f EXCEPT !.lines = remaining], Loaded(fsm))
        /\ UNCHANGED <<inactive, pickers, aliases>>
      BY <1>4, <2>1, <2>2 DEF DeleteLine
  <2>4. remaining \in Seq(LineRows) /\ f \in Dialogues
      BY <1>1, <1>2, <2>1, <2>2, WithoutTyped
  <2>5. NamesTyped'
      BY <2>3 DEF NamesTyped, BasketInv
  <2>6. QED
      BY <1>1, <2>3, <2>4, <2>5, LinesOfADialogue, PersistKeeps
<1>5. QED
    BY <1>3, <1>4 DEF Removes

\* Handlers that read the cart.
LEMMA ReadsAreLoads ==
    ASSUME BasketInv, Reads
    PROVE  /\ UNCHANGED <<pickers, aliases>>
           /\ \/ \E f \in Dialogues : Load(f)
              \/ /\ UNCHANGED <<cart, lastRead>>
                 /\ fsm' \in Dialogues /\ fsm'.known = fsm.known
<1>1. fsm \in Dialogues /\ fsm.lines \in Seq(LineRows) /\ Loaded(fsm) \in Dialogues
    BY LoadedIsADialogue DEF BasketInv, Dialogues
<1>2. \A s \in {"list", "elsewhere"} : At(Loaded(fsm), s) \in Dialogues
    BY <1>1, AtIsADialogue DEF BasketStates
<1>3. CASE Chatter \/ BackToBasket
  <2>1. /\ Load(IF Loaded(fsm).lines = <<>> THEN Loaded(fsm) ELSE At(Loaded(fsm), "list"))
        /\ UNCHANGED <<pickers, aliases>>
      BY <1>3 DEF Chatter, BackToBasket
  <2>2. QED
      BY <1>1, <1>2, <2>1
<1>4. CASE AddItem
    BY <1>2, <1>4 DEF AddItem
<1>5. CASE CalculateQuotes
  <2>1. [Loaded(fsm) EXCEPT !.quoted = "current"] \in Dialogues
      BY <1>1, RelinedIsADialogue DEF Known
  <2>2. /\ UNCHANGED <<pickers, aliases>>
        /\ \/ Load(Loaded(fsm))
           \/ Load([Loaded(fsm) EXCEPT !.quoted = "current"])
           \/ Load(At(Loaded(fsm), "elsewhere"))
      BY <1>5 DEF CalculateQuotes
  <2>3. QED
      BY <1>1, <1>2, <2>1, <2>2
<1>6. CASE RewriteChatter
  <2>1. PICK remaining : remaining = Without(fsm.lines, fsm.about)
      OBVIOUS
  <2>2. PICK s : s = IF remaining = <<>> THEN fsm.st ELSE "list"
      OBVIOUS
  <2>3. PICK f : f = [At(fsm, s) EXCEPT !.lines = remaining]
      OBVIOUS
  <2>4. /\ fsm.st = "editing"
        /\ Load(Loaded(f)) \/ (fsm' = f /\ UNCHANGED <<cart, imported, lastRead>>)
        /\ UNCHANGED <<inactive, pickers, aliases>>
      BY <1>6, <2>1, <2>2, <2>3 DEF RewriteChatter
  <2>5. s \in BasketStates \ {"qty"}
      BY <2>2, <2>4 DEF BasketStates
  <2>6. f \in Dialogues /\ f.known = fsm.known
      BY <1>1, <2>1, <2>3, <2>5, AtIsADialogue, WithoutTyped, LinesOfADialogue
  <2>7. QED
      BY <2>4, <2>6, LoadedIsADialogue
<1>7. QED
    BY <1>3, <1>4, <1>5, <1>6 DEF Reads

LEMMA ReadsKeep ==
    ASSUME BasketInv, Reads
    PROVE  BasketInv'
<1>1. NamesTyped'
    BY ReadsAreLoads DEF NamesTyped, BasketInv
<1>2. CASE \E f \in Dialogues : Load(f)
    BY <1>1, <1>2, LoadKeeps
<1>3. CASE UNCHANGED <<cart, lastRead>> /\ fsm' \in Dialogues /\ fsm'.known = fsm.known
    BY <1>1, <1>3 DEF BasketInv, NamesTyped
<1>4. QED
    BY <1>2, <1>3, ReadsAreLoads

\* The buttons that only lead on, the order and the website.
LEMMA TurnsKeep ==
    ASSUME BasketInv, Turns \/ OrderQuoted \/ Web \/ \E p \in Retired : Deactivate(p)
    PROVE  BasketInv'
<1>1. fsm \in Dialogues /\ NoProduct \in Nat
    BY DEF BasketInv, NoProduct
<1>2. Cleared \in Dialogues /\ Cleared.known = "never"
    BY DEF Cleared, Dialogues, BasketStates, Known, NoProduct
<1>3. CASE SendList
    BY <1>1, <1>3, AtIsADialogue DEF SendList, BasketInv, BasketStates
<1>4. CASE BackToMenu
    BY <1>2, <1>4 DEF BackToMenu, BasketInv
<1>5. ASSUME NEW no \in 1 .. MaxLines, EditLine(no) PROVE BasketInv'
  <2>1. At(fsm, "editing") \in Dialogues /\ At(fsm, "editing").known = fsm.known
        /\ At(fsm, "editing").st = "editing"
      BY <1>1, AtIsADialogue DEF BasketStates
  <2>2. no \in Nat
      OBVIOUS
  <2>3. [At(fsm, "editing") EXCEPT !.about = no] \in Dialogues
        /\ [At(fsm, "editing") EXCEPT !.about = no].known = fsm.known
      BY <2>1, <2>2 DEF Dialogues
  <2>4. QED
      BY <1>5, <2>3 DEF EditLine, BasketInv
<1>6. ASSUME NEW p \in Products, PriceAdd(p) PROVE BasketInv'
  <2>1. p \in Nat
      BY DEF Products
  <2>2. fsm' = [fsm EXCEPT !.st = "qty", !.about = p]
      BY <1>1, <1>6 DEF PriceAdd, At, Dialogues
  <2>3. fsm' \in Dialogues /\ fsm'.known = fsm.known
      BY <1>1, <2>1, <2>2 DEF Dialogues, BasketStates
  <2>4. QED
      BY <1>6, <2>3 DEF PriceAdd, BasketInv
<1>7. CASE OrderQuoted
    BY <1>2, <1>7 DEF OrderQuoted, BasketInv, EmptyCart
<1>8. ASSUME NEW p \in Products, NEW n \in Quantities \cup {0}, WebEdit(p, n) PROVE BasketInv'
  <2>1. PICK known : known = IF fsm.known = "current" THEN "behind" ELSE fsm.known
      OBVIOUS
  <2>2. PICK quoted : quoted = Outdated(fsm.quoted, TRUE)
      OBVIOUS
  <2>3. /\ fsm' = [fsm EXCEPT !.known = known, !.quoted = quoted]
        /\ cart' = [cart EXCEPT ![p] = n]
        /\ UNCHANGED <<pickers, aliases>>
      BY <1>8, <2>1, <2>2 DEF WebEdit
  <2>4. known \in Known \ {"current"} /\ quoted \in Known
      BY <1>1, <2>1, <2>2 DEF Dialogues, Known, Outdated
  <2>5. fsm' \in Dialogues /\ fsm'.known = known
      BY <1>1, <2>3, <2>4 DEF Dialogues
  <2>6. n \in Nat
      BY BasketAssumption
  <2>7. QED
      BY <2>3, <2>4, <2>5, <2>6 DEF BasketInv
<1>9. ASSUME NEW p, Deactivate(p) PROVE BasketInv'
    BY <1>9 DEF Deactivate, BasketInv
<1>10. QED
    BY <1>3, <1>4, <1>5, <1>6, <1>7, <1>8, <1>9 DEF Turns, Web

LEMMA BasketConsecution == BasketInv /\ [BasketNext]_basketVars => BasketInv'
<1> SUFFICES ASSUME BasketInv, [BasketNext]_basketVars PROVE BasketInv'
    OBVIOUS
<1>1. CASE UNCHANGED basketVars
    BY <1>1 DEF basketVars, BasketInv
<1>2. CASE Asks
    BY <1>2, NewTextKeeps, RewriteKeeps, PickKeeps, QuantityKeeps DEF Asks
<1>3. QED
    BY <1>1, <1>2, ReadsKeep, RemovesKeep, TurnsKeep DEF BasketNext, BasketBot

\* Every state of the basket dialogue is one that BasketInv describes.
THEOREM BasketInvariance == BasketSpec => []BasketInv
BY BasketInitially, BasketConsecution, PTL DEF BasketSpec

-----------------------------------------------------------------------------
\* A handler of a dialogue that is behind only reads the cart, or writes more
\* into it than there was.

LEMMA LoadOnlyAdds ==
    ASSUME BasketInv, NEW f, Load(f), NEW p \in Products
    PROVE  cart'[p] >= cart[p]
BY ImportOnlyAdds DEF Load

LEMMA TextOnlyAdds ==
    ASSUME BasketInv, NEW q \in Phrases, NEW n \in Quantities, NewText(q, n),
           NEW p \in Products, Match(q).product # p
    PROVE  cart'[p] >= cart[p]
<1>1. PICK f : f = Loaded(fsm)
    OBVIOUS
<1>2. PICK new : new = Line(NextNo(f.lines), q, Match(q).product, n)
    OBVIOUS
<1>3. PICK all : all = Append(f.lines, new)
    OBVIOUS
<1>4. Load(f) \/ cart' = Wanted(all)
    BY <1>1, <1>2, <1>3 DEF NewText
<1>5. fsm \in Dialogues /\ fsm.lines \in Seq(LineRows)
    BY DEF BasketInv, Dialogues
<1>6. f.lines = Shown(Imported, fsm.lines)
    BY <1>1, <1>5, LoadedIsADialogue
<1>7. /\ f.lines \in Seq(LineRows)
      /\ \A i \in DOMAIN f.lines : f.lines[i].product \in Products =>
            f.lines[i].qty = Imported[f.lines[i].product]
      /\ Imported[p] > 0 => \E i \in DOMAIN f.lines : f.lines[i].product = p
    BY <1>5, <1>6, ImportOnlyAdds, ShownIsTheCart
<1>8. all \in Seq(LineRows) /\ new \in LineRows /\ new.product # p
  <2>1. NextNo(f.lines) \in Nat /\ n \in Nat
      BY <1>7, NextNoTyped, BasketAssumption
  <2>2. new \in LineRows /\ new.product # p
      BY <1>2, <2>1, MatchTyped DEF Line, LineRows
  <2>3. QED
      BY <1>3, <1>7, <2>2
<1>9. /\ DOMAIN all = 1 .. (Len(f.lines) + 1) /\ all[Len(f.lines) + 1] = new
      /\ \A i \in DOMAIN f.lines : i \in DOMAIN all /\ all[i] = f.lines[i]
      /\ DOMAIN f.lines = 1 .. Len(f.lines) /\ Len(f.lines) \in Nat
    BY <1>3, <1>7, <1>8
<1>10. Imported[p] \in Nat /\ Imported[p] >= cart[p] /\ cart[p] \in Nat
    BY ImportOnlyAdds DEF BasketInv
<1>11. Quantity(all, p) >= Imported[p]
  <2>1. ASSUME NEW i \in DOMAIN all, all[i].product = p PROVE all[i].qty >= Imported[p]
    <3>1. i # Len(f.lines) + 1
        BY <1>8, <1>9, <2>1
    <3>2. i \in DOMAIN f.lines /\ all[i] = f.lines[i]
        BY <1>9, <3>1
    <3>3. all[i].qty = Imported[p]
        BY <1>7, <2>1, <3>2
    <3>4. QED
        BY <1>10, <3>3
  <2>2. Imported[p] > 0 => \E i \in DOMAIN all : all[i].product = p
      BY <1>7, <1>9
  <2>3. QED
      BY <1>8, <1>10, <2>1, <2>2, QuantityAtLeast
<1>12. CASE cart' = Wanted(all)
  <2>1. cart'[p] = Quantity(all, p) /\ Quantity(all, p) \in Nat
      BY <1>8, <1>12, QuantityIsOfALine DEF Wanted
  <2>2. QED
      BY <1>10, <1>11, <2>1
<1>13. QED
    BY <1>4, <1>12, LoadOnlyAdds

LEMMA BehindTakesNothing ==
    ASSUME BasketInv, fsm.known = "behind", BasketBot, NEW p \in Products,
           ~ \E q \in Phrases, n \in Quantities : Match(q).product = p /\ NewText(q, n)
    PROVE  cart'[p] >= cart[p]
<1>1. cart[p] \in Nat
    BY DEF BasketInv
<1>2. ASSUME NEW lines, NEW written, NEW refused, Persist(lines, written, refused)
      PROVE  cart'[p] >= cart[p]
    BY <1>2, LoadOnlyAdds DEF Persist, Refused
<1>3. CASE Reads
    BY <1>1, <1>3, ReadsAreLoads, LoadOnlyAdds
<1>4. CASE Turns
    BY <1>1, <1>4 DEF Turns, SendList, BackToMenu, EditLine, PriceAdd
<1>5. CASE Removes
    BY <1>2, <1>5 DEF Removes, DeleteLine, ClearBasket
<1>6. ASSUME NEW q \in Phrases, NEW n \in Quantities, NewText(q, n) PROVE cart'[p] >= cart[p]
    BY <1>6, TextOnlyAdds
<1>7. ASSUME NEW q, NEW n, Rewrite(q, n) PROVE cart'[p] >= cart[p]
    BY <1>2, <1>7 DEF Rewrite, Understood
<1>8. ASSUME NEW picker, PickCandidate(picker) PROVE cart'[p] >= cart[p]
    BY <1>2, <1>8 DEF PickCandidate
<1>9. ASSUME NEW n \in Quantities, ProductQty(n) PROVE cart'[p] >= cart[p]
  <2>1. ASSUME NEW lines \in Seq(LineRows), cart' = Wanted(lines), Quantity(lines, p) >= Imported[p]
        PROVE  cart'[p] >= cart[p]
    <3>1. cart'[p] = Quantity(lines, p) /\ Quantity(lines, p) \in Nat
        BY <2>1, QuantityIsOfALine DEF Wanted
    <3>2. Imported[p] \in Nat /\ Imported[p] >= cart[p]
        BY ImportOnlyAdds
    <3>3. QED
        BY <1>1, <2>1, <3>1, <3>2
  <2>2. QED
      BY <1>9, <2>1, LoadOnlyAdds, QuantityGiven
<1>10. QED
    BY <1>3, <1>4, <1>5, <1>6, <1>7, <1>8, <1>9 DEF BasketBot, Asks

\* Where the website changed the cart since the customer was shown it, no
\* handler of the bot lowers a quantity that its text does not name
\* (_persist_bot_cart, customer.py).
THEOREM UnseenIsNotTaken == BasketSpec => NothingUnseenIsTaken
<1>1. BasketInv /\ [BasketNext]_basketVars =>
        [cart # lastRead /\ fsm.known # "never" /\ Takes => ~ BasketBot]_basketVars
  <2> SUFFICES ASSUME BasketInv, cart # lastRead, fsm.known # "never", BasketBot
               PROVE  ~ Takes
      OBVIOUS
  <2>1. fsm.known = "behind"
      BY DEF BasketInv, Dialogues, Known
  <2>2. ASSUME NEW p \in Products, cart'[p] < cart[p],
               ~ \E q \in Phrases, n \in Quantities : Match(q).product = p /\ NewText(q, n)
        PROVE  FALSE
    <3>1. cart'[p] >= cart[p]
        BY <2>1, <2>2, BehindTakesNothing
    <3>2. cart[p] \in Nat /\ cart' \in [Products -> Nat]
        BY BasketConsecution DEF BasketInv, BasketNext
    <3>3. cart'[p] \in Nat
        BY <3>2
    <3>4. QED
        BY <2>2, <3>1, <3>2, <3>3
  <2>3. QED
      BY <2>2 DEF Takes
<1>2. QED
    BY <1>1, BasketInvariance, PTL DEF BasketSpec, NothingUnseenIsTaken

-----------------------------------------------------------------------------
\* From a quote to an order.

\* A cart that was ordered has no lines left, until somebody fills it again.
OrderedCartIsEmpty ==
    /\ placed \in [count: {0, 1}, live: {TRUE}]
    /\ full => placed.count = 0

LEMMA NothingOrderedYet == CheckoutInit => OrderedCartIsEmpty
BY DEF CheckoutInit, NothingPlaced, OrderedCartIsEmpty

LEMMA RegistrationKeeps ==
    ASSUME OrderedCartIsEmpty, Registration
    PROVE  OrderedCartIsEmpty'
<1> USE DEF OrderedCartIsEmpty
<1>1. CASE Reregister
  <2>1. placed' = [placed EXCEPT !.count = 0]
    BY <1>1 DEF Reregister
  <2>2. placed' \in [count: {0, 1}, live: {TRUE}] /\ placed'.count = 0
    BY <2>1
  <2>3. QED
    BY <2>2
<1>2. CASE Menu \/ SetLanguage \/ MyAddresses \/ ChooseDistrict
  <2>1. UNCHANGED World
    BY <1>2 DEF Menu, SetLanguage, MyAddresses, ChooseDistrict
  <2>2. QED
    BY <2>1 DEF World
<1>3. CASE RegistrationEdit \/ RegistrationOk \/ RegistrationText
  <2>1. UNCHANGED World
    BY <1>3 DEF RegistrationEdit, RegistrationOk, RegistrationText, SaveRegistration
  <2>2. QED
    BY <2>1 DEF World
<1>4. ASSUME NEW place \in Places, NEW found \in BOOLEAN, RegistrationPin(place, found)
      PROVE  OrderedCartIsEmpty'
    BY <1>4 DEF RegistrationPin, World
<1>5. QED
    BY <1>1, <1>2, <1>3, <1>4 DEF Registration

\* Confirming orders what is in the cart and leaves it empty.
LEMMA ConfirmKeeps ==
    ASSUME OrderedCartIsEmpty, Confirm
    PROVE  OrderedCartIsEmpty'
<1> USE DEF OrderedCartIsEmpty
<1>1. \/ UNCHANGED <<full, placed>>
      \/ /\ full /\ quotes.samePrice
         /\ placed' = [count |-> placed.count + 1, live |-> quotes.samePrice]
         /\ full' = FALSE
    BY DEF Confirm, Emptied
<1>2. CASE UNCHANGED <<full, placed>>
    BY <1>2
<1>3. CASE /\ full /\ quotes.samePrice
           /\ placed' = [count |-> placed.count + 1, live |-> quotes.samePrice]
           /\ full' = FALSE
  <2>1. placed.count + 1 = 1
    BY <1>3
  <2>2. QED
    BY <1>3, <2>1
<1>4. QED
    BY <1>1, <1>2, <1>3

LEMMA CheckoutStepsKeep ==
    ASSUME OrderedCartIsEmpty, CheckoutSteps
    PROVE  OrderedCartIsEmpty'
<1> USE DEF World
<1>1. CASE UNCHANGED <<full, placed>>
    BY <1>1 DEF OrderedCartIsEmpty
<1>2. CASE Calculate \/ Phone \/ NewAddress \/ AskForText
    BY <1>1, <1>2 DEF Calculate, Phone, NewAddress, AskForText
<1>3. CASE CheckoutOk \/ CheckoutText \/ Comment
    BY <1>1, <1>3 DEF CheckoutOk, CheckoutText, StoreAddress, Comment
<1>4. ASSUME NEW i, NEW place, Navigate(i) \/ Select(i, place) PROVE OrderedCartIsEmpty'
    BY <1>1, <1>4 DEF Navigate, Select
<1>5. ASSUME NEW i, PickAddress(i) PROVE OrderedCartIsEmpty'
    BY <1>1, <1>5 DEF PickAddress
<1>6. ASSUME NEW found, CheckoutPin(found) PROVE OrderedCartIsEmpty'
    BY <1>1, <1>6 DEF CheckoutPin
<1>7. CASE Confirm
    BY <1>7, ConfirmKeeps
<1>8. QED
    BY <1>2, <1>3, <1>4, <1>5, <1>6, <1>7 DEF CheckoutSteps

LEMMA ElsewhereKeeps ==
    ASSUME OrderedCartIsEmpty, Elsewhere
    PROVE  OrderedCartIsEmpty'
<1> USE DEF OrderedCartIsEmpty
<1>1. CASE CartChanges
  <2>1. placed' = [placed EXCEPT !.count = 0]
    BY <1>1 DEF CartChanges
  <2>2. placed' \in [count: {0, 1}, live: {TRUE}] /\ placed'.count = 0
    BY <2>1
  <2>3. QED
    BY <2>2
<1>2. CASE PricesChange
    BY <1>2 DEF PricesChange
<1>3. ASSUME NEW place, NEW pin, WebSaves(place, pin) PROVE OrderedCartIsEmpty'
    BY <1>3 DEF WebSaves, World
<1>4. ASSUME NEW i, WebMakesDefault(i) \/ WebDeletes(i) PROVE OrderedCartIsEmpty'
  <2>1. UNCHANGED World
    BY <1>4 DEF WebMakesDefault, WebDeletes
  <2>2. QED
    BY <2>1 DEF World
<1>5. QED
    BY <1>1, <1>2, <1>3, <1>4 DEF Elsewhere

\* A cart is ordered once, at the prices of that moment, whatever buttons stay
\* in the chat and wherever the bot stops (confirm_order, customer.py).
THEOREM CartIsOrderedOnce == CheckoutSpec => []OrderedOnceAtLivePrices
<1>1. OrderedCartIsEmpty /\ [CheckoutNext]_dialogueVars => OrderedCartIsEmpty'
  <2> SUFFICES ASSUME OrderedCartIsEmpty, [CheckoutNext]_dialogueVars
               PROVE  OrderedCartIsEmpty'
      OBVIOUS
  <2>1. CASE UNCHANGED dialogueVars
      BY <2>1 DEF dialogueVars, OrderedCartIsEmpty
  <2>2. QED
      BY <2>1, RegistrationKeeps, CheckoutStepsKeep, ElsewhereKeeps DEF CheckoutNext
<1>2. OrderedCartIsEmpty => OrderedOnceAtLivePrices
  <2>1. \A n \in {0, 1} : n <= 1
    OBVIOUS
  <2>2. QED
    BY <2>1 DEF OrderedCartIsEmpty, OrderedOnceAtLivePrices
<1>3. QED
    BY NothingOrderedYet, <1>1, <1>2, PTL DEF CheckoutSpec

-----------------------------------------------------------------------------
\* The request wizard.

RequestRows == [key : Nat, revision : Nat, contact : Answered, lines : [Goods -> Nat]]
Wizards == [st : {"none", "quantity", "contact", "district", "confirmation"}, field : Fields,
            product : Goods \cup {Unknown}, revision : Nat, key : Nat, contact : Answered]
ButtonRows == [kind : {"line", "add", "send"}, product : Goods \cup {Unknown}, qty : Nat,
               revision : Nat, key : Nat]
ToDo == [do : {"added", "ask", "clear"}, product : Goods \cup {Unknown}, revision : Nat]

\* The types that the argument needs.
EnquiryTypes ==
    /\ row \in [revision : Nat, lines : [Goods -> Nat]]
    /\ wizard \in Wizards
    /\ keyboard \subseteq ButtonRows
    /\ left \subseteq ToDo
    /\ requests \in Seq(RequestRows)

\* While the dialogue is at its confirmation, a button that would send shows
\* what the dialogue holds.  A dialogue that took a new key has no such button.
ConfirmationIsShown ==
    \A b \in keyboard :
        (b.kind = "send" /\ b.key = wizard.key /\ wizard.st = "confirmation") =>
            confirming = [key |-> wizard.key, revision |-> wizard.revision,
                          contact |-> wizard.contact]

EnquiryInv == EnquiryTypes /\ ConfirmationIsShown

\* The fields, and the first that is not known yet.
LEMMA FieldsAsked ==
    /\ Fields = {"name", "phone", "district_id", "address"}
    /\ \A contact : ~Complete(contact) => FirstUnknown(contact) \in Fields
<1>1. /\ DOMAIN FieldOrder = 1 .. 4
      /\ FieldOrder[1] = "name" /\ FieldOrder[2] = "phone"
      /\ FieldOrder[3] = "district_id" /\ FieldOrder[4] = "address"
    BY DEF FieldOrder
<1>2. Fields = {FieldOrder[i] : i \in DOMAIN FieldOrder}
    BY DEF Fields, ToSet
<1>3. Fields = {"name", "phone", "district_id", "address"}
    BY <1>1, <1>2
<1>4. ASSUME NEW contact, ~Complete(contact) PROVE FirstUnknown(contact) \in Fields
  <2> DEFINE open == {i \in DOMAIN FieldOrder : contact[FieldOrder[i]] = Unknown}
  <2>1. open \subseteq Nat /\ open # {}
      BY <1>1, <1>2, <1>4 DEF Complete
  <2>2. \E i \in open : \A j \in open : i <= j
      BY <2>1, LeastNumber
  <2>3. (CHOOSE i \in open : \A j \in open : i <= j) \in open
      BY <2>2
  <2>4. FirstUnknown(contact) = FieldOrder[CHOOSE i \in open : \A j \in open : i <= j]
      BY DEF FirstUnknown
  <2> HIDE DEF open
  <2>5. PICK k : k = CHOOSE i \in open : \A j \in open : i <= j
      OBVIOUS
  <2>6. k \in DOMAIN FieldOrder /\ FirstUnknown(contact) = FieldOrder[k]
      BY <2>3, <2>4, <2>5 DEF open
  <2>7. QED
      BY <1>2, <2>6
<1>5. QED
    BY <1>3, <1>4

LEMMA BlankIsTyped ==
    Blank \in Wizards /\ Blank.st = "none" /\ Empty \in [Goods -> Nat] /\ NoAnswers \in Answered
BY FieldsAsked DEF Blank, Wizards, Unknown, NoAnswers, Answered, Empty

LEMMA EnquiryInitially == EnquiryInit => EnquiryInv
<1> SUFFICES ASSUME EnquiryInit PROVE EnquiryInv
    OBVIOUS
<1>1. PICK p \in Goods, q \in Amounts : row = [revision |-> 1, lines |-> [Empty EXCEPT ![p] = q]]
    BY DEF EnquiryInit
<1>2. q \in Nat
    BY EnquiryAssumption
<1>3. row \in [revision : Nat, lines : [Goods -> Nat]]
    BY <1>1, <1>2 DEF Empty
<1>4. QED
    BY <1>3, BlankIsTyped DEF EnquiryInit, EnquiryInv, EnquiryTypes, ConfirmationIsShown

\* The buttons that messages get.
LEMMA ButtonsAreTyped ==
    /\ \A p \in Goods \cup {Unknown}, r \in Nat :
         /\ LineButton(p, r) \in ButtonRows
         /\ LineButton(p, r).kind = "line"
    /\ \A p \in Goods \cup {Unknown}, q, r \in Nat :
         AddButton(p, q, r) \in ButtonRows /\ AddButton(p, q, r).kind = "add"
    /\ \A k \in Nat : SendButton(k) \in ButtonRows
<1>1. ASSUME NEW p \in Goods \cup {Unknown}, NEW r \in Nat
      PROVE  /\ LineButton(p, r) \in ButtonRows
             /\ LineButton(p, r).kind = "line"
             /\ \A q \in Nat : AddButton(p, q, r) \in ButtonRows /\ AddButton(p, q, r).kind = "add"
    BY DEF LineButton, AddButton, ButtonRows, Unknown
<1>2. ASSUME NEW k \in Nat PROVE SendButton(k) \in ButtonRows
    BY DEF LineButton, SendButton, ButtonRows, Unknown
<1>3. QED
    BY <1>1, <1>2

LEMMA CartButtonsAreTyped ==
    ASSUME NEW of \in [revision : Nat, lines : [Goods -> Nat]]
    PROVE  /\ CartButtons(of) \subseteq ButtonRows
           /\ \A b \in CartButtons(of) : b.kind = "line"
BY ButtonsAreTyped DEF CartButtons

\* Asking on keeps the types, and a confirmation is recorded as it is shown.
LEMMA AskKeeps ==
    ASSUME EnquiryInv, NEW data \in Wizards, Ask(data)
    PROVE  /\ wizard' \in Wizards /\ keyboard' \subseteq ButtonRows
           /\ ConfirmationIsShown'
<1>1. CASE Complete(data.contact)
  <2>1. /\ wizard' = [data EXCEPT !.st = "confirmation"]
        /\ keyboard' = keyboard \cup {SendButton(data.key)}
        /\ confirming' = [key |-> data.key, revision |-> data.revision, contact |-> data.contact]
      BY <1>1 DEF Ask
  <2>2. /\ wizard' \in Wizards /\ wizard'.key = data.key
        /\ wizard'.revision = data.revision /\ wizard'.contact = data.contact
      BY <2>1 DEF Wizards
  <2>3. SendButton(data.key) \in ButtonRows
      BY ButtonsAreTyped DEF Wizards
  <2>4. QED
      BY <2>1, <2>2, <2>3 DEF EnquiryInv, EnquiryTypes, ConfirmationIsShown
<1>2. CASE ~Complete(data.contact)
  <2>1. PICK field : field = FirstUnknown(data.contact)
      OBVIOUS
  <2>2. PICK to : to = IF field = "district_id" THEN "district" ELSE "contact"
      OBVIOUS
  <2>3. /\ wizard' = [data EXCEPT !.field = field, !.st = to]
        /\ UNCHANGED <<keyboard, confirming>>
      BY <1>2, <2>1, <2>2 DEF Ask
  <2>4. field \in Fields /\ to \in {"district", "contact"}
      BY <1>2, <2>1, <2>2, FieldsAsked
  <2>5. wizard' \in Wizards /\ wizard'.st = to
      BY <2>3, <2>4 DEF Wizards
  <2>6. QED
      BY <2>3, <2>4, <2>5 DEF EnquiryInv, EnquiryTypes, ConfirmationIsShown
<1>3. QED
    BY <1>1, <1>2

\* The lines of the cart and its revision stay numbers.
LEMMA SetLineTyped ==
    ASSUME row \in [revision : Nat, lines : [Goods -> Nat]], NEW p, NEW q \in Nat, SetLine(p, q)
    PROVE  row' \in [revision : Nat, lines : [Goods -> Nat]]
<1>1. CASE row.lines[p] = q
    BY <1>1 DEF SetLine
<1>2. CASE row.lines[p] # q
  <2>1. row' = [revision |-> row.revision + 1, lines |-> [row.lines EXCEPT ![p] = q]]
      BY <1>2 DEF SetLine, Bumped
  <2>2. row.revision + 1 \in Nat
      OBVIOUS
  <2>3. [row.lines EXCEPT ![p] = q] \in [Goods -> Nat]
    <3>1. row.lines \in [Goods -> Nat]
        OBVIOUS
    <3>2. QED
        BY <3>1
  <2>4. QED
      BY <2>1, <2>2, <2>3
<1>3. QED
    BY <1>1, <1>2

LEMMA ButtonsPressedKeep ==
    ASSUME EnquiryInv, NEW b \in keyboard, AskQuantity(b) \/ AddQuantity(b) \/ RemoveLine(b)
    PROVE  EnquiryInv'
<1> USE DEF EnquiryInv, EnquiryTypes
<1>1. b \in ButtonRows /\ b.qty \in Nat /\ b.revision \in Nat /\ b.product \in Goods \cup {Unknown}
    BY DEF ButtonRows
<1>2. CASE AskQuantity(b)
  <2>1. /\ wizard' = [wizard EXCEPT !.st = "quantity", !.product = b.product, !.revision = b.revision]
        /\ UNCHANGED <<row, retired, keyboard, left, requests, rows, confirming>>
      BY <1>2 DEF AskQuantity
  <2>2. wizard' \in Wizards /\ wizard'.st = "quantity"
      BY <1>1, <2>1 DEF Wizards
  <2>3. QED
      BY <2>1, <2>2 DEF ConfirmationIsShown
<1>3. CASE AddQuantity(b)
  <2>1. UNCHANGED <<wizard, requests, confirming>>
      BY <1>3 DEF AddQuantity
  <2>2. CASE b.revision = row.revision /\ b.product \notin retired
    <3>1. /\ SetLine(b.product, b.qty) /\ UNCHANGED keyboard
          /\ left' = left \cup {[do |-> "added", product |-> b.product, revision |-> row'.revision]}
        BY <1>3, <2>2 DEF AddQuantity, Later
    <3>2. row' \in [revision : Nat, lines : [Goods -> Nat]]
        BY <1>1, <3>1, SetLineTyped
    <3>3. left' \subseteq ToDo
        BY <1>1, <3>1, <3>2 DEF ToDo
    <3>4. QED
        BY <2>1, <3>1, <3>2, <3>3 DEF ConfirmationIsShown
  <2>3. CASE ~(b.revision = row.revision /\ b.product \notin retired)
    <3>1. keyboard' = keyboard \cup CartButtons(row) /\ UNCHANGED <<row, rows, left>>
        BY <1>3, <2>3 DEF AddQuantity
    <3>2. QED
        BY <2>1, <3>1, CartButtonsAreTyped DEF ConfirmationIsShown
  <2>4. QED
      BY <2>2, <2>3
<1>4. CASE RemoveLine(b)
  <2>1. UNCHANGED <<wizard, left, requests, confirming>> /\ keyboard' = keyboard \cup CartButtons(row')
      BY <1>4 DEF RemoveLine
  <2>2. row' \in [revision : Nat, lines : [Goods -> Nat]]
      BY <1>4, SetLineTyped DEF RemoveLine
  <2>3. QED
      BY <2>1, <2>2, CartButtonsAreTyped DEF ConfirmationIsShown
<1>5. QED
    BY <1>2, <1>3, <1>4

\* A request of the cart is a row, and the cart is empty after it.
LEMMA CreateTyped ==
    ASSUME EnquiryTypes, NEW key \in Nat, NEW rev \in Nat, NEW contact \in Answered,
           Create(key, rev, contact)
    PROVE  /\ requests' \in Seq(RequestRows)
           /\ row' \in [revision : Nat, lines : [Goods -> Nat]]
<1>1. /\ requests' = Append(requests, [key |-> key, revision |-> rev, contact |-> contact,
                                       lines |-> row.lines])
      /\ row' = [revision |-> row.revision + 1, lines |-> Empty]
    BY DEF Create, Bumped
<1>2. [key |-> key, revision |-> rev, contact |-> contact, lines |-> row.lines] \in RequestRows
    BY DEF RequestRows, EnquiryTypes
<1>3. row.revision + 1 \in Nat
    BY DEF EnquiryTypes
<1>4. QED
    BY <1>1, <1>2, <1>3, BlankIsTyped DEF EnquiryTypes

LEMMA SendKeeps ==
    ASSUME EnquiryInv, NEW b \in keyboard, SendRequest(b)
    PROVE  EnquiryInv'
<1> USE DEF EnquiryInv
<1>1. /\ Create(b.key, wizard.revision, wizard.contact)
      /\ left' = left \cup {[do |-> "clear", product |-> Unknown, revision |-> Unknown]}
      /\ UNCHANGED <<retired, wizard, keyboard, confirming>>
    BY DEF SendRequest, Later
<1>2. b.key \in Nat /\ wizard.revision \in Nat /\ wizard.contact \in Answered
    BY DEF EnquiryTypes, ButtonRows, Wizards
<1>3. left' \subseteq ToDo
    BY <1>1 DEF EnquiryTypes, ToDo, Unknown
<1>4. QED
    BY <1>1, <1>2, <1>3, CreateTyped DEF EnquiryTypes, ConfirmationIsShown

\* The contact a request starts with.
LEMMA DefaultsTyped ==
    ASSUME EnquiryTypes
    PROVE  Defaults \in Answered
<1>1. CASE requests = <<>>
    BY <1>1, EnquiryAssumption DEF Defaults, Answered
<1>2. CASE requests # <<>>
  <2>1. requests \in Seq(RequestRows) /\ Len(requests) \in 1 .. Len(requests)
      BY <1>2 DEF EnquiryTypes
  <2>2. requests[Len(requests)] \in RequestRows
      BY <2>1
  <2>3. QED
      BY <1>2, <2>2 DEF Defaults, Last, RequestRows
<1>3. QED
    BY <1>1, <1>2

\* A new request takes a key that no button in the chat has.
LEMMA StartKeeps ==
    ASSUME EnquiryInv, StartRequest
    PROVE  EnquiryInv'
<1> USE DEF EnquiryInv
<1>1. PICK keys : keys = {0, wizard.key} \cup {b.key : b \in keyboard}
    OBVIOUS
<1>2. /\ wizard' = [wizard EXCEPT !.revision = row.revision, !.contact = Defaults,
                                  !.key = 1 + Max(keys)]
      /\ left' = left \cup {[do |-> "ask", product |-> Unknown, revision |-> Unknown]}
      /\ UNCHANGED <<row, retired, keyboard, requests, rows, confirming>>
      /\ wizard.key < MaxKeys /\ \A b \in keyboard : b.key < MaxKeys
    BY <1>1 DEF StartRequest, Later
<1>3. keys \subseteq 0 .. MaxKeys /\ keys # {}
  <2>1. wizard.key \in Nat /\ MaxKeys \in Nat /\ \A b \in keyboard : b.key \in Nat
      BY EnquiryAssumption DEF EnquiryTypes, ButtonRows, Wizards
  <2>2. QED
      BY <1>1, <1>2, <2>1
<1>4. Max(keys) \in Nat /\ \A k \in keys : k <= Max(keys) /\ k \in Nat
  <2>0. \A k \in 0 .. MaxKeys : k \in Nat
      OBVIOUS
  <2>1. MaxKeys \in Nat /\ 0 \in Int
      BY EnquiryAssumption
  <2>2. keys \subseteq Nat /\ IsFiniteSet(keys)
    <3>1. IsFiniteSet(0 .. MaxKeys)
        BY <2>1, FS_Interval
    <3>2. IsFiniteSet(keys)
        BY <1>3, <3>1, FS_Subset
    <3>3. QED
        BY <1>3, <2>0, <3>2
  <2>3. Max(keys) \in keys /\ \A k \in keys : k <= Max(keys)
      BY <1>3, <2>2, GreatestNumber
  <2>4. QED
      BY <1>3, <2>0, <2>3
<1>5. PICK k : k = 1 + Max(keys)
    OBVIOUS
<1>6. k \in Nat /\ \A b \in keyboard : b.key # k
  <2>1. \A b \in keyboard : b.key \in keys
      BY <1>1
  <2>2. \A m \in Nat : 1 + m \in Nat /\ \A n \in Nat : n <= m => n # 1 + m
      OBVIOUS
  <2>3. QED
      BY <1>4, <1>5, <2>1, <2>2
<1>7. wizard' \in Wizards /\ wizard'.key = k
    BY <1>2, <1>5, <1>6, DefaultsTyped DEF EnquiryTypes, Wizards
<1>8. left' \subseteq ToDo
    BY <1>2 DEF EnquiryTypes, ToDo, Unknown
<1>9. QED
    BY <1>2, <1>6, <1>7, <1>8 DEF EnquiryTypes, ConfirmationIsShown

\* Answers, and what asks on.
LEMMA AskingKeeps ==
    ASSUME EnquiryInv,
           \/ EditContact
           \/ \E f \in Fields : \E v \in Answers[f] : Answer(v)
           \/ \E d \in left : AskContact(d)
    PROVE  EnquiryInv'
<1> USE DEF EnquiryInv
<1>1. CASE EditContact
  <2>1. /\ Ask([wizard EXCEPT !.contact = NoAnswers])
        /\ UNCHANGED <<row, retired, left, requests, rows>>
      BY <1>1 DEF EditContact
  <2>2. [wizard EXCEPT !.contact = NoAnswers] \in Wizards
      BY BlankIsTyped DEF EnquiryTypes, Wizards
  <2>3. QED
      BY <2>1, <2>2, AskKeeps DEF EnquiryTypes
<1>2. ASSUME NEW v, Answer(v) PROVE EnquiryInv'
  <2>1. /\ Ask([wizard EXCEPT !.contact[wizard.field] = v])
        /\ UNCHANGED <<row, retired, left, requests, rows>>
        /\ v \in Answers[wizard.field]
      BY <1>2 DEF Answer
  <2>2. v \in Nat /\ wizard.contact \in [Fields -> Nat]
      BY <2>1, EnquiryAssumption DEF EnquiryTypes, Wizards, Answered
  <2>3. PICK contact : contact = [wizard.contact EXCEPT ![wizard.field] = v]
      OBVIOUS
  <2>4. contact \in Answered
      BY <2>2, <2>3 DEF Answered
  <2>5. [wizard EXCEPT !.contact[wizard.field] = v] = [wizard EXCEPT !.contact = contact]
      BY <2>3
  <2>6. [wizard EXCEPT !.contact = contact] \in Wizards
      BY <2>4 DEF EnquiryTypes, Wizards
  <2>7. QED
      BY <2>1, <2>5, <2>6, AskKeeps DEF EnquiryTypes
<1>3. ASSUME NEW d \in left, AskContact(d) PROVE EnquiryInv'
  <2>1. left' = left \ {d} /\ UNCHANGED <<row, retired, requests, rows>>
      BY <1>3 DEF AskContact
  <2>2. CASE wizard.key = Unknown
    <3>1. wizard' = [wizard EXCEPT !.st = "contact"] /\ UNCHANGED <<keyboard, confirming>>
        BY <1>3, <2>2 DEF AskContact
    <3>2. wizard' \in Wizards /\ wizard'.st = "contact"
        BY <3>1 DEF EnquiryTypes, Wizards
    <3>3. QED
        BY <2>1, <3>1, <3>2 DEF EnquiryTypes, ConfirmationIsShown
  <2>3. CASE wizard.key # Unknown
    <3>1. Ask(wizard)
        BY <1>3, <2>3 DEF AskContact
    <3>2. QED
        BY <2>1, <3>1, AskKeeps DEF EnquiryTypes
  <2>4. QED
      BY <2>2, <2>3
<1>4. QED
    BY <1>1, <1>2, <1>3

\* The messages and ends of handlers that confirm nothing.
LEMMA AsidesKeep ==
    ASSUME EnquiryInv,
           \/ ShowCart \/ OtherDialogue
           \/ \E q \in Amounts : TypeQuantity(q)
           \/ \E d \in left : QuantityAdded(d) \/ DialogueCleared(d) \/ Crash(d)
    PROVE  EnquiryInv'
<1> USE DEF EnquiryInv, EnquiryTypes
<1>1. CASE ShowCart
  <2>1. /\ wizard' = [wizard EXCEPT !.st = "none"] /\ keyboard' = keyboard \cup CartButtons(row)
        /\ UNCHANGED <<row, retired, left, requests, rows, confirming>>
      BY <1>1 DEF ShowCart
  <2>2. wizard' \in Wizards /\ wizard'.st = "none"
      BY <2>1 DEF Wizards
  <2>3. QED
      BY <2>1, <2>2, CartButtonsAreTyped DEF ConfirmationIsShown
<1>2. CASE OtherDialogue
  <2>1. /\ wizard' \in {Blank, [wizard EXCEPT !.st = "none"]}
        /\ UNCHANGED <<row, retired, keyboard, left, requests, rows, confirming>>
      BY <1>2 DEF OtherDialogue
  <2>2. wizard' \in Wizards /\ wizard'.st = "none"
      BY <2>1, BlankIsTyped DEF Wizards
  <2>3. QED
      BY <2>1, <2>2 DEF ConfirmationIsShown
<1>3. ASSUME NEW q \in Amounts, TypeQuantity(q) PROVE EnquiryInv'
  <2>1. /\ keyboard' = keyboard \cup {AddButton(wizard.product, q, wizard.revision)}
        /\ UNCHANGED <<row, retired, wizard, left, requests, rows, confirming>>
      BY <1>3 DEF TypeQuantity
  <2>2. q \in Nat /\ wizard.product \in Goods \cup {Unknown} /\ wizard.revision \in Nat
      BY EnquiryAssumption DEF Wizards
  <2>3. PICK b : b = AddButton(wizard.product, q, wizard.revision)
      OBVIOUS
  <2>4. b \in ButtonRows /\ b.kind = "add"
      BY <2>2, <2>3, ButtonsAreTyped
  <2>5. QED
      BY <2>1, <2>3, <2>4 DEF ConfirmationIsShown
<1>4. ASSUME NEW d \in left, QuantityAdded(d) PROVE EnquiryInv'
  <2>1. /\ wizard' = [wizard EXCEPT !.st = "none"]
        /\ keyboard' = keyboard \cup {LineButton(d.product, d.revision)}
        /\ left' = left \ {d}
        /\ UNCHANGED <<row, retired, requests, rows, confirming>>
      BY <1>4 DEF QuantityAdded
  <2>2. wizard' \in Wizards /\ wizard'.st = "none"
      BY <2>1 DEF Wizards
  <2>3. d.product \in Goods \cup {Unknown} /\ d.revision \in Nat
      BY DEF ToDo
  <2>4. QED
      BY <2>1, <2>2, <2>3, ButtonsAreTyped DEF ConfirmationIsShown
<1>5. ASSUME NEW d \in left, DialogueCleared(d) PROVE EnquiryInv'
    BY <1>5, BlankIsTyped DEF DialogueCleared, ConfirmationIsShown
<1>6. ASSUME NEW d \in left, Crash(d) PROVE EnquiryInv'
    BY <1>6 DEF Crash, ConfirmationIsShown
<1>7. QED
    BY <1>1, <1>2, <1>3, <1>4, <1>5, <1>6

\* The cards of the assistant's answers: a button that adds, or the question for
\* a quantity, of the cart as it is.
LEMMA CardsKeep ==
    ASSUME EnquiryInv,
           BackToCards \/ \E p \in Goods : PickQuantity(p) \/ AskForCard(p)
    PROVE  EnquiryInv'
<1> USE DEF EnquiryInv, EnquiryTypes
<1>1. CASE BackToCards
  <2>1. /\ wizard' = [wizard EXCEPT !.st = "none"]
        /\ UNCHANGED <<row, retired, keyboard, left, requests, rows, confirming>>
      BY <1>1 DEF BackToCards
  <2>2. wizard' \in Wizards /\ wizard'.st = "none"
      BY <2>1 DEF Wizards
  <2>3. QED
      BY <2>1, <2>2 DEF ConfirmationIsShown
<1>2. ASSUME NEW p \in Goods, PickQuantity(p) PROVE EnquiryInv'
  <2>1. PICK q \in Amounts : keyboard' = keyboard \cup {AddButton(p, q, row.revision)}
      BY <1>2 DEF PickQuantity, OnCard
  <2>2. UNCHANGED <<row, retired, wizard, left, requests, rows, confirming>>
      BY <1>2 DEF PickQuantity
  <2>3. q \in Nat /\ row.revision \in Nat
      BY EnquiryAssumption
  <2>4. PICK b : b = AddButton(p, q, row.revision)
      OBVIOUS
  <2>5. b \in ButtonRows /\ b.kind = "add"
      BY <2>3, <2>4, ButtonsAreTyped
  <2>6. QED
      BY <2>1, <2>2, <2>4, <2>5 DEF ConfirmationIsShown
<1>3. ASSUME NEW p \in Goods, AskForCard(p) PROVE EnquiryInv'
  <2>1. /\ wizard' = [wizard EXCEPT !.st = "quantity", !.product = p, !.revision = row.revision]
        /\ UNCHANGED <<row, retired, keyboard, left, requests, rows, confirming>>
      BY <1>3 DEF AskForCard
  <2>2. wizard' \in Wizards /\ wizard'.st = "quantity"
      BY <2>1 DEF Wizards
  <2>3. QED
      BY <2>1, <2>2 DEF ConfirmationIsShown
<1>4. QED
    BY <1>1, <1>2, <1>3

\* The website and the catalogue.
LEMMA WebKeeps ==
    ASSUME EnquiryInv,
           \/ \E p \in Goods, q \in Amounts \cup {0} : WebSet(p, q)
           \/ WebRequest
           \/ \E p \in Goods : Retire(p)
    PROVE  EnquiryInv'
<1> USE DEF EnquiryInv
<1>1. ASSUME NEW p \in Goods, NEW q \in Amounts \cup {0}, WebSet(p, q) PROVE EnquiryInv'
  <2>1. SetLine(p, q) /\ UNCHANGED <<retired, wizard, keyboard, left, requests, confirming>>
      BY <1>1 DEF WebSet
  <2>2. q \in Nat
      BY EnquiryAssumption
  <2>3. QED
      BY <2>1, <2>2, SetLineTyped DEF EnquiryTypes, ConfirmationIsShown
<1>2. CASE WebRequest
  <2>1. /\ Create(Unknown, row.revision, Account)
        /\ UNCHANGED <<retired, wizard, keyboard, left, confirming>>
      BY <1>2 DEF WebRequest
  <2>2. Unknown \in Nat /\ row.revision \in Nat /\ Account \in Answered
      BY EnquiryAssumption DEF EnquiryTypes, Unknown, Answered
  <2>3. QED
      BY <2>1, <2>2, CreateTyped DEF EnquiryTypes, ConfirmationIsShown
<1>3. ASSUME NEW p \in Goods, Retire(p) PROVE EnquiryInv'
    BY <1>3 DEF Retire, EnquiryTypes, ConfirmationIsShown
<1>4. QED
    BY <1>1, <1>2, <1>3

LEMMA EnquiryConsecution == EnquiryInv /\ [EnquiryNext]_enquiryVars => EnquiryInv'
<1> SUFFICES ASSUME EnquiryInv, [EnquiryNext]_enquiryVars PROVE EnquiryInv'
    OBVIOUS
<1>1. CASE UNCHANGED enquiryVars
    BY <1>1 DEF enquiryVars, EnquiryInv, EnquiryTypes, ConfirmationIsShown
<1>2. ASSUME NEW b \in keyboard, Press(b) PROVE EnquiryInv'
  <2>1. CASE SendAgain(b)
      BY <2>1 DEF SendAgain, EnquiryInv, EnquiryTypes, ConfirmationIsShown
  <2>2. QED
      BY <1>2, <2>1, ButtonsPressedKeep, SendKeeps DEF Press
<1>3. ASSUME NEW d \in left, Finish(d) PROVE EnquiryInv'
    BY <1>3, AskingKeeps, AsidesKeep DEF Finish
<1>4. CASE GuidedBot
    BY <1>2, <1>3, <1>4, AskingKeeps, AsidesKeep, StartKeeps, CardsKeep DEF GuidedBot
<1>5. QED
    BY <1>1, <1>4, WebKeeps DEF EnquiryNext

\* Every state of the wizard is one that EnquiryInv describes.
THEOREM EnquiryInvariance == EnquirySpec => []EnquiryInv
BY EnquiryInitially, EnquiryConsecution, PTL DEF EnquirySpec

\* Only sending adds a request with a key of the dialogue's, and what it sends
\* is what the confirmation showed.
LEMMA OnlyConfirmedIsSent ==
    ASSUME EnquiryInv, [EnquiryNext]_enquiryVars, NEW i \in DOMAIN requests' \ DOMAIN requests,
           requests'[i].key # Unknown
    PROVE  /\ confirming = [key |-> requests'[i].key, revision |-> requests'[i].revision,
                            contact |-> requests'[i].contact]
           /\ confirming.revision = row.revision
<1>1. PICK key, rev, contact :
        /\ requests' = Append(requests, [key |-> key, revision |-> rev, contact |-> contact,
                                         lines |-> row.lines])
        /\ \/ key = Unknown
           \/ /\ confirming = [key |-> key, revision |-> rev, contact |-> contact]
              /\ rev = row.revision
  <2>1. ASSUME NEW b \in keyboard, SendRequest(b)
        PROVE  /\ Create(b.key, wizard.revision, wizard.contact)
               /\ confirming = [key |-> b.key, revision |-> wizard.revision,
                                contact |-> wizard.contact]
               /\ wizard.revision = row.revision
    <3>1. /\ b.kind = "send" /\ Sendable(b) /\ Create(b.key, wizard.revision, wizard.contact)
        BY <2>1 DEF SendRequest
    <3>2. QED
        BY <3>1 DEF Sendable, Creatable, EnquiryInv, ConfirmationIsShown
  <2>2. requests' # requests
      OBVIOUS
  <2>3. WebRequest \/ \E b \in keyboard : SendRequest(b)
      BY <2>2 DEF EnquiryNext, enquiryVars, GuidedBot, ShowCart, StartRequest, EditContact,
                  OtherDialogue, TypeQuantity, BackToCards, PickQuantity, AskForCard, Answer,
                  Press, AskQuantity, AddQuantity,
                  RemoveLine, SendAgain, Finish, QuantityAdded, AskContact, DialogueCleared,
                  Crash, WebSet, Retire
  <2>4. QED
      BY <2>1, <2>3 DEF WebRequest, Create
<1>2. requests \in Seq(RequestRows)
    BY DEF EnquiryInv, EnquiryTypes
<1>3. requests'[i] = [key |-> key, revision |-> rev, contact |-> contact, lines |-> row.lines]
    BY <1>1, <1>2
<1>4. QED
    BY <1>1, <1>3

\* A request of the bot is of the cart and the contact that the last
\* confirmation in the chat was about (send_request, guided_sales.py), whatever
\* old buttons, other dialogues and crashes come in between.
THEOREM RequestsAreConfirmed == EnquirySpec => RequestIsWhatWasConfirmed
<1>1. EnquiryInv /\ [EnquiryNext]_enquiryVars =>
        [\A i \in DOMAIN requests' \ DOMAIN requests :
           requests'[i].key # Unknown =>
              /\ confirming = [key |-> requests'[i].key, revision |-> requests'[i].revision,
                               contact |-> requests'[i].contact]
              /\ confirming.revision = row.revision]_enquiryVars
    BY OnlyConfirmedIsSent
<1>2. QED
    BY <1>1, EnquiryInvariance, PTL DEF EnquirySpec, RequestIsWhatWasConfirmed
=============================================================================
