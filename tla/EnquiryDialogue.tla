-------------------------- MODULE EnquiryDialogue --------------------------
(***************************************************************************)
(* The guided cart and the manual sales request of one customer in the bot *)
(* (app/bot/handlers/guided_sales.py), which the product cards of the      *)
(* assistant's answers lead into (ai_chat.py), over the durable cart that  *)
(* the website changes at the same time and the requests it may send       *)
(* itself (app/services/sales_request_service.py).                         *)
(*                                                                         *)
(* Updates of one customer are handled one after another up to the first   *)
(* commit of their handler, which frees the users row; what a handler does *)
(* after that commit (asking on, clearing the dialogue, showing the cart)  *)
(* is a step of its own, that other updates may precede and that a crash   *)
(* may drop.                                                               *)
(***************************************************************************)
EXTENDS Naturals, Sequences, SequencesExt

CONSTANTS
    Goods,    \* what is sold
    Withdrawn,     \* products that may be taken out of sale
    Amounts,  \* quantities the customer types or picks
    Answers,     \* [Fields -> values the customer may give]
    Account,     \* [Fields -> values]: what the account and its orders know
    LastRevision, \* bound: the last revision that an edit of the cart makes
    MaxKeys,     \* bound: dialogues started
    MaxLeft      \* bound: handlers between their commit and their end

\* ask_contact goes through the fields in this order.
FieldOrder == <<"name", "phone", "district_id", "address">>
Fields == ToSet(FieldOrder)
Unknown == 0
NoAnswers == [f \in Fields |-> Unknown]
Complete(contact) == \A f \in Fields : contact[f] # Unknown
FirstUnknown(contact) ==
    LET open == {i \in DOMAIN FieldOrder : contact[FieldOrder[i]] = Unknown}
    IN FieldOrder[CHOOSE i \in open : \A j \in open : i <= j]

\* Quantities are numbers, and so are the bounds; values are told apart by theirs.
ASSUME EnquiryAssumption ==
    /\ Amounts \subseteq Nat
    /\ Answers \in [Fields -> SUBSET Nat]
    /\ Account \in [Fields -> Nat]
    /\ MaxKeys \in Nat

VARIABLES
    row,       \* the cart row: its revision and quantities, 0 for what is not in it
    retired,   \* products out of sale
    wizard,        \* the dialogue's state and data in Redis
    keyboard,    \* buttons of the messages in the chat that change something
    left,       \* what handlers have yet to do after their commit
    requests,   \* the sales_requests rows in the order of their ids
    rows,      \* history: the lines of the cart at revision i - 1
    confirming  \* history: what the last confirmation showed

enquiryVars == <<row, retired, wizard, keyboard, left, requests, rows, confirming>>

Empty == [p \in Goods |-> 0]
\* field, product, revision and key stay in the data when the state is left.
Blank == [st |-> "none", field |-> "name", product |-> Unknown, revision |-> Unknown,
          key |-> Unknown, contact |-> NoAnswers]

LineButton(p, r) == [kind |-> "line", product |-> p, qty |-> 0, revision |-> r, key |-> Unknown]
AddButton(p, q, r) == [LineButton(p, r) EXCEPT !.kind = "add", !.qty = q]
SendButton(k) == [LineButton(Unknown, 0) EXCEPT !.kind = "send", !.key = k]

EnquiryInit ==
    /\ \E p \in Goods, q \in Amounts :
         /\ row = [revision |-> 1, lines |-> [Empty EXCEPT ![p] = q]]
         /\ rows = <<Empty, row.lines>>
    /\ retired = {}
    /\ wizard = Blank
    /\ keyboard = {}
    /\ left = {}
    /\ requests = <<>>
    /\ confirming = [key |-> Unknown, revision |-> Unknown, contact |-> NoAnswers]

-----------------------------------------------------------------------------
\* The cart and the requests

\* CartService._bump
Bumped(lines) ==
    /\ row' = [revision |-> row.revision + 1, lines |-> lines]
    /\ rows' = Append(rows, lines)

\* An unchanged line leaves the revision as it is.
SetLine(p, q) ==
    IF row.lines[p] = q THEN UNCHANGED <<row, rows>>
    ELSE row.revision < LastRevision /\ Bumped([row.lines EXCEPT ![p] = q])

Sold(lines) == \A p \in Goods : lines[p] > 0 => p \notin retired

\* SalesRequestService.create goes through.
Creatable(revision, contact) ==
    /\ revision = row.revision
    /\ row.lines # Empty
    /\ Sold(row.lines)
    /\ Complete(contact)

Create(key, revision, contact) ==
    /\ requests' = Append(requests, [key |-> key, revision |-> revision,
                                     contact |-> contact, lines |-> row.lines])
    /\ Bumped(Empty)

\* contact_defaults: the last request says it all; else the account, its last
\* order and its address.
Defaults == IF requests = <<>> THEN Account ELSE Last(requests).contact

-----------------------------------------------------------------------------
\* Messages

\* A line of the cart offers g:edit and g:remove at the cart's revision.
CartButtons(of) == {LineButton(p, of.revision) : p \in {q \in Goods : of.lines[q] > 0}}

\* ask_contact: the first field that is missing, or the confirmation.
Ask(data) ==
    IF Complete(data.contact)
    THEN /\ wizard' = [data EXCEPT !.st = "confirmation"]
         /\ keyboard' = keyboard \cup {SendButton(data.key)}
         /\ confirming' = [key |-> data.key, revision |-> data.revision,
                           contact |-> data.contact]
    ELSE LET field == FirstUnknown(data.contact)
         IN /\ wizard' = [data EXCEPT !.field = field,
                         !.st = IF field = "district_id" THEN "district" ELSE "contact"]
            /\ UNCHANGED <<keyboard, confirming>>

Later(do) ==
    /\ Cardinality(left) < MaxLeft
    /\ left' = left \cup {do}

-----------------------------------------------------------------------------
\* The guided cart

\* g:cart
ShowCart ==
    /\ wizard' = [wizard EXCEPT !.st = "none"]
    /\ keyboard' = keyboard \cup CartButtons(row)
    /\ UNCHANGED <<row, retired, left, requests, rows, confirming>>

\* edit_quantity: the button must be of the cart as it is.
AskQuantity(b) ==
    /\ b.kind = "line"
    /\ b.revision = row.revision /\ row.lines[b.product] > 0
    /\ wizard' = [wizard EXCEPT !.st = "quantity", !.product = b.product, !.revision = b.revision]
    /\ UNCHANGED <<row, retired, keyboard, left, requests, rows, confirming>>

\* custom_quantity: a preview with a button that adds.
TypeQuantity(q) ==
    /\ wizard.st = "quantity"
    /\ wizard.product \notin retired
    /\ keyboard' = keyboard \cup {AddButton(wizard.product, q, wizard.revision)}
    /\ UNCHANGED <<row, retired, wizard, left, requests, rows, confirming>>

\* The quantities on a card of the assistant's answers lead to the same button.
\* Cards of any product may be in the chat; select_product opens those of an
\* older cart too, but none of their quantities is taken.
OnCard(p) == {AddButton(p, q, row.revision) : q \in Amounts}

PickQuantity(p) ==
    /\ p \notin retired
    /\ \E b \in OnCard(p) : keyboard' = keyboard \cup {b}
    /\ UNCHANGED <<row, retired, wizard, left, requests, rows, confirming>>

\* custom_product_quantity: the card asks for a quantity of any product, in the
\* cart or not.
AskForCard(p) ==
    /\ wizard' = [wizard EXCEPT !.st = "quantity", !.product = p, !.revision = row.revision]
    /\ UNCHANGED <<row, retired, keyboard, left, requests, rows, confirming>>

\* back_variants
BackToCards ==
    /\ wizard' = [wizard EXCEPT !.st = "none"]
    /\ UNCHANGED <<row, retired, keyboard, left, requests, rows, confirming>>

\* add_quantity up to its commit; what is refused shows the cart.
AddQuantity(b) ==
    /\ b.kind = "add"
    /\ IF b.revision = row.revision /\ b.product \notin retired
       THEN /\ SetLine(b.product, b.qty)
            /\ Later([do |-> "added", product |-> b.product, revision |-> row'.revision])
            /\ UNCHANGED keyboard
       ELSE /\ keyboard' = keyboard \cup CartButtons(row)
            /\ UNCHANGED <<row, rows, left>>
    /\ UNCHANGED <<retired, wizard, requests, confirming>>

\* Its end: the dialogue is left, and the message offers to edit the line.
QuantityAdded(d) ==
    /\ d.do = "added"
    /\ wizard' = [wizard EXCEPT !.st = "none"]
    /\ keyboard' = keyboard \cup {LineButton(d.product, d.revision)}
    /\ left' = left \ {d}
    /\ UNCHANGED <<row, retired, requests, rows, confirming>>

\* g:remove; either way the cart is shown.
RemoveLine(b) ==
    /\ b.kind = "line"
    /\ IF b.revision = row.revision THEN SetLine(b.product, 0) ELSE UNCHANGED <<row, rows>>
    /\ keyboard' = keyboard \cup CartButtons(row')
    /\ UNCHANGED <<retired, wizard, left, requests, confirming>>

-----------------------------------------------------------------------------
\* The request

\* g:request, and g:checkout of a cart without a complete quote: start_request
\* up to its commit.
StartRequest ==
    /\ row.lines # Empty
    /\ wizard.key < MaxKeys
    /\ \A b \in keyboard : b.key < MaxKeys
    /\ wizard' = [wizard EXCEPT !.revision = row.revision, !.contact = Defaults,
                          !.key = 1 + Max({0, wizard.key} \cup {b.key : b \in keyboard})]
    /\ Later([do |-> "ask", product |-> Unknown, revision |-> Unknown])
    /\ UNCHANGED <<row, retired, keyboard, requests, rows, confirming>>

\* ask_contact reads the data again; a contact that was cleared meanwhile has no
\* key to offer and fails.
AskContact(d) ==
    /\ d.do = "ask"
    /\ left' = left \ {d}
    /\ IF wizard.key = Unknown
       THEN /\ wizard' = [wizard EXCEPT !.st = "contact"]
            /\ UNCHANGED <<keyboard, confirming>>
       ELSE Ask(wizard)
    /\ UNCHANGED <<row, retired, requests, rows>>

\* contact_input, and g:district: an answer to the field asked for.
Answer(value) ==
    /\ wizard.key # Unknown
    /\ wizard.st = IF wizard.field = "district_id" THEN "district" ELSE "contact"
    /\ value \in Answers[wizard.field]
    /\ Ask([wizard EXCEPT !.contact[wizard.field] = value])
    /\ UNCHANGED <<row, retired, left, requests, rows>>

\* g:contactedit, from any confirmation there ever was.
EditContact ==
    /\ wizard.key # Unknown
    /\ \E b \in keyboard : b.kind = "send"
    /\ Ask([wizard EXCEPT !.contact = NoAnswers])
    /\ UNCHANGED <<row, retired, left, requests, rows>>

Sent(key) == {i \in DOMAIN requests : requests[i].key = key}

\* g:send of a key that has its request: the answer is given again.
SendAgain(b) ==
    /\ b.kind = "send"
    /\ Sent(b.key) # {}
    /\ UNCHANGED <<row, retired, wizard, keyboard, left, requests, rows, confirming>>

\* Mutant: any confirmation in the chat will do, whatever the dialogue is at.
SendableByAnyButton(b) ==
    wizard.key # Unknown /\ Creatable(wizard.revision, wizard.contact)

Sendable(b) ==
    /\ b.key = wizard.key /\ wizard.st = "confirmation"
    /\ Creatable(wizard.revision, wizard.contact)

\* g:send up to its commit.  What is refused changes nothing: the dialogue can go
\* on from where it is.
SendRequest(b) ==
    /\ b.kind = "send" /\ Sent(b.key) = {}
    /\ Sendable(b)
    /\ Create(b.key, wizard.revision, wizard.contact)
    /\ Later([do |-> "clear", product |-> Unknown, revision |-> Unknown])
    /\ UNCHANGED <<retired, wizard, keyboard, confirming>>

\* Its end: state.clear.
DialogueCleared(d) ==
    /\ d.do = "clear"
    /\ wizard' = Blank
    /\ left' = left \ {d}
    /\ UNCHANGED <<row, retired, keyboard, requests, rows, confirming>>

\* Another dialogue of the bot takes over, or clears the state for good.
OtherDialogue ==
    /\ wizard' \in {Blank, [wizard EXCEPT !.st = "none"]}
    /\ UNCHANGED <<row, retired, keyboard, left, requests, rows, confirming>>

\* The process stops between a commit and the end of its handler.
Crash(d) ==
    /\ left' = left \ {d}
    /\ UNCHANGED <<row, retired, wizard, keyboard, requests, rows, confirming>>

-----------------------------------------------------------------------------
\* The website and the catalogue

WebSet(p, q) ==
    /\ q > 0 => p \notin retired
    /\ row.lines[p] # q
    /\ SetLine(p, q)
    /\ UNCHANGED <<retired, wizard, keyboard, left, requests, confirming>>

\* A request of the website, under a key of the website's.
WebRequest ==
    /\ Creatable(row.revision, Account)
    /\ Create(Unknown, row.revision, Account)
    /\ UNCHANGED <<retired, wizard, keyboard, left, confirming>>

Retire(p) ==
    /\ p \in Withdrawn
    /\ retired' = retired \cup {p}
    /\ UNCHANGED <<row, wizard, keyboard, left, requests, rows, confirming>>

-----------------------------------------------------------------------------
Press(b) == AskQuantity(b) \/ AddQuantity(b) \/ RemoveLine(b) \/ SendAgain(b) \/ SendRequest(b)

Finish(d) == QuantityAdded(d) \/ AskContact(d) \/ DialogueCleared(d) \/ Crash(d)

GuidedBot ==
    \/ ShowCart
    \/ BackToCards
    \/ StartRequest
    \/ EditContact
    \/ OtherDialogue
    \/ \E q \in Amounts : TypeQuantity(q)
    \/ \E p \in Goods : PickQuantity(p) \/ AskForCard(p)
    \/ \E f \in Fields : \E v \in Answers[f] : Answer(v)
    \/ \E b \in keyboard : Press(b)
    \/ \E d \in left : Finish(d)

EnquiryNext ==
    \/ GuidedBot
    \/ \E p \in Goods, q \in Amounts \cup {0} : WebSet(p, q)
    \/ WebRequest
    \/ \E p \in Goods : Retire(p)

EnquirySpec == EnquiryInit /\ [][EnquiryNext]_enquiryVars

-----------------------------------------------------------------------------
Answered == [Fields -> Nat]
Buttons == [kind : {"line", "add", "send"}, product : Goods \cup {Unknown},
            qty : Nat, revision : 0..(LastRevision + 1), key : 0..MaxKeys]

EnquiryTypeOK ==
    /\ row \in [revision : 0..(LastRevision + 1), lines : [Goods -> Nat]]
    /\ retired \subseteq Withdrawn
    /\ wizard \in [st : {"none", "quantity", "contact", "district", "confirmation"},
                field : Fields, product : Goods \cup {Unknown},
                revision : 0..(LastRevision + 1), key : 0..MaxKeys, contact : Answered]
    /\ keyboard \subseteq Buttons
    /\ left \subseteq [do : {"added", "ask", "clear"},
                       product : Goods \cup {Unknown}, revision : 0..(LastRevision + 1)]
    /\ \A i \in DOMAIN requests :
         requests[i] \in [key : 0..MaxKeys, revision : 0..(LastRevision + 1),
                          contact : Answered, lines : [Goods -> Nat]]
    /\ Len(rows) = row.revision + 1 /\ Last(rows) = row.lines

\* A request of the bot carries the contact, and is of the cart, that the last
\* confirmation in the chat was about, although old confirmations keep their
\* buttons, their dialogue can be asked for its contact again, and a handler that
\* had committed may finish in between.
RequestIsWhatWasConfirmed ==
    [][\A i \in DOMAIN requests' \ DOMAIN requests :
         requests'[i].key # Unknown =>
            /\ confirming = [key |-> requests'[i].key, revision |-> requests'[i].revision,
                             contact |-> requests'[i].contact]
            /\ confirming.revision = row.revision]_enquiryVars

=============================================================================
