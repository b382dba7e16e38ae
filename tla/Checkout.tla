------------------------------ MODULE Checkout ------------------------------
(***************************************************************************)
(* One customer's durable cart turned into orders and sales requests       *)
(* (app/services/cart_service.py, order_service.py,                        *)
(* sales_request_service.py, the storefront routers and their pages).      *)
(*                                                                         *)
(* The cart is shared by every page the customer has open and by the bot.  *)
(* A page shows a revision of it, quotes a total, and confirms with a      *)
(* request that names the revision, the total, the contact and an          *)
(* idempotency key.  Answers are lost and confirmations repeated: a copy   *)
(* of a request that was sent may arrive late, several times or never.     *)
(* Every handler is one transaction that holds the cart row from its first *)
(* statement to its commit, so a handler is one action.                    *)
(*                                                                         *)
(* Units, delivery fees and the choice between quoted variants are left    *)
(* out: a total is the sum of quantity times price.  A bot chat keeps in   *)
(* its FSM data what a checkout page keeps in its variables, and answers   *)
(* the same refusals by quoting again.                                     *)
(***************************************************************************)
EXTENDS Naturals, Sequences, FiniteSets, Functions

CONSTANTS
    CheckoutPages,  \* checkout pages and bot chats (app.js, customer.py)
    ChatCarts,      \* cart dialogs of the chat page (chat_cart.js)
    Products,
    Quantities,     \* what a customer may ask of one product
    Prices,         \* unit prices; NoOffer is not one of them
    Contacts,       \* phone, name and address of a confirmation
    Keys,           \* bound: the uuids the pages may draw
    MaxRevision     \* bound: revisions made by edits

ASSUME CheckoutAssumption ==
    /\ CheckoutPages \cap ChatCarts = {}
    /\ Quantities \subseteq Nat \ {0}
    /\ Prices \subseteq Nat \ {0}
    /\ 0 \notin Keys
    /\ MaxRevision \in Nat
    /\ IsFiniteSet(Products)

VARIABLES
    cart,       \* carts row and its cart_items
    offers,     \* best unit price per product, NoOffer when there is none
    page,       \* what each page shows and waits for
    sent,       \* every request confirmed so far; copies may still arrive
    attempts,   \* checkout_attempts, and the keys of sales_requests
    sold        \* orders and sales requests, in the order they were created

vars == <<cart, offers, page, sent, attempts, sold>>

-----------------------------------------------------------------------------
Pages == CheckoutPages \cup ChatCarts
NoOffer == 0
NoKey == 0
EmptyLines == [p \in Products |-> 0]

InCart(lines) == {p \in Products : lines[p] # 0}

\* assess_lines: no line of the cart requires an operator's confirmation.
Quotable(lines, prices) == \A p \in InCart(lines) : prices[p] # NoOffer

Total(lines, prices) ==
    FoldFunction(LAMBDA cost, sum : cost + sum, 0, [p \in Products |-> lines[p] * prices[p]])

Lines == [Products -> Quantities \cup {0}]
PriceLists == [Products -> Prices \cup {NoOffer}]
Totals == {0} \cup {Total(lines, prices) : lines \in Lines, prices \in PriceLists}

Closed == [stage |-> "closed", revision |-> 0, lines |-> EmptyLines, total |-> 0,
           key |-> NoKey, waiting |-> {}, kept |-> {}, sale |-> 0]

Init ==
    /\ cart = [revision |-> 0, lines |-> EmptyLines]
    /\ offers = [p \in Products |-> NoOffer]
    /\ page = [w \in Pages |-> Closed]
    /\ sent = {}
    /\ attempts = {}
    /\ sold = <<>>

-----------------------------------------------------------------------------
(* The catalogue and the cart.                                             *)

ChangeOffer(p, price) ==
    /\ offers[p] # price
    /\ offers' = [offers EXCEPT ![p] = price]
    /\ UNCHANGED <<cart, page, sent, attempts, sold>>

\* CartService._bump: every change of the lines moves the revision.
Bump(lines) == cart' = [revision |-> cart.revision + 1, lines |-> lines]

\* set_item and remove_item from a page that has the current revision; from
\* any other they are a CartConflict.  Setting what is there changes nothing.
SetItem(p, qty) ==
    /\ cart.revision < MaxRevision
    /\ cart.lines[p] # qty
    /\ Bump([cart.lines EXCEPT ![p] = qty])
    /\ UNCHANGED <<offers, page, sent, attempts, sold>>

-----------------------------------------------------------------------------
(* A page.                                                                 *)

\* crypto.randomUUID: a key no page holds and no request carries.
UsedKeys == {page[w].key : w \in Pages} \cup {r.key : r \in sent}
FreshKeys == Keys \ UsedKeys
NewKey == CHOOSE k \in FreshKeys : TRUE

\* GET /api/cart on opening or reloading; what the page waited for or kept
\* for a retry is forgotten.
LoadPage(w) ==
    /\ page' = [page EXCEPT ![w] =
                    [Closed EXCEPT !.stage = "open", !.revision = cart.revision, !.lines = cart.lines]]
    /\ UNCHANGED <<cart, offers, sent, attempts, sold>>

\* /api/quote or /api/checkout/preview for the lines shown.
Quote(w) ==
    /\ page[w].stage = "open"
    /\ page[w].lines # EmptyLines
    /\ Quotable(page[w].lines, offers)
    /\ FreshKeys # {}
    /\ page' = [page EXCEPT ![w] = [@ EXCEPT !.stage = "quoted", !.key = NewKey,
                                             !.total = Total(page[w].lines, offers)]]
    /\ UNCHANGED <<cart, offers, sent, attempts, sold>>

\* The chat's dialog turns into a request form when a line has no price.
OfferRequest(w) ==
    /\ w \in ChatCarts
    /\ page[w].stage = "open"
    /\ page[w].lines # EmptyLines
    /\ ~Quotable(page[w].lines, offers)
    /\ FreshKeys # {}
    /\ page' = [page EXCEPT ![w] = [@ EXCEPT !.stage = "request", !.key = NewKey]]
    /\ UNCHANGED <<cart, offers, sent, attempts, sold>>

Body(w, contact) ==
    [kind |-> IF page[w].stage = "quoted" THEN "order" ELSE "request",
     key |-> page[w].key, revision |-> page[w].revision, lines |-> page[w].lines,
     total |-> page[w].total, contact |-> contact]

\* The confirm button.  A checkout page keeps its key while the contact is
\* edited; the chat keeps the body it sent until it is answered.
Confirm(w, contact) ==
    LET r == Body(w, contact)
    IN  /\ page[w].stage \in {"quoted", "request"}
        /\ page[w].waiting = {}
        /\ page[w].kept = {}
        /\ sent' = sent \cup {r}
        /\ page' = [page EXCEPT ![w] =
                        [@ EXCEPT !.waiting = {r}, !.kept = IF w \in ChatCarts THEN {r} ELSE {}]]
        /\ UNCHANGED <<cart, offers, attempts, sold>>

\* No answer came in time.
GiveUp(w) ==
    /\ page[w].waiting # {}
    /\ page[w].stage # "done"
    /\ page' = [page EXCEPT ![w] = [@ EXCEPT !.waiting = {}]]
    /\ UNCHANGED <<cart, offers, sent, attempts, sold>>

Resend(w) ==
    /\ page[w].kept # {}
    /\ page[w].waiting = {}
    /\ page' = [page EXCEPT ![w] = [@ EXCEPT !.waiting = page[w].kept]]
    /\ UNCHANGED <<cart, offers, sent, attempts, sold>>

-----------------------------------------------------------------------------
(* POST /api/order and POST /api/sales-requests.                           *)

Fingerprint(r) == [revision |-> r.revision, total |-> r.total, contact |-> r.contact]

\* The receipt under the request's key, orders and requests apart.
ForgetReceipts(r) == {}
Receipts(r) == {a \in attempts : a.kind = r.kind /\ a.key = r.key}

\* The page that still waits for this request sees its answer.
Awaits(w, r) == r \in page[w].waiting /\ page[w].stage # "done"

Answer(r, answered) == page' = [w \in Pages |-> IF Awaits(w, r) THEN answered[w] ELSE page[w]]

Told(sale) == [w \in Pages |-> [page[w] EXCEPT !.stage = "done", !.kept = {}, !.sale = sale]]

\* checkout_replay, or the sales request found under the key.
Replay(r) ==
    \E receipt \in Receipts(r) :
        /\ receipt.fingerprint = Fingerprint(r)
        /\ Answer(r, Told(receipt.sale))
        /\ UNCHANGED <<cart, offers, sent, attempts, sold>>

\* idempotency_conflict.
RefuseReusedKey(r) ==
    /\ \E receipt \in Receipts(r) : receipt.fingerprint # Fingerprint(r)
    /\ Answer(r, [w \in Pages |-> [page[w] EXCEPT !.waiting = {}, !.kept = {}]])
    /\ UNCHANGED <<cart, offers, sent, attempts, sold>>

\* cart_conflict: the page is loaded again.
AnyRevision(r) == TRUE
IsCurrent(r) == r.revision = cart.revision

RefuseStale(r) ==
    /\ Receipts(r) = {}
    /\ ~IsCurrent(r)
    /\ Answer(r, [w \in Pages |-> Closed])
    /\ UNCHANGED <<cart, offers, sent, attempts, sold>>

\* requires_confirmation: the chat turns to a request with a new key.
RefuseUnpriced(r) ==
    /\ r.kind = "order"
    /\ Receipts(r) = {}
    /\ IsCurrent(r)
    /\ ~Quotable(cart.lines, offers)
    /\ FreshKeys # {}
    /\ Answer(r, [w \in Pages |->
            IF w \in ChatCarts
            THEN [page[w] EXCEPT !.stage = "request", !.total = 0, !.key = NewKey,
                                 !.waiting = {}, !.kept = {}]
            ELSE [page[w] EXCEPT !.waiting = {}]])
    /\ UNCHANGED <<cart, offers, sent, attempts, sold>>

AgreedTotal(r) == r.total = Total(cart.lines, offers)

RefuseTotal(r) ==
    /\ r.kind = "order"
    /\ Receipts(r) = {}
    /\ IsCurrent(r)
    /\ Quotable(cart.lines, offers)
    /\ ~AgreedTotal(r)
    /\ FreshKeys # {}
    /\ Answer(r, [w \in Pages |->
            [page[w] EXCEPT !.total = Total(cart.lines, offers), !.key = NewKey,
                            !.waiting = {}, !.kept = {}]])
    /\ UNCHANGED <<cart, offers, sent, attempts, sold>>

\* The rows an accepted confirmation leaves: the sale, with the lines of the
\* cart and the total quoted now, and its receipt.
Record(r, total) ==
    /\ sold' = Append(sold, [kind |-> r.kind, key |-> r.key, revision |-> cart.revision,
                             lines |-> cart.lines, total |-> total, contact |-> r.contact])
    /\ attempts' = attempts \cup
            {[kind |-> r.kind, key |-> r.key, fingerprint |-> Fingerprint(r), sale |-> Len(sold) + 1]}
    /\ Answer(r, Told(Len(sold) + 1))

\* One remove_item, and one bump, per line of the cart.
ClearedLater == cart
AfterOrder == [revision |-> cart.revision + Cardinality(InCart(cart.lines)), lines |-> EmptyLines]

\* place_order, in the transaction of the request.
PlaceOrder(r) ==
    /\ r.kind = "order"
    /\ Receipts(r) = {}
    /\ IsCurrent(r)
    /\ cart.lines # EmptyLines
    /\ Quotable(cart.lines, offers)
    /\ AgreedTotal(r)
    /\ Record(r, Total(cart.lines, offers))
    /\ cart' = AfterOrder
    /\ UNCHANGED <<offers, sent>>

\* SalesRequestService.create: the lines are copied with whatever reference
\* prices there are, and the cart is cleared with one bump.
CreateRequest(r) ==
    /\ r.kind = "request"
    /\ Receipts(r) = {}
    /\ IsCurrent(r)
    /\ cart.lines # EmptyLines
    /\ Record(r, 0)
    /\ Bump(EmptyLines)
    /\ UNCHANGED <<offers, sent>>

Handle(r) ==
    \/ Replay(r)
    \/ RefuseReusedKey(r)
    \/ RefuseStale(r)
    \/ RefuseUnpriced(r)
    \/ RefuseTotal(r)
    \/ PlaceOrder(r)
    \/ CreateRequest(r)

-----------------------------------------------------------------------------
PageStep(w) ==
    \/ LoadPage(w)
    \/ Quote(w)
    \/ OfferRequest(w)
    \/ \E contact \in Contacts : Confirm(w, contact)
    \/ GiveUp(w)
    \/ Resend(w)

Next ==
    \/ \E p \in Products, price \in Prices \cup {NoOffer} : ChangeOffer(p, price)
    \/ \E p \in Products, qty \in Quantities \cup {0} : SetItem(p, qty)
    \/ \E w \in Pages : PageStep(w)
    \/ \E r \in sent : Handle(r)

Spec == Init /\ [][Next]_vars

-----------------------------------------------------------------------------
Requests ==
    [kind : {"order", "request"}, key : Keys, revision : Nat, lines : Lines,
     total : Totals, contact : Contacts]

PageOver(requests) ==
    {v \in [stage : {"closed", "open", "quoted", "request", "done"}, revision : Nat,
            lines : Lines, total : Totals, key : Keys \cup {NoKey}, waiting : SUBSET requests,
            kept : SUBSET requests, sale : Nat] :
        v.stage \in {"quoted", "request"} => v.key \in Keys}

Prints == [revision : Nat, total : Totals, contact : Contacts]

TypeOK ==
    /\ cart \in [revision : Nat, lines : Lines]
    /\ offers \in PriceLists
    /\ page \in [Pages -> PageOver(sent)]
    /\ sent \subseteq Requests
    /\ attempts \subseteq [kind : {"order", "request"}, key : Keys, fingerprint : Prints,
                           sale : DOMAIN sold]
    /\ sold \in Seq(Requests)

\* A revision of the cart becomes at most one order or sales request, and a
\* late copy never sells a cart older than one already sold, however many
\* pages confirm it under however many keys.
OneSalePerRevision ==
    \A i, j \in DOMAIN sold : i < j => sold[i].revision < sold[j].revision

\* A customer who is told "ordered" is told of the order that was confirmed:
\* its lines, its total and its contact, not of another sale under the key.
AnsweredTruthfully ==
    \A w \in Pages : page[w].stage = "done" =>
        \A r \in page[w].waiting :
            LET sale == sold[page[w].sale]
            IN  /\ sale.kind = r.kind
                /\ sale.lines = r.lines
                /\ sale.total = r.total
                /\ sale.contact = r.contact

Bought(r) ==
    \E i \in DOMAIN sold :
        /\ sold[i].kind = r.kind
        /\ sold[i].key = r.key
        /\ sold[i].contact = r.contact

\* A customer whose confirmation has already been sold, and who asks again
\* because the answer was lost, is told of the sale; no price, revision or
\* contact that changed since turns the retry into a refusal.  Only the
\* customer gives up or reloads.
RetriesAreNotRefused ==
    [][\A w \in Pages : \A r \in page[w].waiting :
            Awaits(w, r) /\ Bought(r) =>
                \/ page'[w] = page[w]
                \/ page'[w].stage \in {"open", "done"}
                \/ page'[w] = [page[w] EXCEPT !.waiting = {}]]_vars

Shown(r) == [kind |-> r.kind, key |-> r.key, lines |-> r.lines,
             total |-> r.total, contact |-> r.contact]

Confirmed == INSTANCE ConfirmedCheckout WITH
    basket <- cart.lines,
    asked <- {Shown(r) : r \in sent},
    taken <- [i \in DOMAIN sold |-> Shown(sold[i])]

\* Every sale is what one confirmation showed, takes the whole cart, and is
\* made once for it: Checkout implements ConfirmedCheckout.
SellsWhatWasConfirmed == Confirmed!Spec
=============================================================================
