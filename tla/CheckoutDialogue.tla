------------------------- MODULE CheckoutDialogue -------------------------
(***************************************************************************)
(* From a quote to an order in the bot, and the addresses on the way       *)
(* (app/bot/handlers/customer.py and common.py,                            *)
(* app/services/address_service.py, app/db/repositories/address_repo.py):  *)
(* one customer's registration, saved addresses and checkout, which share  *)
(* one state and one set of remembered data in Redis.                      *)
(*                                                                         *)
(* A handler is one action, as in BasketDialogue.  Every button stays in   *)
(* the chat, so it may be pressed long after the step it was shown for;    *)
(* the code refuses some by the state it asks for.  Prices and revisions   *)
(* are kept as "still what the quote was made of" or not.                  *)
(***************************************************************************)
EXTENDS Naturals, Sequences, FiniteSets, SequencesExt

CONSTANTS
    Places,     \* where the customer may want a delivery; a place is its own text and pin
    NoPlace,       \* no pin, no text
    Outside,    \* places in no district
    Labels,     \* the strategies a quote may be offered under
    MaxBook     \* bound: saved addresses

VARIABLES
    st,         \* the dialogue's state
    pend,       \* pending_*: the last pin, and the text found for it
    deliv,      \* delivery_*: text and pin of this order
    phone,      \* contact_phone is known
    quotes,     \* the labels offered, made of the cart and the prices of now?
    sel,        \* selected_quote_idx
    receipt,    \* the order placed under this checkout key, if any
    full,       \* the cart has lines
    book,       \* saved addresses in the order they were saved
    district,   \* the customer's district is known
    meant,      \* the place the customer has in mind
    buttons,    \* which variants' cards are in the chat, 0 a card to confirm
    placed      \* history: how often what is in the cart was ordered, and how the last time

dialogueVars == <<st, pend, deliv, phone, quotes, sel, receipt, full, book,
                  district, meant, buttons, placed>>

NoQuotes == [labels |-> <<>>, sameCart |-> TRUE, samePrice |-> TRUE]
NoOrder == [text |-> NoPlace, label |-> NoPlace]
NothingPlaced == [count |-> 0, live |-> TRUE]

CheckoutInit ==
    /\ st = "idle"
    /\ pend = [pin |-> NoPlace, text |-> NoPlace] /\ deliv = [pin |-> NoPlace, text |-> NoPlace]
    /\ phone = FALSE /\ quotes = NoQuotes /\ sel = 1 /\ receipt = NoOrder
    /\ full \in BOOLEAN /\ book = <<>> /\ district = FALSE
    /\ meant \in Places /\ buttons = {} /\ placed = NothingPlaced

Forget ==
    /\ pend' = [pin |-> NoPlace, text |-> NoPlace] /\ deliv' = [pin |-> NoPlace, text |-> NoPlace]
    /\ phone' = FALSE /\ quotes' = NoQuotes /\ sel' = 1 /\ receipt' = NoOrder

Remembered == <<pend, deliv, phone, quotes, sel, receipt>>
World == <<full, buttons, placed>>
Addresses == <<book, district>>

-----------------------------------------------------------------------------
\* Saved addresses: a list and its one default

Address(text, pin, default) == [text |-> text, pin |-> pin, default |-> default]
ClearDefault(b) == [i \in DOMAIN b |-> [b[i] EXCEPT !.default = FALSE]]

Added(b, text, pin, makeDefault) ==
    IF makeDefault \/ b = <<>>
    THEN Append(ClearDefault(b), Address(text, pin, TRUE))
    ELSE Append(b, Address(text, pin, FALSE))

Newest(b) == [b EXCEPT ![Len(b)].default = TRUE]

\* In place of a default that is deleted comes the newest of the others.
Removed(b, i) ==
    LET rest == RemoveAt(b, i)
    IN IF b[i].default /\ rest # <<>> THEN Newest(rest) ELSE rest

\* The district follows an address that becomes the default, if it has one.
Save(text, pin, makeDefault) ==
    /\ Len(book) < MaxBook
    /\ book' = Added(book, text, pin, makeDefault)
    /\ district' = (district \/ ((makeDefault \/ book = <<>>) /\ pin \notin Outside))

-----------------------------------------------------------------------------
\* Registration and the address list

\* The main menu, /cancel and a lost dialogue.
Menu ==
    /\ st' = "idle" /\ Forget
    /\ UNCHANGED <<World, Addresses, meant>>

\* Everything starts over: addresses, district and cart are emptied.
Reregister ==
    /\ st' = "language" /\ Forget
    /\ book' = <<>> /\ district' = FALSE
    /\ full' = FALSE
    /\ placed' = [placed EXCEPT !.count = 0]
    /\ UNCHANGED <<meant, buttons>>

SetLanguage ==
    /\ st = "language"
    /\ IF district THEN st' = "idle" /\ Forget
       ELSE st' = "location" /\ UNCHANGED Remembered
    /\ UNCHANGED <<World, Addresses, meant>>

MyAddresses ==
    /\ st' = "location"
    /\ UNCHANGED <<Remembered, World, Addresses, meant>>

ChooseDistrict ==
    /\ \/ /\ st = "location" /\ st' = "district"
          /\ UNCHANGED <<Remembered, Addresses>>
       \/ /\ st = "district" /\ st' = "idle" /\ Forget
          /\ district' = TRUE /\ UNCHANGED book
    /\ UNCHANGED <<World, meant>>

\* A pin is looked up; where nothing is found, its address is asked for.
Located(place, found, confirm, text) ==
    /\ pend' = [pin |-> place, text |-> IF found THEN place ELSE pend.text]
    /\ st' = IF found THEN confirm ELSE text
    /\ UNCHANGED <<deliv, phone, quotes, sel, receipt>>

\* A pin of a new place, in registration or outside every dialogue.
RegistrationPin(place, found) ==
    /\ st \in {"idle", "location"}
    /\ Located(place, found, "reg_confirm", "reg_text")
    /\ meant' = place
    /\ UNCHANGED <<World, Addresses>>

RegistrationEdit ==
    /\ st = "reg_confirm"
    /\ st' = "reg_text"
    /\ UNCHANGED <<Remembered, World, Addresses, meant>>

SaveRegistration(text) ==
    /\ pend.pin # NoPlace
    /\ Save(text, pend.pin, TRUE)
    /\ st' = "idle" /\ Forget
    /\ UNCHANGED <<World, meant>>

RegistrationOk == st = "reg_confirm" /\ SaveRegistration(pend.text)
RegistrationText == st = "reg_text" /\ SaveRegistration(meant)

-----------------------------------------------------------------------------
\* Quotes

\* New quotes of the cart; the first is shown, the selection stays as it was.
NewQuotes(labels) ==
    /\ quotes' = [labels |-> labels, sameCart |-> TRUE, samePrice |-> TRUE]
    /\ receipt' = NoOrder
    /\ buttons' = buttons \cup {1}

Recalculate ==
    \/ full /\ \E labels \in SetToAllKPermutations(Labels) :
        labels # <<>> /\ NewQuotes(labels) /\ UNCHANGED st
    \/ full /\ st' = "request" /\ UNCHANGED <<quotes, receipt, buttons>>
    \/ ~ full /\ UNCHANGED <<st, quotes, receipt, buttons>>

Calculate ==
    /\ Recalculate
    /\ UNCHANGED <<pend, deliv, phone, sel, full, placed, Addresses, meant>>

\* The card of another variant.
Navigate(i) ==
    /\ buttons # {} /\ i \in DOMAIN quotes.labels
    /\ buttons' = buttons \cup {i}
    /\ UNCHANGED <<st, Remembered, full, placed, Addresses, meant>>

AskAddress(b) == IF b # <<>> THEN "choose" ELSE "new_location"

\* The customer takes a variant, for the place this order is meant to go to.
Select(i, place) ==
    /\ i \in buttons /\ i \in DOMAIN quotes.labels
    /\ sel' = i
    /\ st' = IF phone THEN AskAddress(book) ELSE "phone"
    /\ meant' = place
    /\ UNCHANGED <<pend, deliv, phone, quotes, receipt, World, Addresses>>

Phone ==
    /\ st = "phone"
    /\ phone' = TRUE
    /\ st' = AskAddress(book)
    /\ UNCHANGED <<pend, deliv, quotes, sel, receipt, World, Addresses, meant>>

-----------------------------------------------------------------------------
\* Where the order goes

PickAddress(i) ==
    /\ st = "choose" /\ i \in DOMAIN book
    /\ deliv' = [text |-> book[i].text, pin |-> book[i].pin]
    /\ st' = "comment"
    /\ UNCHANGED <<pend, phone, quotes, sel, receipt, World, Addresses, meant>>

NewAddress ==
    /\ st = "choose"
    /\ st' = "new_location"
    /\ UNCHANGED <<Remembered, World, Addresses, meant>>

CheckoutPin(found) ==
    /\ st = "new_location"
    /\ Located(meant, found, "new_confirm", "new_text")
    /\ UNCHANGED <<World, Addresses, meant>>

\* The button that asks for text instead, the correction of a text found, and
\* a text too short to find a house by.
AskForText ==
    /\ st \in {"new_location", "new_confirm", "new_text"}
    /\ st' = "new_text"
    /\ UNCHANGED <<Remembered, World, Addresses, meant>>

\* With a pin the place is saved for next time; the order gets text and pin.
StoreAddress(text) ==
    /\ deliv' = [text |-> text, pin |-> pend.pin]
    /\ IF pend.pin # NoPlace THEN Save(text, pend.pin, FALSE) ELSE UNCHANGED Addresses
    /\ st' = "comment"
    /\ UNCHANGED <<pend, phone, quotes, sel, receipt, World, meant>>

CheckoutOk == st = "new_confirm" /\ StoreAddress(pend.text)
CheckoutText == st \in {"new_location", "new_text"} /\ StoreAddress(meant)

\* The card to confirm; without quotes there is none, and a selection beyond
\* them is an error that leaves the dialogue where it is.
Comment ==
    /\ st = "comment"
    /\ sel \in DOMAIN quotes.labels
    /\ st' = "confirm"
    /\ buttons' = buttons \cup {0}
    /\ UNCHANGED <<Remembered, full, placed, Addresses, meant>>

-----------------------------------------------------------------------------
\* The order

Confirmable == sel \in DOMAIN quotes.labels /\ deliv.text # NoPlace /\ phone
ThisOrder == [text |-> deliv.text, label |-> quotes.labels[sel]]

\* A cart that changed is quoted again, and so is a price.
Requote ==
    \/ ~ quotes.sameCart /\ Recalculate /\ UNCHANGED sel
    \/ /\ quotes.sameCart /\ full /\ ~ quotes.samePrice
       /\ NewQuotes(<<quotes.labels[sel]>>) /\ sel' = 1 /\ UNCHANGED st
    \/ /\ quotes.sameCart /\ full   \* it cannot be supplied any more
       /\ st' = "request" /\ UNCHANGED <<quotes, receipt, buttons, sel>>

\* Mutant: what was ordered stays in the cart.
KeptInTheCart == UNCHANGED <<full, buttons>>

\* What was ordered leaves the cart.
Emptied == full' = FALSE /\ UNCHANGED buttons

\* Any confirm button, in any state: what is selected now is ordered.  The
\* dialogue is forgotten after the order is committed, unless the bot stops
\* in between: then the button finds the receipt.
Confirm ==
    /\ 0 \in buttons /\ Confirmable
    /\ IF receipt # NoOrder
       THEN /\ receipt = ThisOrder
            /\ st' = "idle" /\ Forget
            /\ UNCHANGED <<full, buttons, placed>>
       ELSE \/ /\ Requote
               /\ UNCHANGED <<pend, deliv, phone, full, placed>>
            \/ /\ quotes.sameCart /\ full /\ quotes.samePrice
               /\ placed' = [count |-> placed.count + 1,
                             live |-> quotes.samePrice]
               /\ Emptied
               /\ \/ st' = "idle" /\ Forget
                  \/ /\ receipt' = ThisOrder
                     /\ quotes' = [quotes EXCEPT !.sameCart = FALSE]
                     /\ UNCHANGED <<st, pend, deliv, phone, sel>>
    /\ UNCHANGED <<Addresses, meant>>

-----------------------------------------------------------------------------
\* Others

\* The cart is changed on the website, or in the chat, which drops the quotes.
CartChanges ==
    /\ full' \in BOOLEAN
    /\ placed' = [placed EXCEPT !.count = 0]
    /\ \/ quotes' = [quotes EXCEPT !.sameCart = FALSE] /\ UNCHANGED receipt
       \/ quotes' = NoQuotes /\ receipt' = NoOrder
    /\ UNCHANGED <<st, pend, deliv, phone, sel, buttons, Addresses, meant>>

PricesChange ==
    /\ quotes' = [quotes EXCEPT !.samePrice = FALSE]
    /\ UNCHANGED <<st, pend, deliv, phone, sel, receipt, full, buttons, placed, Addresses, meant>>

\* The account page and the website's checkout change the same addresses; a
\* place may be saved there with its text alone.
WebSaves(place, pin) ==
    /\ Save(place, pin, FALSE)
    /\ UNCHANGED <<st, Remembered, World, meant>>

WebMakesDefault(i) ==
    /\ i \in DOMAIN book
    /\ book' = [ClearDefault(book) EXCEPT ![i].default = TRUE]
    /\ district' = (district \/ book[i].pin \notin Outside)
    /\ UNCHANGED <<st, Remembered, World, meant>>

WebDeletes(i) ==
    /\ i \in DOMAIN book
    /\ book' = Removed(book, i)
    /\ UNCHANGED <<st, Remembered, World, district, meant>>

Registration ==
    \/ Menu \/ Reregister \/ SetLanguage \/ MyAddresses \/ ChooseDistrict
    \/ RegistrationEdit \/ RegistrationOk \/ RegistrationText
    \/ \E place \in Places, found \in BOOLEAN : RegistrationPin(place, found)
CheckoutSteps ==
    \/ Calculate \/ Phone \/ NewAddress \/ AskForText \/ CheckoutOk \/ CheckoutText
    \/ Comment \/ Confirm
    \/ \E i \in 1..Cardinality(Labels) : Navigate(i) \/ \E place \in Places : Select(i, place)
    \/ \E i \in 1..MaxBook : PickAddress(i)
    \/ \E found \in BOOLEAN : CheckoutPin(found)
Elsewhere ==
    \/ CartChanges \/ PricesChange
    \/ \E place \in Places : WebSaves(place, place) \/ WebSaves(place, NoPlace)
    \/ \E i \in 1..MaxBook : WebMakesDefault(i) \/ WebDeletes(i)

CheckoutNext == Registration \/ CheckoutSteps \/ Elsewhere

CheckoutSpec == CheckoutInit /\ [][CheckoutNext]_dialogueVars

-----------------------------------------------------------------------------
CheckoutStates == {"idle", "language", "location", "district", "reg_confirm", "reg_text",
           "phone", "choose", "new_location", "new_confirm", "new_text", "comment",
           "confirm", "request"}

\* The state is well formed.
CheckoutTypeOK ==
    /\ st \in CheckoutStates
    /\ pend \in [pin: Places \cup {NoPlace}, text: Places \cup {NoPlace}]
    /\ deliv \in [pin: Places \cup {NoPlace}, text: Places \cup {NoPlace}]
    /\ phone \in BOOLEAN /\ full \in BOOLEAN /\ district \in BOOLEAN
    /\ quotes \in [labels: Seq(Labels), sameCart: BOOLEAN, samePrice: BOOLEAN]
    /\ sel \in 1..Cardinality(Labels)
    /\ \A i \in DOMAIN book :
        book[i] \in [text: Places, pin: Places \cup {NoPlace}, default: BOOLEAN]
    /\ meant \in Places
    /\ buttons \subseteq 0..Cardinality(Labels)

\* An order has the prices of the moment it is placed, and a cart is ordered
\* once: not again by an old button, nor after the bot stopped with the order
\* committed and the dialogue not yet forgotten.
OrderedOnceAtLivePrices == placed.live /\ placed.count <= 1

=============================================================================
