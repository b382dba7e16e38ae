-------------------------- MODULE BasketDialogue --------------------------
(***************************************************************************)
(* The basket conversation of one customer in the bot                      *)
(* (app/bot/handlers/customer.py, price_browse.py) over the customer's     *)
(* durable cart (app/services/cart_service.py), which the website changes  *)
(* at the same time.                                                       *)
(*                                                                         *)
(* Updates of one customer are handled one after another (the users row is *)
(* written first in every update's transaction), so a handler is one       *)
(* action; the website's changes come between any two.  The dialogue keeps *)
(* its own copy of the lines in Redis, with text nothing was matched to,   *)
(* and the revision of the cart it has read: "never", the "current" one or *)
(* one that is "behind".                                                   *)
(***************************************************************************)
EXTENDS Naturals, Sequences, FiniteSetsExt, SequencesExt

CONSTANTS
    N,          \* products are 1..N, in the order of their ids
    Retired,    \* products that may be taken out of sale
    Phrases,    \* what the customer may call a product
    Meant,      \* [Phrases -> 1..N]: the product a phrase stands for
    Decision,   \* [Phrases -> {"accept", "ask"}]: how sure the matcher is
    Guess,      \* [Phrases -> 0..N]: what an "ask" line shows meanwhile
    Quantities, \* quantities the customer types or sets
    MaxQty,     \* largest quantity of a line
    MaxLines    \* bound: lines of the dialogue

Products == 1..N
NoProduct == 0

\* Quantities are numbers, and what a phrase stands for or looks like is a product.
ASSUME BasketAssumption ==
    /\ N \in Nat \ {0}
    /\ Meant \in [Phrases -> Products]
    /\ Guess \in [Phrases -> Products \cup {NoProduct}]
    /\ Quantities \subseteq Nat

VARIABLES
    cart,       \* [Products -> quantity], 0 for what is not in the cart
    imported,    \* the lines of the old dialogue were merged into the cart
    inactive,   \* products that are no longer sold
    fsm,        \* the dialogue's state and data in Redis
    pickers,    \* "which one did you mean" messages in the chat
    aliases,    \* [text -> product] approved phrasings, None where there is none
    lastRead        \* history: the cart when the dialogue last read or wrote it

basketVars == <<cart, imported, inactive, fsm, pickers, aliases, lastRead>>

\* A line read back from the cart is called by its product's name.
Texts == Phrases \cup Products
Line(no, text, product, qty) == [no |-> no, text |-> text, product |-> product, qty |-> qty]
LineSet == [no: 1..(2 * MaxLines), text: Texts, product: 0..N, qty: 1..MaxQty]
\* Where text is read as a list (before one, while one is awaited or shown), as
\* the new form of a line, as a quantity, or by another dialogue.
BasketStates == {"list", "editing", "qty", "elsewhere"}
Cleared == [st |-> "list", lines |-> <<>>, known |-> "never", quoted |-> "never",
            about |-> NoProduct]

EmptyCart == [p \in Products |-> 0]

\* What an answer is about (the line being edited, the product whose quantity
\* was asked) is read in the state that asked for it, and only there.
At(f, st) == [f EXCEPT !.st = st, !.about = NoProduct]

\* A customer of before the shared cart: the lines are in Redis only.
BasketInit ==
    /\ cart = EmptyCart /\ lastRead = EmptyCart
    /\ imported = FALSE
    /\ inactive = {}
    /\ \E lines \in {<<>>, <<Line(1, N, N, 1)>>} : fsm = [Cleared EXCEPT !.lines = lines]
    /\ pickers = {}
    /\ aliases = [t \in Texts |-> NoProduct]

-----------------------------------------------------------------------------
\* Reading and writing the cart

Quantity(lines, p) ==
    LET its == {i \in DOMAIN lines : lines[i].product = p}
    IN IF its = {} THEN 0 ELSE lines[Max(its)].qty

Larger(a, b) == IF a > b THEN a ELSE b

\* The old lines are merged into the cart once, whatever the dialogue holds later.
Imported ==
    IF imported THEN cart
    ELSE [p \in Products |->
            IF p \in inactive THEN cart[p] ELSE Larger(cart[p], Quantity(fsm.lines, p))]

Renumbered(lines) == [i \in DOMAIN lines |-> [lines[i] EXCEPT !.no = i]]

\* The numbers of a set in ascending order.
InOrder(S) == [k \in 1..Cardinality(S) |-> CHOOSE n \in S : Cardinality({m \in S : m <= n}) = k]

\* The products of a cart in the order of their ids, then the text without product.
Shown(of, lines) ==
    LET products == InOrder({p \in Products : of[p] > 0})
        texts == InOrder({i \in DOMAIN lines : lines[i].product = NoProduct})
        durable == [k \in DOMAIN products |-> Line(k, products[k], products[k], of[products[k]])]
    IN Renumbered(durable \o [k \in DOMAIN texts |-> lines[texts[k]]])

\* Quotes of another cart are no longer the cart's.
Outdated(quoted, change) == IF change /\ quoted = "current" THEN "behind" ELSE quoted

Loaded(f) ==
    [f EXCEPT !.lines = Shown(Imported, f.lines), !.known = "current",
              !.quoted = Outdated(f.quoted, Imported # cart)]

Load(f) ==
    /\ cart' = Imported /\ lastRead' = Imported
    /\ imported' = TRUE
    /\ fsm' = f

Wanted(lines) == [p \in Products |-> Quantity(lines, p)]

\* Mutant: the revision is not compared.
RefusedUnsoldOnly(lines) == \E p \in inactive : Quantity(lines, p) > 0

\* A cart is not written over a revision the dialogue has not read, nor with
\* a product that is no longer sold.
Refused(lines) ==
    \/ fsm.known = "behind"
    \/ \E p \in inactive : Quantity(lines, p) > 0

\* _persist_bot_cart: the cart becomes the lines, or the dialogue reads it again.
\* A dialogue that has never read the cart reads it first.
Persist(lines, written, refused) ==
    IF Refused(lines)
    THEN Load(refused)
    ELSE /\ cart' = Wanted(lines) /\ lastRead' = Wanted(lines)
         /\ imported' = TRUE
         /\ fsm' = [written EXCEPT !.known = "current", !.quoted = "never"]

-----------------------------------------------------------------------------
\* Text

Match(q) ==
    IF aliases[q] # NoProduct THEN [product |-> aliases[q], ask |-> FALSE]
    ELSE IF Decision[q] = "accept" THEN [product |-> Meant[q], ask |-> FALSE]
    ELSE [product |-> Guess[q], ask |-> TRUE]

NextNo(lines) == IF lines = <<>> THEN 1 ELSE Max({lines[i].no : i \in DOMAIN lines}) + 1

\* The lines with the new one, and the picker that asks about it.
Understood(f, lines, q, n) ==
    LET new == Line(NextNo(lines), q, Match(q).product, n)
        all == Append(lines, new)
    IN /\ Len(lines) < MaxLines
       /\ Persist(all, [At(f, "list") EXCEPT !.lines = all], Loaded(f))
       /\ pickers' = IF Match(q).ask /\ ~ Refused(all)
                     THEN pickers \cup {[no |-> new.no, text |-> q]} ELSE pickers

\* A list, written where the basket is not being changed otherwise.
NewText(q, n) ==
    /\ fsm.st = "list"
    /\ LET f == Loaded(fsm)
           all == Append(f.lines, Line(NextNo(f.lines), q, Match(q).product, n))
       IN /\ Len(f.lines) < MaxLines
          /\ IF \E p \in inactive : Quantity(all, p) > 0
             THEN Load(f) /\ UNCHANGED pickers
             ELSE /\ cart' = Wanted(all) /\ lastRead' = Wanted(all)
                  /\ imported' = TRUE
                  /\ fsm' = [At(f, "list") EXCEPT !.lines = all, !.quoted = "never"]
                  /\ pickers' = IF Match(q).ask
                                THEN pickers \cup {[no |-> Len(all), text |-> q]} ELSE pickers
    /\ UNCHANGED <<inactive, aliases>>

\* Text without a quantity is answered and changes no basket.
Chatter ==
    /\ fsm.st = "list"
    /\ LET f == Loaded(fsm)
       IN Load(IF f.lines = <<>> THEN f ELSE At(f, "list"))
    /\ UNCHANGED <<inactive, pickers, aliases>>

EditLine(no) ==
    /\ fsm' = [At(fsm, "editing") EXCEPT !.about = no]
    /\ UNCHANGED <<cart, imported, inactive, pickers, aliases, lastRead>>

Without(lines, no) ==
    LET kept == InOrder({i \in DOMAIN lines : lines[i].no # no})
    IN [k \in DOMAIN kept |-> lines[kept[k]]]

\* The next text takes the place of a line; a dialogue that has not read the
\* cart reads it first, and the line is gone from its copy either way.
Rewrite(q, n) ==
    /\ fsm.st = "editing"
    /\ LET remaining == Without(fsm.lines, fsm.about)
       IN Understood([fsm EXCEPT !.lines = remaining, !.about = NoProduct], remaining, q, n)
    /\ UNCHANGED <<inactive, aliases>>

RewriteChatter ==
    /\ fsm.st = "editing"
    /\ LET remaining == Without(fsm.lines, fsm.about)
           f == [At(fsm, IF remaining = <<>> THEN fsm.st ELSE "list")
                    EXCEPT !.lines = remaining]
       IN IF fsm.known = "never"
          THEN Load(Loaded(f))
          ELSE fsm' = f /\ UNCHANGED <<cart, imported, lastRead>>
    /\ UNCHANGED <<inactive, pickers, aliases>>

-----------------------------------------------------------------------------
\* Buttons; those of every message of the chat can be pressed at any time

\* The customer picks what was meant by the text of the picker.  The phrasing
\* of the line that has the number now is learned, if it has no product yet.
PickCandidate(picker) ==
    LET chosen == IF picker.text \in Phrases THEN Meant[picker.text] ELSE picker.text
        named == {i \in DOMAIN fsm.lines : fsm.lines[i].no = picker.no}
        lines == [i \in DOMAIN fsm.lines |->
                    IF i \in named THEN [fsm.lines[i] EXCEPT !.product = chosen]
                    ELSE fsm.lines[i]]
    IN /\ picker \in pickers
       /\ aliases' = [t \in Texts |->
                        IF aliases[t] = NoProduct /\ \E i \in named : fsm.lines[i].text = t
                        THEN chosen ELSE aliases[t]]
       /\ Persist(lines, [fsm EXCEPT !.lines = lines], Loaded(fsm))
       /\ UNCHANGED <<inactive, pickers>>

DeleteLine(no) ==
    LET remaining == Without(fsm.lines, no)
    IN /\ remaining # fsm.lines
       /\ Persist(remaining,
                  [(IF remaining = <<>> THEN At(fsm, "list") ELSE fsm)
                      EXCEPT !.lines = remaining],
                  Loaded(fsm))
       /\ UNCHANGED <<inactive, pickers, aliases>>

ClearBasket ==
    /\ Persist(<<>>, [At(fsm, "list") EXCEPT !.lines = <<>>], Loaded(fsm))
    /\ UNCHANGED <<inactive, pickers, aliases>>

SendList ==
    /\ fsm' = At(fsm, "list")
    /\ UNCHANGED <<cart, imported, inactive, pickers, aliases, lastRead>>

BackToBasket ==
    /\ LET f == Loaded(fsm)
       IN Load(IF f.lines = <<>> THEN f ELSE At(f, "list"))
    /\ UNCHANGED <<inactive, pickers, aliases>>

AddItem ==
    /\ Load(At(Loaded(fsm), "list"))
    /\ UNCHANGED <<inactive, pickers, aliases>>

\* A quote of the cart, or the form of a request where no quote covers it.
CalculateQuotes ==
    /\ IF Imported = EmptyCart
       THEN Load(Loaded(fsm))
       ELSE \/ Load([Loaded(fsm) EXCEPT !.quoted = "current"])
            \/ Load(At(Loaded(fsm), "elsewhere"))
    /\ UNCHANGED <<inactive, pickers, aliases>>

\* The menu, /cancel and an expired dialogue forget everything.
BackToMenu ==
    /\ fsm' = Cleared
    /\ UNCHANGED <<cart, imported, inactive, pickers, aliases, lastRead>>

\* A product of the price browser, then its quantity.
PriceAdd(p) ==
    /\ fsm' = [At(fsm, "qty") EXCEPT !.about = p]
    /\ UNCHANGED <<cart, imported, inactive, pickers, aliases, lastRead>>

ProductQty(n) ==
    /\ fsm.st = "qty"
    /\ LET f == Loaded(fsm)
           p == f.about
           has == {i \in DOMAIN f.lines : f.lines[i].product = p}
           sum == n + Imported[p]
           lines == IF has = {} THEN Append(f.lines, Line(NextNo(f.lines), p, p, n))
                    ELSE [i \in DOMAIN f.lines |->
                            IF i = Min(has) THEN [f.lines[i] EXCEPT !.qty = sum] ELSE f.lines[i]]
       IN IF sum > MaxQty \/ \E x \in inactive : Quantity(lines, x) > 0 THEN Load(f)
          ELSE /\ Len(lines) <= MaxLines
               /\ cart' = Wanted(lines) /\ lastRead' = Wanted(lines)
               /\ imported' = TRUE
               /\ fsm' = [At(f, "list") EXCEPT !.lines = lines, !.quoted = "never"]
    /\ UNCHANGED <<inactive, pickers, aliases>>

\* What was quoted is ordered: its lines leave the cart and the dialogue ends.
OrderQuoted ==
    /\ fsm.quoted = "current"
    /\ cart' = EmptyCart
    /\ fsm' = Cleared
    /\ UNCHANGED <<imported, inactive, pickers, aliases, lastRead>>

-----------------------------------------------------------------------------
\* The website changes a line of the cart; the admin takes a product out of sale.
WebEdit(p, n) ==
    /\ cart[p] # n
    /\ n = 0 \/ p \notin inactive
    /\ cart' = [cart EXCEPT ![p] = n]
    /\ fsm' = [fsm EXCEPT !.known = IF @ = "current" THEN "behind" ELSE @,
                          !.quoted = Outdated(@, TRUE)]
    /\ UNCHANGED <<imported, inactive, pickers, aliases, lastRead>>

Deactivate(p) ==
    /\ inactive' = inactive \cup {p}
    /\ UNCHANGED <<cart, imported, fsm, pickers, aliases, lastRead>>

Asks ==
    \/ \E q \in Phrases, n \in Quantities : NewText(q, n) \/ Rewrite(q, n)
    \/ \E picker \in pickers : PickCandidate(picker)
    \/ \E n \in Quantities : ProductQty(n)
Reads == Chatter \/ RewriteChatter \/ BackToBasket \/ AddItem \/ CalculateQuotes
Removes == (\E no \in 1..MaxLines : DeleteLine(no)) \/ ClearBasket
Turns ==
    \/ SendList \/ BackToMenu
    \/ \E no \in 1..MaxLines : EditLine(no)
    \/ \E p \in Products : PriceAdd(p)

BasketBot == Asks \/ Reads \/ Removes \/ Turns
Web == \E p \in Products, n \in Quantities \cup {0} : WebEdit(p, n)
BasketNext == BasketBot \/ OrderQuoted \/ Web \/ \E p \in Retired : Deactivate(p)

BasketSpec == BasketInit /\ [][BasketNext]_basketVars

-----------------------------------------------------------------------------
\* The state is well formed.
BasketTypeOK ==
    /\ cart \in [Products -> 0..MaxQty] /\ lastRead \in [Products -> 0..MaxQty]
    /\ imported \in BOOLEAN
    /\ inactive \subseteq Products
    /\ fsm \in [st: BasketStates, lines: Seq(LineSet),
                known: {"never", "current", "behind"},
                quoted: {"never", "current", "behind"},
                about: Nat]
    /\ pickers \subseteq [no: 1..(2 * MaxLines), text: Texts]
    /\ aliases \in [Texts -> 0..N]

\* A step of the bot takes from the cart something its text does not name again.
Takes ==
    \E p \in Products :
        /\ cart'[p] < cart[p]
        /\ ~ \E q \in Phrases, n \in Quantities : Match(q).product = p /\ NewText(q, n)

\* What the dialogue has not read it does not take away: where the website
\* changed the cart since its customer was shown it, no step of the bot lowers
\* or removes a product.
NothingUnseenIsTaken ==
    [][cart # lastRead /\ fsm.known # "never" /\ Takes => ~ BasketBot]_basketVars

=============================================================================
