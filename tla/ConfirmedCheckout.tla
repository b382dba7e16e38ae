------------------------- MODULE ConfirmedCheckout -------------------------
(***************************************************************************)
(* What a checkout promises a customer, whatever pages, retries and lost   *)
(* answers lie in between: a sale takes the whole basket as it stands, the *)
(* basket is the one the customer confirmed, one confirmation is served    *)
(* once, and between sales only the customer changes the basket, one       *)
(* product at a time.  Checkout implements this.                           *)
(***************************************************************************)
EXTENDS Naturals, Sequences

CONSTANT Products

VARIABLES
    basket,     \* quantity per product, 0 when it is not in the basket
    asked,      \* what customers confirmed: [kind, key, lines, total, contact]
    taken       \* what was sold, in order

EmptyBasket == [p \in Products |-> 0]

Init ==
    /\ basket = EmptyBasket
    /\ asked = {}
    /\ taken = <<>>

Edit ==
    /\ \E p \in Products : \A other \in Products \ {p} : basket'[other] = basket[other]
    /\ DOMAIN basket' = Products
    /\ UNCHANGED <<asked, taken>>

Ask ==
    /\ \E c \in asked' : asked' = asked \cup {c} /\ c.lines # EmptyBasket
    /\ UNCHANGED <<basket, taken>>

Served(c) == \E i \in DOMAIN taken : taken[i].kind = c.kind /\ taken[i].key = c.key

Take ==
    \E c \in asked :
        /\ ~Served(c)
        /\ basket = c.lines
        /\ taken' = Append(taken, c)
        /\ basket' = EmptyBasket
        /\ UNCHANGED asked

Next == Edit \/ Ask \/ Take

Spec == Init /\ [][Next]_<<basket, asked, taken>>
=============================================================================
