--------------------------- MODULE CheckoutProofs ---------------------------
(***************************************************************************)
(* Proofs about Checkout, for any number of pages, products, contacts and  *)
(* keys and any quantities and prices.                                     *)
(***************************************************************************)
EXTENDS Checkout, FiniteSetTheorems, SequenceTheorems, TLAPS

\* An empty cart is a cart, and its total is a total.
LEMMA EmptyIsTyped == EmptyLines \in Lines /\ 0 \in Totals
BY DEF EmptyLines, Lines, Totals

\* A page that shows nothing is a page, and so is one that has just loaded.
LEMMA LoadedIsPage ==
    ASSUME NEW S, NEW revision \in Nat, NEW lines \in Lines
    PROVE  /\ Closed \in PageOver(S)
           /\ [Closed EXCEPT !.stage = "open", !.revision = revision, !.lines = lines] \in PageOver(S)
BY EmptyIsTyped DEF Closed, PageOver

\* What a quote computes for a cart is a total.
LEMMA TotalIsTyped ==
    ASSUME NEW lines \in Lines, NEW prices \in PriceLists
    PROVE  Total(lines, prices) \in Totals
BY DEF Totals

\* A key that is drawn is fresh.
LEMMA NewKeyIsFresh ==
    ASSUME FreshKeys # {}
    PROVE  NewKey \in FreshKeys /\ NewKey \in Keys
BY DEF NewKey, FreshKeys

\* Answering one request leaves every page a page.
LEMMA AnswerIsTyped ==
    ASSUME page \in [Pages -> PageOver(sent)], NEW r, NEW answered,
           \A w \in Pages : answered[w] \in PageOver(sent), Answer(r, answered), sent' = sent
    PROVE  page' \in [Pages -> PageOver(sent')]
BY DEF Answer, PageOver

-----------------------------------------------------------------------------
\* The types hold at the start.
LEMMA TypeInit == Init => TypeOK
<1> SUFFICES ASSUME Init PROVE TypeOK
  OBVIOUS
<1>1. page \in [Pages -> PageOver(sent)]
  BY LoadedIsPage, EmptyIsTyped DEF Init, PageOver
<1> QED BY <1>1, EmptyIsTyped DEF Init, TypeOK, PriceLists

\* A step of the catalogue or of a page keeps the types.
LEMMA TypePage ==
    ASSUME TypeOK, NEW w \in Pages, PageStep(w)
    PROVE  TypeOK'
<1> USE DEF TypeOK
<1>1. page[w] \in PageOver(sent)
  BY DEF PageOver
<1>2. CASE sent' = sent /\ UNCHANGED <<cart, offers, attempts, sold>>
            /\ \E v \in PageOver(sent) : page' = [page EXCEPT ![w] = v]
  BY <1>2 DEF PageOver, Prints, Requests
<1>3. CASE LoadPage(w)
  BY <1>2, <1>3, LoadedIsPage DEF LoadPage
<1>4. CASE Quote(w)
  <2>1. [page[w] EXCEPT !.stage = "quoted", !.key = NewKey, !.total = Total(page[w].lines, offers)]
            \in PageOver(sent)
    <3>1. Total(page[w].lines, offers) \in Totals /\ NewKey \in Keys
      BY <1>1, <1>4, TotalIsTyped, NewKeyIsFresh DEF Quote, PageOver
    <3> QED BY <1>1, <3>1 DEF PageOver
  <2> QED BY <1>2, <1>4, <2>1 DEF Quote
<1>5. CASE OfferRequest(w)
  <2>1. [page[w] EXCEPT !.stage = "request", !.key = NewKey] \in PageOver(sent)
    BY <1>1, <1>5, NewKeyIsFresh DEF OfferRequest, PageOver
  <2> QED BY <1>2, <1>5, <2>1 DEF OfferRequest
<1>6. CASE \E contact \in Contacts : Confirm(w, contact)
  <2> PICK contact \in Contacts : Confirm(w, contact)
    BY <1>6
  <2> DEFINE r == Body(w, contact)
             v == [page[w] EXCEPT !.waiting = {r}, !.kept = IF w \in ChatCarts THEN {r} ELSE {}]
  <2>1. r \in Requests
    <3>1. page[w].key \in Keys
      BY <1>1 DEF Confirm, PageOver
    <3> QED BY <1>1, <3>1 DEF Body, Requests, PageOver
  <2>2. sent' = sent \cup {r}
    BY DEF Confirm
  <2>3. v \in PageOver(sent')
    <3>1. page[w] \in PageOver(sent')
      BY <1>1, <2>2 DEF PageOver
    <3>2. {r} \in SUBSET sent' /\ (IF w \in ChatCarts THEN {r} ELSE {}) \in SUBSET sent'
      BY <2>2
    <3> HIDE DEF r
    <3> QED BY <3>1, <3>2 DEF PageOver
  <2>4. page' \in [Pages -> PageOver(sent')]
    <3>1. \A u \in Pages : page[u] \in PageOver(sent')
      BY <2>2 DEF PageOver
    <3>2. page' = [page EXCEPT ![w] = v]
      BY DEF Confirm
    <3> HIDE DEF v
    <3> QED BY <2>3, <3>1, <3>2
  <2> QED BY <2>1, <2>2, <2>4 DEF Confirm, PageOver, Prints, Requests
<1>7. CASE GiveUp(w)
  <2>1. [page[w] EXCEPT !.waiting = {}] \in PageOver(sent)
    BY <1>1 DEF PageOver
  <2> QED BY <1>2, <1>7, <2>1 DEF GiveUp
<1>8. CASE Resend(w)
  <2>1. [page[w] EXCEPT !.waiting = page[w].kept] \in PageOver(sent)
    BY <1>1 DEF PageOver
  <2> QED BY <1>2, <1>8, <2>1 DEF Resend
<1> QED BY <1>3, <1>4, <1>5, <1>6, <1>7, <1>8 DEF PageStep

\* A handler keeps the types.
LEMMA TypeHandle ==
    ASSUME TypeOK, NEW r \in sent, Handle(r)
    PROVE  TypeOK'
<1> USE DEF TypeOK
<1>1. /\ \A w \in Pages : page[w] \in PageOver(sent)
      /\ r \in Requests
  BY DEF PageOver
<1>2. CASE /\ UNCHANGED <<cart, offers, sent, attempts, sold>>
            /\ \E answered : Answer(r, answered) /\ \A w \in Pages : answered[w] \in PageOver(sent)
  <2>1. page' \in [Pages -> PageOver(sent')]
    BY <1>2, AnswerIsTyped DEF PageOver
  <2> QED BY <1>2, <2>1 DEF Requests, Prints
<1>3. \A sale \in Nat : \A w \in Pages : Told(sale)[w] \in PageOver(sent)
  BY <1>1 DEF Told, PageOver
<1>4. CASE Replay(r)
  <2> PICK receipt \in Receipts(r) :
            /\ Answer(r, Told(receipt.sale))
            /\ UNCHANGED <<cart, offers, sent, attempts, sold>>
    BY <1>4 DEF Replay
  <2>1. receipt.sale \in Nat
    BY DEF Receipts
  <2> QED BY <1>2, <1>3, <2>1
<1>5. CASE RefuseReusedKey(r)
  <2> DEFINE answered == [w \in Pages |-> [page[w] EXCEPT !.waiting = {}, !.kept = {}]]
  <2>1. \A w \in Pages : answered[w] \in PageOver(sent)
    BY <1>1 DEF PageOver
  <2>2. Answer(r, answered)
    BY <1>5 DEF RefuseReusedKey
  <2> HIDE DEF answered
  <2> QED BY <1>2, <1>5, <2>1, <2>2 DEF RefuseReusedKey
<1>6. CASE RefuseStale(r)
  <2> DEFINE answered == [w \in Pages |-> Closed]
  <2>1. \A w \in Pages : answered[w] \in PageOver(sent)
    BY LoadedIsPage
  <2>2. Answer(r, answered)
    BY <1>6 DEF RefuseStale
  <2> HIDE DEF answered
  <2> QED BY <1>2, <1>6, <2>1, <2>2 DEF RefuseStale
<1>7. CASE RefuseUnpriced(r)
  <2> DEFINE answered ==
        [w \in Pages |->
            IF w \in ChatCarts
            THEN [page[w] EXCEPT !.stage = "request", !.total = 0, !.key = NewKey,
                                 !.waiting = {}, !.kept = {}]
            ELSE [page[w] EXCEPT !.waiting = {}]]
  <2>1. NewKey \in Keys
    BY <1>7, NewKeyIsFresh DEF RefuseUnpriced
  <2>2. \A w \in Pages : answered[w] \in PageOver(sent)
    BY <1>1, <2>1, EmptyIsTyped DEF PageOver
  <2>3. Answer(r, answered)
    BY <1>7 DEF RefuseUnpriced
  <2> HIDE DEF answered
  <2> QED BY <1>2, <1>7, <2>2, <2>3 DEF RefuseUnpriced
<1>8. CASE RefuseTotal(r)
  <2> DEFINE answered ==
        [w \in Pages |->
            [page[w] EXCEPT !.total = Total(cart.lines, offers), !.key = NewKey,
                            !.waiting = {}, !.kept = {}]]
  <2>1. NewKey \in Keys /\ Total(cart.lines, offers) \in Totals
    BY <1>8, NewKeyIsFresh, TotalIsTyped DEF RefuseTotal
  <2>2. \A w \in Pages : answered[w] \in PageOver(sent)
    BY <1>1, <2>1 DEF PageOver
  <2>3. Answer(r, answered)
    BY <1>8 DEF RefuseTotal
  <2> HIDE DEF answered
  <2> QED BY <1>2, <1>8, <2>2, <2>3 DEF RefuseTotal
<1>9. ASSUME NEW total \in Totals, Record(r, total), sent' = sent, offers' = offers,
             cart' \in [revision : Nat, lines : Lines]
      PROVE  TypeOK'
  <2>1. page' \in [Pages -> PageOver(sent')]
    <3>1. Len(sold) + 1 \in Nat
      OBVIOUS
    <3>2. Answer(r, Told(Len(sold) + 1))
      BY <1>9 DEF Record
    <3> QED BY <1>3, <1>9, <3>1, <3>2, AnswerIsTyped DEF PageOver
  <2> DEFINE sale == [kind |-> r.kind, key |-> r.key, revision |-> cart.revision,
                      lines |-> cart.lines, total |-> total, contact |-> r.contact]
             receipt == [kind |-> r.kind, key |-> r.key, fingerprint |-> Fingerprint(r),
                         sale |-> Len(sold) + 1]
  <2>2. sale \in Requests
    BY <1>1, <1>9 DEF Requests
  <2>3. /\ sold' \in Seq(Requests)
        /\ DOMAIN sold \subseteq DOMAIN sold'
        /\ Len(sold) + 1 \in DOMAIN sold'
    BY <1>9, <2>2 DEF Record
  <2>4. /\ receipt.kind \in {"order", "request"}
        /\ receipt.key \in Keys
        /\ receipt.fingerprint \in Prints
    BY <1>1 DEF Requests, Fingerprint, Prints
  <2>5. attempts' = attempts \cup {receipt}
    BY <1>9 DEF Record
  <2> QED BY <1>9, <2>1, <2>3, <2>4, <2>5 DEF Requests, Prints
<1>10. CASE PlaceOrder(r)
  <2>1. Total(cart.lines, offers) \in Totals
    BY TotalIsTyped
  <2>2. Cardinality(InCart(cart.lines)) \in Nat
    BY CheckoutAssumption, FS_Subset, FS_CardinalityType DEF CheckoutAssumption, InCart
  <2>3. cart' \in [revision : Nat, lines : Lines]
    BY <1>10, <2>2, EmptyIsTyped DEF PlaceOrder, AfterOrder
  <2> QED BY <1>9, <1>10, <2>1, <2>3 DEF PlaceOrder
<1>11. CASE CreateRequest(r)
  BY <1>9, <1>11, EmptyIsTyped DEF CreateRequest, Bump
<1> QED BY <1>4, <1>5, <1>6, <1>7, <1>8, <1>10, <1>11 DEF Handle

\* Every step keeps the types.
LEMMA TypeNext == TypeOK /\ [Next]_vars => TypeOK'
<1> SUFFICES ASSUME TypeOK, [Next]_vars PROVE TypeOK'
  OBVIOUS
<1>1. CASE \E p \in Products, price \in Prices \cup {NoOffer} : ChangeOffer(p, price)
  BY <1>1 DEF ChangeOffer, TypeOK, PriceLists, PageOver, Requests, Prints
<1>2. CASE \E p \in Products, qty \in Quantities \cup {0} : SetItem(p, qty)
  <2>1. cart' \in [revision : Nat, lines : Lines]
    BY <1>2 DEF SetItem, Bump, TypeOK, Lines
  <2> QED BY <1>2, <2>1 DEF SetItem, TypeOK, PageOver, Requests, Prints
<1>3. CASE \E w \in Pages : PageStep(w)
  BY <1>3, TypePage
<1>4. CASE \E r \in sent : Handle(r)
  BY <1>4, TypeHandle
<1>5. CASE UNCHANGED vars
  BY <1>5 DEF vars, TypeOK, PageOver, Requests, Prints
<1> QED BY <1>1, <1>2, <1>3, <1>4, <1>5 DEF Next

\* The types hold in every state, for any pages, products and prices.
THEOREM TypeCorrect == Spec => []TypeOK
BY TypeInit, TypeNext, PTL DEF Spec

-----------------------------------------------------------------------------
(***************************************************************************)
(* The inductive invariant.  A revision names one content of the cart:     *)
(* whatever a page shows or a request carries agrees with the cart, or     *)
(* with the sale that was made, of its revision.  No conjunct of the       *)
(* safety properties survives a step without it.                           *)
(***************************************************************************)
Agrees(v) ==
    /\ v.revision <= cart.revision
    /\ v.revision = cart.revision => v.lines = cart.lines
    /\ \A i \in DOMAIN sold : v.revision = sold[i].revision => v.lines = sold[i].lines

Matches(sale, r) ==
    /\ sale.kind = r.kind
    /\ sale.revision = r.revision
    /\ sale.total = r.total
    /\ sale.contact = r.contact

GoodPage(v) ==
    /\ v.stage # "closed" => Agrees(v)
    /\ v.stage \in {"quoted", "request"} => v.lines # EmptyLines
    /\ v.stage \in {"open", "request"} => v.total = 0
    /\ \A r, s \in v.waiting : r = s
    /\ \A r, s \in v.kept : r = s
    /\ v.stage # "done" =>
            \A r \in v.waiting \cup v.kept :
                v.stage = IF r.kind = "order" THEN "quoted" ELSE "request"
    /\ v.stage = "done" =>
            /\ v.sale \in DOMAIN sold
            /\ v.kept = {}
            /\ \A r \in v.waiting : Matches(sold[v.sale], r)

GoodRequest(r) ==
    /\ Agrees(r)
    /\ r.lines # EmptyLines
    /\ r.kind = "request" => r.total = 0

GoodReceipt(a) ==
    /\ a.sale \in DOMAIN sold
    /\ sold[a.sale].kind = a.kind
    /\ sold[a.sale].revision = a.fingerprint.revision
    /\ sold[a.sale].total = a.fingerprint.total
    /\ sold[a.sale].contact = a.fingerprint.contact

IInv ==
    /\ TypeOK
    /\ \A w \in Pages : GoodPage(page[w])
    /\ \A r \in sent : GoodRequest(r)
    /\ \A a \in attempts : GoodReceipt(a)
    /\ \A i \in DOMAIN sold : \E a \in attempts : a.kind = sold[i].kind /\ a.key = sold[i].key
    /\ \A i \in DOMAIN sold : sold[i].revision < cart.revision
    /\ OneSalePerRevision

\* A page that shows nothing, and one that has just loaded the cart.
LEMMA LoadedIsGood ==
    ASSUME TypeOK, \A i \in DOMAIN sold : sold[i].revision < cart.revision
    PROVE  /\ GoodPage(Closed)
           /\ GoodPage([Closed EXCEPT !.stage = "open", !.revision = cart.revision, !.lines = cart.lines])
<1>1. cart.revision \in Nat /\ \A i \in DOMAIN sold : sold[i].revision # cart.revision
  BY DEF TypeOK, Requests
<1>2. GoodPage(Closed)
  BY DEF Closed, GoodPage
<1> DEFINE v == [Closed EXCEPT !.stage = "open", !.revision = cart.revision, !.lines = cart.lines]
<1>3. /\ v.stage = "open"
      /\ v.revision = cart.revision
      /\ v.lines = cart.lines
      /\ v.total = 0
      /\ v.waiting = {}
      /\ v.kept = {}
  BY DEF Closed
<1>4. GoodPage(v)
  <2> HIDE DEF v
  <2> QED BY <1>1, <1>3 DEF GoodPage, Agrees
<1> QED BY <1>2, <1>4

\* While the cart and the sales stand, what is good stays good.
LEMMA QuietStep ==
    ASSUME IInv, TypeOK', UNCHANGED <<cart, attempts, sold>>,
           \A w \in Pages : GoodPage(page'[w]), \A r \in sent' : GoodRequest(r)
    PROVE  IInv'
<1>1. \A w \in Pages : GoodPage(page[w])'
  BY DEF GoodPage, Agrees, Matches
<1>2. \A r \in sent' : GoodRequest(r)'
  BY DEF GoodRequest, Agrees
<1>3. \A a \in attempts' : GoodReceipt(a)'
  BY DEF IInv, GoodReceipt
<1> QED BY <1>1, <1>2, <1>3 DEF IInv, OneSalePerRevision

\* A step of one page leaves every page and every request good.
LEMMA InvPage ==
    ASSUME IInv, NEW w \in Pages, PageStep(w)
    PROVE  IInv'
<1> USE DEF IInv
<1>1. TypeOK'
  BY TypePage
<1>2. page[w] \in PageOver(sent) /\ GoodPage(page[w]) /\ page \in [Pages -> PageOver(sent)]
  BY DEF TypeOK
<1>3. ASSUME NEW v, GoodPage(v), page' = [page EXCEPT ![w] = v], sent' = sent,
             UNCHANGED <<cart, attempts, sold>>
      PROVE  IInv'
  <2>1. \A u \in Pages : GoodPage(page'[u])
    BY <1>2, <1>3
  <2> QED BY <1>1, <1>3, <2>1, QuietStep
<1>4. CASE LoadPage(w)
  BY <1>3, <1>4, LoadedIsGood DEF LoadPage
<1>5. CASE Quote(w)
  <2>1. GoodPage([page[w] EXCEPT !.stage = "quoted", !.key = NewKey,
                                 !.total = Total(page[w].lines, offers)])
    BY <1>2, <1>5 DEF Quote, GoodPage, PageOver, Agrees
  <2> QED BY <1>3, <1>5, <2>1 DEF Quote
<1>6. CASE OfferRequest(w)
  <2>1. GoodPage([page[w] EXCEPT !.stage = "request", !.key = NewKey])
    BY <1>2, <1>6 DEF OfferRequest, GoodPage, PageOver, Agrees
  <2> QED BY <1>3, <1>6, <2>1 DEF OfferRequest
<1>7. CASE \E contact \in Contacts : Confirm(w, contact)
  <2> PICK contact \in Contacts : Confirm(w, contact)
    BY <1>7
  <2> DEFINE r == Body(w, contact)
             kept == IF w \in ChatCarts THEN {r} ELSE {}
             v == [page[w] EXCEPT !.waiting = {r}, !.kept = kept]
  <2>1. GoodRequest(r)
    BY <1>2 DEF Confirm, Body, GoodRequest, GoodPage, Agrees, PageOver
  <2>2. GoodPage(v)
    <3>1. \A s, t \in kept : s = t
      OBVIOUS
    <3>2. \A s, t \in {r} : s = t
      OBVIOUS
    <3>3. /\ page[w].stage # "done"
          /\ \A s \in {r} \cup kept :
                page[w].stage = IF s.kind = "order" THEN "quoted" ELSE "request"
      BY DEF Confirm, Body
    <3> HIDE DEF r, kept
    <3> QED BY <1>2, <3>1, <3>2, <3>3 DEF GoodPage, PageOver, Agrees
  <2>3. /\ sent' = sent \cup {r}
        /\ page' = [page EXCEPT ![w] = v]
        /\ UNCHANGED <<cart, attempts, sold>>
    BY DEF Confirm
  <2> HIDE DEF r, v, kept
  <2>4. \A u \in Pages : GoodPage(page'[u])
    BY <1>2, <2>2, <2>3
  <2> QED BY <1>1, <2>1, <2>3, <2>4, QuietStep
<1>8. CASE GiveUp(w)
  <2>1. GoodPage([page[w] EXCEPT !.waiting = {}])
    BY <1>2, <1>8 DEF GiveUp, GoodPage, PageOver, Agrees
  <2> QED BY <1>3, <1>8, <2>1 DEF GiveUp
<1>9. CASE Resend(w)
  <2>1. page[w].stage # "done"
    BY <1>2, <1>9 DEF Resend, GoodPage
  <2>2. GoodPage([page[w] EXCEPT !.waiting = page[w].kept])
    BY <1>2, <1>9, <2>1 DEF Resend, GoodPage, PageOver, Agrees
  <2> QED BY <1>3, <1>9, <2>2 DEF Resend
<1> QED BY <1>4, <1>5, <1>6, <1>7, <1>8, <1>9 DEF PageStep

\* The page that waits for a request is the page that made it.
LEMMA AnswerIsGood ==
    ASSUME NEW r, NEW answered, Answer(r, answered), \A w \in Pages : GoodPage(page[w]),
           \A w \in Pages : Awaits(w, r) => GoodPage(answered[w])
    PROVE  \A w \in Pages : GoodPage(page'[w])
BY DEF Answer

\* An answer that leaves the cart and the sales as they are.
LEMMA InvRefuse ==
    ASSUME IInv, TypeOK', NEW r \in sent, NEW answered, Answer(r, answered),
           UNCHANGED <<cart, sent, attempts, sold>>,
           \A w \in Pages : Awaits(w, r) => GoodPage(answered[w])
    PROVE  IInv'
<1>1. \A w \in Pages : GoodPage(page'[w])
  BY AnswerIsGood DEF IInv
<1> QED BY <1>1, QuietStep DEF IInv

\* When the cart moves on, what agreed with it agrees with the sale made of
\* it, if one was made.
LEMMA LaterAgrees ==
    ASSUME TypeOK, NEW v, Agrees(v), v.revision \in Nat,
           cart'.revision \in Nat, cart'.revision > cart.revision,
           \/ sold' = sold
           \/ \E sale : /\ sold' = Append(sold, sale)
                        /\ sale.revision = cart.revision
                        /\ sale.lines = cart.lines
    PROVE  /\ v.revision <= cart'.revision
           /\ v.revision = cart'.revision => v.lines = cart'.lines
           /\ \A i \in DOMAIN sold' : v.revision = sold'[i].revision => v.lines = sold'[i].lines
<1>1. cart.revision \in Nat /\ sold \in Seq(Requests)
  BY DEF TypeOK
<1>2. v.revision < cart'.revision
  BY <1>1 DEF Agrees
<1>3. CASE sold' = sold
  BY <1>2, <1>3 DEF Agrees
<1>4. ASSUME NEW sale, sold' = Append(sold, sale), sale.revision = cart.revision,
             sale.lines = cart.lines, NEW i \in DOMAIN sold', v.revision = sold'[i].revision
      PROVE  v.lines = sold'[i].lines
  <2>1. CASE i \in DOMAIN sold
    BY <1>1, <1>4, <2>1 DEF Agrees
  <2>2. CASE i = Len(sold) + 1
    BY <1>1, <1>4, <2>2 DEF Agrees
  <2> QED BY <1>1, <1>4, <2>1, <2>2
<1> QED BY <1>2, <1>3, <1>4

\* What every handler that sells nothing leaves.
LEMMA InvReplay ==
    ASSUME IInv, TypeOK', NEW r \in sent, Replay(r)
    PROVE  IInv'
<1> USE DEF IInv
<1> PICK receipt \in Receipts(r) :
        /\ receipt.fingerprint = Fingerprint(r)
        /\ Answer(r, Told(receipt.sale))
        /\ UNCHANGED <<cart, offers, sent, attempts, sold>>
  BY DEF Replay
<1>1. receipt.sale \in DOMAIN sold /\ Matches(sold[receipt.sale], r)
  BY DEF Receipts, GoodReceipt, Fingerprint, Matches
<1>2. ASSUME NEW w \in Pages, Awaits(w, r)
      PROVE  GoodPage(Told(receipt.sale)[w])
  <2>1. page[w] \in PageOver(sent) /\ GoodPage(page[w]) /\ \A s \in page[w].waiting : s = r
    BY <1>2 DEF TypeOK, Awaits, GoodPage
  <2>2. page[w].stage \in {"quoted", "request"}
    BY <1>2, <2>1 DEF Awaits, GoodPage
  <2> HIDE DEF IInv
  <2> QED BY <1>1, <2>1, <2>2 DEF Told, PageOver, GoodPage, Agrees, Matches
<1> QED BY <1>2, InvRefuse

LEMMA InvRefusals ==
    ASSUME IInv, TypeOK', NEW r \in sent,
           RefuseReusedKey(r) \/ RefuseStale(r) \/ RefuseUnpriced(r) \/ RefuseTotal(r)
    PROVE  IInv'
<1>1. ASSUME NEW w \in Pages, Awaits(w, r)
      PROVE  /\ page[w] \in PageOver(sent)
             /\ GoodPage(page[w])
             /\ page[w].stage = IF r.kind = "order" THEN "quoted" ELSE "request"
             /\ page[w].lines # EmptyLines
  BY <1>1 DEF IInv, TypeOK, Awaits, GoodPage
<1>2. CASE RefuseReusedKey(r)
  <2> DEFINE answered == [w \in Pages |-> [page[w] EXCEPT !.waiting = {}, !.kept = {}]]
  <2>1. ASSUME NEW w \in Pages, Awaits(w, r) PROVE GoodPage(answered[w])
    BY <1>1, <2>1 DEF GoodPage, PageOver, Agrees
  <2>2. Answer(r, answered)
    BY <1>2 DEF RefuseReusedKey
  <2> HIDE DEF answered
  <2> QED BY <1>2, <2>1, <2>2, InvRefuse DEF RefuseReusedKey
<1>3. CASE RefuseStale(r)
  <2> DEFINE answered == [w \in Pages |-> Closed]
  <2>1. \A w \in Pages : GoodPage(answered[w])
    BY LoadedIsGood DEF IInv
  <2>2. Answer(r, answered)
    BY <1>3 DEF RefuseStale
  <2> HIDE DEF answered
  <2> QED BY <1>3, <2>1, <2>2, InvRefuse DEF RefuseStale
<1>4. CASE RefuseUnpriced(r)
  <2> DEFINE answered ==
        [w \in Pages |->
            IF w \in ChatCarts
            THEN [page[w] EXCEPT !.stage = "request", !.total = 0, !.key = NewKey,
                                 !.waiting = {}, !.kept = {}]
            ELSE [page[w] EXCEPT !.waiting = {}]]
  <2>1. ASSUME NEW w \in Pages, Awaits(w, r) PROVE GoodPage(answered[w])
    <3>1. CASE w \in ChatCarts
      BY <1>1, <2>1, <3>1 DEF GoodPage, PageOver, Agrees
    <3>2. CASE w \notin ChatCarts
      BY <1>1, <2>1, <3>2 DEF GoodPage, PageOver, Agrees
    <3> QED BY <3>1, <3>2
  <2>2. Answer(r, answered)
    BY <1>4 DEF RefuseUnpriced
  <2> HIDE DEF answered
  <2> QED BY <1>4, <2>1, <2>2, InvRefuse DEF RefuseUnpriced
<1>5. CASE RefuseTotal(r)
  <2> DEFINE answered ==
        [w \in Pages |->
            [page[w] EXCEPT !.total = Total(cart.lines, offers), !.key = NewKey,
                            !.waiting = {}, !.kept = {}]]
  <2>1. ASSUME NEW w \in Pages, Awaits(w, r) PROVE GoodPage(answered[w])
    <3>1. page[w].stage = "quoted"
      BY <1>1, <1>5, <2>1 DEF RefuseTotal
    <3> QED BY <1>1, <2>1, <3>1 DEF GoodPage, PageOver, Agrees
  <2>2. Answer(r, answered)
    BY <1>5 DEF RefuseTotal
  <2> HIDE DEF answered
  <2> QED BY <1>5, <2>1, <2>2, InvRefuse DEF RefuseTotal
<1> QED BY <1>2, <1>3, <1>4, <1>5

\* The cart has moved on from every sale.
LEMMA SalesAreOld ==
    ASSUME IInv
    PROVE  \A i \in DOMAIN sold : sold[i].revision \in Nat /\ sold[i].revision < cart.revision
<1>1. \A i \in DOMAIN sold : sold[i] \in Requests
  BY DEF IInv, TypeOK
<1>2. \A r \in Requests : r.revision \in Nat
  BY DEF Requests
<1> QED BY <1>1, <1>2 DEF IInv

\* An edit moves the cart away from everything that was shown of it.
LEMMA InvEdit ==
    ASSUME IInv, TypeOK', cart'.revision > cart.revision, UNCHANGED <<page, sent, attempts, sold>>
    PROVE  IInv'
<1>1. TypeOK /\ cart.revision \in Nat /\ cart'.revision \in Nat /\ sold \in Seq(Requests)
  BY DEF IInv, TypeOK
<1>2. \A w \in Pages : GoodPage(page[w])'
  <2> TAKE w \in Pages
  <2>1. page[w].revision \in Nat /\ GoodPage(page[w])
    BY DEF IInv, TypeOK, PageOver
  <2> HIDE DEF IInv
  <2> QED BY <1>1, <2>1, LaterAgrees DEF GoodPage, Agrees, Matches
<1>3. \A r \in sent' : GoodRequest(r)'
  <2> TAKE r \in sent'
  <2>1. r.revision \in Nat /\ GoodRequest(r)
    BY DEF IInv, TypeOK, Requests
  <2> HIDE DEF IInv
  <2> QED BY <1>1, <2>1, LaterAgrees DEF GoodRequest, Agrees
<1>4. \A a \in attempts' : GoodReceipt(a)'
  BY DEF IInv, GoodReceipt
<1>5. \A i \in DOMAIN sold' : sold'[i].revision < cart'.revision
  <2>1. \A i \in DOMAIN sold : sold[i].revision \in Nat /\ sold[i].revision < cart.revision
    BY SalesAreOld
  <2> QED BY <1>1, <2>1
<1> QED BY <1>2, <1>3, <1>4, <1>5 DEF IInv, OneSalePerRevision

\* A sale is of the cart as it was confirmed, and the cart moves on.
LEMMA InvRecord ==
    ASSUME IInv, TypeOK', NEW r \in sent, Record(r, r.total), IsCurrent(r), sent' = sent,
           cart'.revision > cart.revision
    PROVE  IInv'
<1> DEFINE sale == [kind |-> r.kind, key |-> r.key, revision |-> cart.revision,
                    lines |-> cart.lines, total |-> r.total, contact |-> r.contact]
           receipt == [kind |-> r.kind, key |-> r.key, fingerprint |-> Fingerprint(r),
                       sale |-> Len(sold) + 1]
<1>1. /\ TypeOK
      /\ cart.revision \in Nat
      /\ cart'.revision \in Nat
      /\ sold \in Seq(Requests)
      /\ r \in Requests
  BY DEF IInv, TypeOK
<1>2. /\ sold' = Append(sold, sale)
      /\ attempts' = attempts \cup {receipt}
      /\ Answer(r, Told(Len(sold) + 1))
  BY DEF Record
<1>3. /\ sale.kind = r.kind
      /\ sale.key = r.key
      /\ sale.revision = cart.revision
      /\ sale.lines = cart.lines
      /\ Matches(sale, r)
  BY DEF IsCurrent, Matches
<1>4. /\ receipt.kind = r.kind
      /\ receipt.key = r.key
      /\ receipt.sale = Len(sold) + 1
      /\ receipt.fingerprint.revision = r.revision
      /\ receipt.fingerprint.total = r.total
      /\ receipt.fingerprint.contact = r.contact
  BY DEF Fingerprint
<1> HIDE DEF sale, receipt
<1>5. /\ DOMAIN sold' = DOMAIN sold \cup {Len(sold) + 1}
      /\ sold'[Len(sold) + 1] = sale
      /\ \A i \in DOMAIN sold : sold'[i] = sold[i] /\ i \in Nat /\ i < Len(sold) + 1
  BY <1>1, <1>2
<1>6. \A w \in Pages : GoodPage(page[w])'
  <2> SUFFICES ASSUME NEW w \in Pages PROVE GoodPage(page[w])'
    OBVIOUS
  <2>1. /\ page[w] \in PageOver(sent)
        /\ GoodPage(page[w])
    BY DEF IInv, TypeOK
  <2>2. page[w].stage # "closed" =>
            /\ page[w].revision <= cart'.revision
            /\ page[w].revision = cart'.revision => page[w].lines = cart'.lines
            /\ \A i \in DOMAIN sold' :
                    page[w].revision = sold'[i].revision => page[w].lines = sold'[i].lines
    <3> SUFFICES ASSUME page[w].stage # "closed"
                 PROVE  /\ page[w].revision <= cart'.revision
                        /\ page[w].revision = cart'.revision => page[w].lines = cart'.lines
                        /\ \A i \in DOMAIN sold' :
                            page[w].revision = sold'[i].revision => page[w].lines = sold'[i].lines
      OBVIOUS
    <3>1. page[w].revision \in Nat /\ Agrees(page[w])
      BY <2>1 DEF PageOver, GoodPage
    <3> QED BY <1>1, <1>2, <1>3, <3>1, LaterAgrees
  <2>3. CASE ~Awaits(w, r)
    <3>1. page'[w] = page[w]
      BY <1>2, <2>3 DEF Answer
    <3> QED BY <1>5, <2>1, <2>2, <3>1 DEF GoodPage, Agrees, Matches
  <2>4. CASE Awaits(w, r)
    <3>1. page'[w] = [page[w] EXCEPT !.stage = "done", !.kept = {}, !.sale = Len(sold) + 1]
      BY <1>2, <2>4 DEF Answer, Told
    <3>2. /\ page'[w].stage = "done"
          /\ page'[w].kept = {}
          /\ page'[w].sale = Len(sold) + 1
          /\ page'[w].waiting = page[w].waiting
          /\ page'[w].revision = page[w].revision
          /\ page'[w].lines = page[w].lines
      BY <2>1, <3>1 DEF PageOver
    <3>3. page[w].stage # "closed" /\ \A s \in page[w].waiting : s = r
      BY <2>1, <2>4 DEF Awaits, GoodPage
    <3>4. \A s \in page[w].waiting : Matches(sale, s)
      BY <1>3, <3>3
    <3> QED BY <1>5, <2>1, <2>2, <3>2, <3>3, <3>4 DEF GoodPage, Agrees, Matches
  <2> QED BY <2>3, <2>4
<1>7. \A s \in sent' : GoodRequest(s)'
  <2> SUFFICES ASSUME NEW s \in sent PROVE GoodRequest(s)'
    OBVIOUS
  <2>1. s.revision \in Nat /\ GoodRequest(s)
    BY DEF IInv, TypeOK, Requests
  <2> QED BY <1>1, <1>2, <1>3, <2>1, LaterAgrees DEF GoodRequest, Agrees
<1>8. \A a \in attempts' : GoodReceipt(a)'
  <2> SUFFICES ASSUME NEW a \in attempts' PROVE GoodReceipt(a)'
    OBVIOUS
  <2>1. CASE a \in attempts
    BY <1>5, <2>1 DEF IInv, GoodReceipt
  <2>2. CASE a = receipt
    BY <1>3, <1>4, <1>5, <2>2 DEF GoodReceipt, Matches
  <2> QED BY <1>2, <2>1, <2>2
<1>9. \A i \in DOMAIN sold' : \E a \in attempts' : a.kind = sold'[i].kind /\ a.key = sold'[i].key
  <2> SUFFICES ASSUME NEW i \in DOMAIN sold'
               PROVE  \E a \in attempts' : a.kind = sold'[i].kind /\ a.key = sold'[i].key
    OBVIOUS
  <2>1. CASE i \in DOMAIN sold
    BY <1>2, <1>5, <2>1 DEF IInv
  <2>2. CASE i = Len(sold) + 1
    BY <1>2, <1>3, <1>4, <1>5, <2>2
  <2> QED BY <1>5, <2>1, <2>2
<1>10. /\ \A i \in DOMAIN sold' : sold'[i].revision < cart'.revision
       /\ OneSalePerRevision'
  <2>1. \A i \in DOMAIN sold : sold[i].revision \in Nat /\ sold[i].revision < cart.revision
    BY SalesAreOld
  <2>2. \A i \in DOMAIN sold' : sold'[i].revision < cart'.revision
    BY <1>1, <1>3, <1>5, <2>1
  <2>3. ASSUME NEW i \in DOMAIN sold', NEW j \in DOMAIN sold', i < j
        PROVE  sold'[i].revision < sold'[j].revision
    <3>1. i \in DOMAIN sold
      BY <1>1, <1>5, <2>3
    <3>2. CASE j \in DOMAIN sold
      BY <1>5, <2>3, <3>1, <3>2 DEF IInv, OneSalePerRevision
    <3>3. CASE j = Len(sold) + 1
      BY <1>3, <1>5, <2>1, <3>1, <3>3
    <3> QED BY <1>5, <3>2, <3>3
  <2> QED BY <2>2, <2>3 DEF OneSalePerRevision
<1> QED BY <1>6, <1>7, <1>8, <1>9, <1>10 DEF IInv

\* A handler that accepts: the number of lines moves the cart on at least once.
LEMMA InvAccept ==
    ASSUME IInv, TypeOK', NEW r \in sent, PlaceOrder(r) \/ CreateRequest(r)
    PROVE  IInv'
<1>1. TypeOK /\ cart.revision \in Nat /\ cart.lines \in Lines /\ r \in Requests /\ GoodRequest(r)
  BY DEF IInv, TypeOK
<1>2. CASE PlaceOrder(r)
  <2>1. InCart(cart.lines) # {}
    BY <1>1, <1>2 DEF PlaceOrder, InCart, EmptyLines, Lines
  <2>2. IsFiniteSet(InCart(cart.lines))
    BY CheckoutAssumption, FS_Subset DEF CheckoutAssumption, InCart
  <2>3. Cardinality(InCart(cart.lines)) \in Nat /\ Cardinality(InCart(cart.lines)) # 0
    BY <2>1, <2>2, FS_CardinalityType, FS_EmptySet
  <2>4. cart'.revision = cart.revision + Cardinality(InCart(cart.lines))
    BY <1>2 DEF PlaceOrder, AfterOrder
  <2>5. cart'.revision > cart.revision
    BY <1>1, <2>3, <2>4
  <2>6. Record(r, r.total) /\ IsCurrent(r) /\ sent' = sent
    BY <1>2 DEF PlaceOrder, AgreedTotal
  <2> QED BY <2>5, <2>6, InvRecord
<1>3. CASE CreateRequest(r)
  <2>1. cart'.revision > cart.revision
    BY <1>1, <1>3 DEF CreateRequest, Bump
  <2>2. r.total = 0
    BY <1>1, <1>3 DEF CreateRequest, GoodRequest
  <2> QED BY <1>3, <2>1, <2>2, InvRecord DEF CreateRequest
<1> QED BY <1>2, <1>3

\* The invariant holds at the start and is kept by every step.
LEMMA InvInit == Init => IInv
<1> SUFFICES ASSUME Init PROVE IInv
  OBVIOUS
<1>1. TypeOK
  BY TypeInit
<1>2. \A w \in Pages : GoodPage(page[w])
  BY <1>1, LoadedIsGood DEF Init
<1> QED BY <1>1, <1>2 DEF Init, IInv, OneSalePerRevision

LEMMA InvNext == IInv /\ [Next]_vars => IInv'
<1> SUFFICES ASSUME IInv, [Next]_vars PROVE IInv'
  OBVIOUS
<1>1. TypeOK /\ TypeOK'
  BY TypeNext DEF IInv
<1>2. CASE UNCHANGED <<cart, page, sent, attempts, sold>>
  <2>1. \A w \in Pages : GoodPage(page'[w])
    BY <1>2 DEF IInv
  <2> QED BY <1>1, <1>2, <2>1, QuietStep DEF IInv
<1>3. CASE \E p \in Products, price \in Prices \cup {NoOffer} : ChangeOffer(p, price)
  BY <1>2, <1>3 DEF ChangeOffer
<1>4. CASE \E p \in Products, qty \in Quantities \cup {0} : SetItem(p, qty)
  <2>1. cart'.revision > cart.revision
    BY <1>1, <1>4 DEF SetItem, Bump, TypeOK
  <2> QED BY <1>1, <1>4, <2>1, InvEdit DEF SetItem
<1>5. CASE \E w \in Pages : PageStep(w)
  BY <1>5, InvPage
<1>6. CASE \E r \in sent : Handle(r)
  BY <1>1, <1>6, InvReplay, InvRefusals, InvAccept DEF Handle
<1>7. CASE UNCHANGED vars
  BY <1>2, <1>7 DEF vars
<1> QED BY <1>3, <1>4, <1>5, <1>6, <1>7 DEF Next

THEOREM Inductive == Spec => []IInv
BY InvInit, InvNext, PTL DEF Spec

\* A revision of the cart becomes at most one order or sales request: for any
\* number of pages and keys, and any number of copies of a request.
THEOREM SaleOrder == Spec => []OneSalePerRevision
<1>1. IInv => OneSalePerRevision
  BY DEF IInv
<1> QED BY <1>1, Inductive, PTL

\* A customer who is told of a sale is told of the one that was confirmed.
THEOREM Truthful == Spec => []AnsweredTruthfully
<1>1. ASSUME IInv, NEW w \in Pages, page[w].stage = "done", NEW r \in page[w].waiting
      PROVE  LET sale == sold[page[w].sale]
             IN  /\ sale.kind = r.kind
                 /\ sale.lines = r.lines
                 /\ sale.total = r.total
                 /\ sale.contact = r.contact
  <2>1. /\ page[w].sale \in DOMAIN sold
        /\ Matches(sold[page[w].sale], r)
    BY <1>1 DEF IInv, GoodPage
  <2>2. r \in sent
    BY <1>1 DEF IInv, TypeOK, PageOver
  <2>3. Agrees(r)
    BY <1>1, <2>2 DEF IInv, GoodRequest
  <2> QED BY <2>1, <2>3 DEF Agrees, Matches
<1>2. IInv => AnsweredTruthfully
  BY <1>1 DEF AnsweredTruthfully
<1> QED BY <1>2, Inductive, PTL

-----------------------------------------------------------------------------
(* Checkout implements ConfirmedCheckout.                                  *)

asked == {Shown(r) : r \in sent}
taken == [i \in DOMAIN sold |-> Shown(sold[i])]

LEMMA StepStutters ==
    ASSUME UNCHANGED <<cart, sent, sold>>
    PROVE  UNCHANGED <<cart.lines, asked, taken>>
BY DEF asked, taken

\* Confirming asks for what the page shows.
LEMMA ConfirmAsks ==
    ASSUME IInv, NEW w \in Pages, NEW contact \in Contacts, Confirm(w, contact)
    PROVE  Confirmed!Ask
<1> DEFINE r == Body(w, contact)
<1>1. page[w] \in PageOver(sent) /\ GoodPage(page[w])
  BY DEF IInv, TypeOK
<1>2. sent' = sent \cup {r} /\ UNCHANGED <<cart, sold>>
  BY DEF Confirm
<1>3. Shown(r).lines # EmptyLines
  BY <1>1 DEF Confirm, Body, Shown, GoodPage
<1> HIDE DEF r
<1>4. asked' = asked \cup {Shown(r)} /\ Shown(r) \in asked'
  BY <1>2 DEF asked
<1> QED BY <1>2, <1>3, <1>4 DEF Confirmed!Ask, Confirmed!EmptyBasket, EmptyLines, asked, taken

\* An accepted request is a confirmation of the basket, not served before.
LEMMA AcceptTakes ==
    ASSUME IInv, NEW r \in sent, Record(r, r.total), IsCurrent(r), Receipts(r) = {},
           sent' = sent, cart'.lines = EmptyLines
    PROVE  Confirmed!Take
<1> DEFINE sale == [kind |-> r.kind, key |-> r.key, revision |-> cart.revision,
                    lines |-> cart.lines, total |-> r.total, contact |-> r.contact]
<1>1. sold \in Seq(Requests) /\ cart.lines = r.lines
  BY DEF IInv, TypeOK, GoodRequest, Agrees, IsCurrent
<1>2. sold' = Append(sold, sale)
  BY DEF Record
<1>3. Shown(sale) = Shown(r)
  BY <1>1 DEF Shown
<1> HIDE DEF sale
<1>4. /\ DOMAIN sold' = 1 .. Len(sold) + 1
      /\ DOMAIN sold = 1 .. Len(sold)
      /\ Len(sold) \in Nat
      /\ sold'[Len(sold) + 1] = sale
      /\ \A i \in DOMAIN sold : sold'[i] = sold[i]
  BY <1>1, <1>2
<1>5. taken' = Append(taken, Shown(r))
  <2> DEFINE S == {Shown(sold[i]) : i \in DOMAIN sold} \cup {Shown(r)}
  <2>1. taken \in Seq(S) /\ Len(taken) = Len(sold) /\ Shown(r) \in S
    BY <1>4 DEF taken
  <2>2. taken' \in Seq(S) /\ Len(taken') = Len(sold) + 1
    BY <1>3, <1>4 DEF taken
  <2>3. /\ taken'[Len(sold) + 1] = Shown(r)
        /\ \A i \in 1 .. Len(sold) : taken'[i] = taken[i]
    BY <1>3, <1>4 DEF taken
  <2> HIDE DEF S, taken
  <2>4. /\ Append(taken, Shown(r)) \in Seq(S)
        /\ Len(Append(taken, Shown(r))) = Len(sold) + 1
        /\ \A i \in 1 .. Len(sold) : Append(taken, Shown(r))[i] = taken[i]
        /\ Append(taken, Shown(r))[Len(sold) + 1] = Shown(r)
    BY <2>1, AppendProperties
  <2>5. \A i \in 1 .. Len(sold) + 1 : i \in 1 .. Len(sold) \/ i = Len(sold) + 1
    BY <1>4
  <2>6. \A i \in 1 .. Len(taken') : taken'[i] = Append(taken, Shown(r))[i]
    BY <2>2, <2>3, <2>4, <2>5
  <2> QED BY <2>2, <2>4, <2>6, SeqEqual
<1>6. Shown(r) \in asked /\ asked' = asked
  BY DEF asked
<1>7. ASSUME NEW i \in DOMAIN taken, taken[i].kind = Shown(r).kind, taken[i].key = Shown(r).key
      PROVE  FALSE
  <2>1. i \in DOMAIN sold /\ sold[i].kind = r.kind /\ sold[i].key = r.key
    BY <1>7 DEF taken, Shown
  <2>2. PICK a \in attempts : a.kind = r.kind /\ a.key = r.key
    BY <2>1 DEF IInv
  <2> QED BY <2>2 DEF Receipts
<1>8. Shown(r).lines = cart.lines
  BY <1>1 DEF Shown
<1> QED BY <1>5, <1>6, <1>7, <1>8
        DEF Confirmed!Take, Confirmed!Served, Confirmed!EmptyBasket, EmptyLines, asked, taken

\* Every step is a step of ConfirmedCheckout or a stutter.
LEMMA StepImplements ==
    IInv /\ [Next]_vars => [Confirmed!Next]_<<cart.lines, asked, taken>>
<1> SUFFICES ASSUME IInv, [Next]_vars
             PROVE  Confirmed!Next \/ UNCHANGED <<cart.lines, asked, taken>>
  OBVIOUS
<1>1. CASE UNCHANGED <<cart, sent, sold>>
  BY <1>1, StepStutters
<1>2. CASE \E p \in Products, price \in Prices \cup {NoOffer} : ChangeOffer(p, price)
  BY <1>1, <1>2 DEF ChangeOffer
<1>3. CASE \E p \in Products, qty \in Quantities \cup {0} : SetItem(p, qty)
  <2> PICK p \in Products, qty \in Quantities \cup {0} : SetItem(p, qty)
    BY <1>3
  <2>1. cart.lines \in Lines /\ cart'.lines = [cart.lines EXCEPT ![p] = qty]
    BY DEF IInv, TypeOK, SetItem, Bump
  <2>2. asked' = asked /\ taken' = taken
    BY DEF SetItem, asked, taken
  <2>3. DOMAIN cart'.lines = Products /\ \A q \in Products \ {p} : cart'.lines[q] = cart.lines[q]
    BY <2>1 DEF Lines
  <2>4. Confirmed!Edit
    BY <2>2, <2>3 DEF Confirmed!Edit, asked, taken
  <2> QED BY <2>4 DEF Confirmed!Next
<1>4. CASE \E w \in Pages : PageStep(w)
  BY <1>1, <1>4, ConfirmAsks
     DEF PageStep, LoadPage, Quote, OfferRequest, GiveUp, Resend, Confirmed!Next
<1>5. CASE \E r \in sent : Handle(r)
  <2> PICK r \in sent : Handle(r)
    BY <1>5
  <2>1. CASE PlaceOrder(r)
    <3>1. Record(r, r.total) /\ IsCurrent(r) /\ Receipts(r) = {} /\ sent' = sent
      BY <2>1 DEF PlaceOrder, AgreedTotal
    <3>2. cart'.lines = EmptyLines
      BY <2>1 DEF PlaceOrder, AfterOrder
    <3> QED BY <3>1, <3>2, AcceptTakes DEF Confirmed!Next
  <2>2. CASE CreateRequest(r)
    <3>1. r.total = 0
      BY <2>2 DEF CreateRequest, IInv, GoodRequest
    <3>2. Record(r, r.total) /\ IsCurrent(r) /\ Receipts(r) = {} /\ sent' = sent
      BY <2>2, <3>1 DEF CreateRequest
    <3>3. cart'.lines = EmptyLines
      BY <2>2 DEF CreateRequest, Bump
    <3> QED BY <3>2, <3>3, AcceptTakes DEF Confirmed!Next
  <2> QED BY <1>1, <2>1, <2>2
          DEF Handle, Replay, RefuseReusedKey, RefuseStale, RefuseUnpriced, RefuseTotal
<1>6. CASE UNCHANGED vars
  BY <1>1, <1>6 DEF vars
<1> QED BY <1>2, <1>3, <1>4, <1>5, <1>6 DEF Next

\* Every sale is what one confirmation showed, takes the whole cart and is made
\* once for it, for any pages, products, prices and keys.
THEOREM Implements == Spec => SellsWhatWasConfirmed
<1>1. Init => Confirmed!Init
  BY DEF Init, Confirmed!Init, Confirmed!EmptyBasket, EmptyLines
<1>2. IInv /\ [Next]_vars
        => [Confirmed!Next]_<<cart.lines, {Shown(r) : r \in sent}, [i \in DOMAIN sold |-> Shown(sold[i])]>>
  BY StepImplements DEF asked, taken
<1> QED BY <1>1, <1>2, Inductive, PTL DEF Spec, SellsWhatWasConfirmed, Confirmed!Spec

-----------------------------------------------------------------------------
(***************************************************************************)
(* Retries.  A key belongs to the quote it was drawn for: whoever carries  *)
(* it carries that quote's revision and total, whatever the contact, and a *)
(* receipt under it is of a request that was sent.                         *)
(***************************************************************************)
SameQuote(u, v) == u.revision = v.revision /\ u.total = v.total

KeysApart == \A w, v \in Pages : w # v /\ page[w].key = page[v].key => page[w].key = NoKey

WaitsForItsOwn ==
    \A w \in Pages : page[w].stage # "done" =>
        \A r \in page[w].waiting \cup page[w].kept : r.key = page[w].key

KeysNameQuotes ==
    \A r \in sent :
        /\ \A s \in sent : r.key = s.key => SameQuote(r, s)
        /\ \A w \in Pages : r.key = page[w].key => SameQuote(r, page[w])

ReceiptsAreOfRequests ==
    \A a \in attempts :
        /\ \E r \in sent : r.kind = a.kind /\ r.key = a.key /\ Fingerprint(r) = a.fingerprint
        /\ \A b \in attempts : a.kind = b.kind /\ a.key = b.key => a = b

SalesHaveReceipts ==
    \A i \in DOMAIN sold :
        \E a \in attempts : a.kind = sold[i].kind /\ a.key = sold[i].key /\ a.sale = i

KInv ==
    /\ KeysApart
    /\ WaitsForItsOwn
    /\ KeysNameQuotes
    /\ ReceiptsAreOfRequests
    /\ SalesHaveReceipts

LEMMA SameQuoteIsEquivalence ==
    /\ \A u : SameQuote(u, u)
    /\ \A u, v : SameQuote(u, v) => SameQuote(v, u)
    /\ \A u, v, x : SameQuote(u, v) /\ SameQuote(v, x) => SameQuote(u, x)
BY DEF SameQuote

\* What one page may become: it forgets its key, keeps it with its quote, or
\* draws another.
Becomes(w, v) ==
    /\ \/ v.key = NoKey
       \/ v.key = page[w].key /\ SameQuote(v, page[w])
       \/ v.key \in FreshKeys
    /\ v.stage # "done" => \A r \in v.waiting \cup v.kept : r.key = v.key

LEMMA OnePageChanges ==
    ASSUME IInv, KInv, NEW w \in Pages, NEW v, Becomes(w, v),
           page' = [page EXCEPT ![w] = v], UNCHANGED <<sent, attempts, sold>>
    PROVE  KInv'
<1>1. page'[w] = v /\ \A u \in Pages \ {w} : page'[u] = page[u]
  BY DEF IInv, TypeOK
<1>2. \A u \in Pages : page[u].key \notin FreshKeys
  BY DEF FreshKeys, UsedKeys
<1>3. \A r \in sent : r.key \notin FreshKeys /\ r.key # NoKey
  BY CheckoutAssumption DEF FreshKeys, UsedKeys, IInv, TypeOK, Requests, NoKey, CheckoutAssumption
<1>4. KeysApart'
  BY <1>1, <1>2 DEF KInv, KeysApart, Becomes
<1>5. WaitsForItsOwn'
  BY <1>1 DEF KInv, WaitsForItsOwn, Becomes
<1>6. KeysNameQuotes'
  <2> SUFFICES ASSUME NEW r \in sent, NEW u \in Pages, r.key = page'[u].key
               PROVE  SameQuote(r, page'[u])
    BY DEF KInv, KeysNameQuotes
  <2>1. CASE u = w
    BY <1>1, <1>3, <2>1, SameQuoteIsEquivalence DEF KInv, KeysNameQuotes, Becomes
  <2>2. CASE u # w
    BY <1>1, <2>2 DEF KInv, KeysNameQuotes
  <2> QED BY <2>1, <2>2
<1>7. ReceiptsAreOfRequests' /\ SalesHaveReceipts'
  BY DEF KInv, ReceiptsAreOfRequests, SalesHaveReceipts
<1> QED BY <1>4, <1>5, <1>6, <1>7 DEF KInv

\* Only one page waits for a request.
LEMMA OneAwaits ==
    ASSUME IInv, KInv, NEW r \in sent, NEW w \in Pages, NEW v \in Pages,
           Awaits(w, r), Awaits(v, r)
    PROVE  w = v
<1>1. r.key = page[w].key /\ r.key = page[v].key
  BY DEF Awaits, KInv, WaitsForItsOwn
<1>2. r.key # NoKey
  BY CheckoutAssumption DEF IInv, TypeOK, Requests, NoKey, CheckoutAssumption
<1> QED BY <1>1, <1>2 DEF KInv, KeysApart

LEMMA AnswersOne ==
    ASSUME IInv, KInv, NEW r \in sent, NEW answered, Answer(r, answered)
    PROVE  \/ page' = page
           \/ \E w \in Pages : Awaits(w, r) /\ page' = [page EXCEPT ![w] = answered[w]]
<1>1. page \in [Pages -> PageOver(sent)]
  BY DEF IInv, TypeOK
<1>2. page' = [w \in Pages |-> IF Awaits(w, r) THEN answered[w] ELSE page[w]]
  BY DEF Answer
<1>3. CASE \A w \in Pages : ~Awaits(w, r)
  BY <1>1, <1>2, <1>3
<1>4. CASE \E w \in Pages : Awaits(w, r)
  <2> PICK w \in Pages : Awaits(w, r)
    BY <1>4
  <2>1. \A v \in Pages : Awaits(v, r) => v = w
    BY OneAwaits
  <2> QED BY <1>1, <1>2, <2>1
<1> QED BY <1>3, <1>4

LEMMA KeysPage ==
    ASSUME IInv, KInv, NEW w \in Pages, PageStep(w)
    PROVE  KInv'
<1>1. page[w] \in PageOver(sent) /\ GoodPage(page[w])
  BY DEF IInv, TypeOK
<1>2. SameQuote(page[w], page[w])
  BY SameQuoteIsEquivalence
<1>3. page[w].stage # "done" => \A r \in page[w].waiting \cup page[w].kept : r.key = page[w].key
  BY DEF KInv, WaitsForItsOwn
<1>4. page[w].stage = "open" => page[w].waiting = {} /\ page[w].kept = {}
  BY <1>1 DEF GoodPage
<1>5. CASE LoadPage(w)
  <2> DEFINE v == [Closed EXCEPT !.stage = "open", !.revision = cart.revision, !.lines = cart.lines]
  <2>1. Becomes(w, v)
    BY DEF Becomes, Closed
  <2>2. page' = [page EXCEPT ![w] = v]
    BY <1>5 DEF LoadPage
  <2> HIDE DEF v
  <2> QED BY <1>5, <2>1, <2>2, OnePageChanges DEF LoadPage
<1>6. CASE Quote(w)
  <2> DEFINE v == [page[w] EXCEPT !.stage = "quoted", !.key = NewKey,
                                  !.total = Total(page[w].lines, offers)]
  <2>1. Becomes(w, v)
    BY <1>1, <1>4, <1>6, NewKeyIsFresh DEF Becomes, Quote, PageOver
  <2>2. page' = [page EXCEPT ![w] = v]
    BY <1>6 DEF Quote
  <2> HIDE DEF v
  <2> QED BY <1>6, <2>1, <2>2, OnePageChanges DEF Quote
<1>7. CASE OfferRequest(w)
  <2> DEFINE v == [page[w] EXCEPT !.stage = "request", !.key = NewKey]
  <2>1. Becomes(w, v)
    BY <1>1, <1>4, <1>7, NewKeyIsFresh DEF Becomes, OfferRequest, PageOver
  <2>2. page' = [page EXCEPT ![w] = v]
    BY <1>7 DEF OfferRequest
  <2> HIDE DEF v
  <2> QED BY <1>7, <2>1, <2>2, OnePageChanges DEF OfferRequest
<1>8. CASE GiveUp(w)
  <2> DEFINE v == [page[w] EXCEPT !.waiting = {}]
  <2>1. Becomes(w, v)
    BY <1>1, <1>3 DEF Becomes, PageOver, SameQuote
  <2>2. page' = [page EXCEPT ![w] = v]
    BY <1>8 DEF GiveUp
  <2> HIDE DEF v
  <2> QED BY <1>8, <2>1, <2>2, OnePageChanges DEF GiveUp
<1>9. CASE Resend(w)
  <2> DEFINE v == [page[w] EXCEPT !.waiting = page[w].kept]
  <2>1. Becomes(w, v)
    BY <1>1, <1>3 DEF Becomes, PageOver, SameQuote
  <2>2. page' = [page EXCEPT ![w] = v]
    BY <1>9 DEF Resend
  <2> HIDE DEF v
  <2> QED BY <1>9, <2>1, <2>2, OnePageChanges DEF Resend
<1>10. CASE \E contact \in Contacts : Confirm(w, contact)
  <2> PICK contact \in Contacts : Confirm(w, contact)
    BY <1>10
  <2> DEFINE r == Body(w, contact)
             v == [page[w] EXCEPT !.waiting = {r}, !.kept = IF w \in ChatCarts THEN {r} ELSE {}]
  <2>1. r.key = page[w].key /\ r.key # NoKey /\ SameQuote(r, page[w])
    BY <1>1, CheckoutAssumption DEF Body, SameQuote, Confirm, PageOver, NoKey, CheckoutAssumption
  <2>2. sent' = sent \cup {r} /\ page' = [page EXCEPT ![w] = v] /\ UNCHANGED <<attempts, sold>>
    BY DEF Confirm
  <2> HIDE DEF r
  <2>3. v.key = page[w].key /\ SameQuote(v, page[w]) /\ \A s \in v.waiting \cup v.kept : s = r
    BY <1>1 DEF SameQuote, PageOver
  <2> HIDE DEF v
  <2>4. page'[w] = v /\ \A u \in Pages \ {w} : page'[u] = page[u]
    BY <2>2 DEF IInv, TypeOK
  <2>5. \A u \in Pages : page'[u].key = page[u].key /\ SameQuote(page'[u], page[u])
    BY <2>3, <2>4, SameQuoteIsEquivalence
  <2>6. KeysApart'
    BY <2>5 DEF KInv, KeysApart
  <2>7. WaitsForItsOwn'
    BY <2>1, <2>3, <2>4 DEF KInv, WaitsForItsOwn
  <2>8. \A s \in sent : r.key = s.key => SameQuote(r, s)
    BY <2>1, SameQuoteIsEquivalence DEF KInv, KeysNameQuotes
  <2>9. \A u \in Pages : r.key = page[u].key => SameQuote(r, page[u])
    BY <2>1 DEF KInv, KeysApart
  <2>10. KeysNameQuotes'
    <3> SUFFICES ASSUME NEW s \in sent'
                 PROVE  /\ \A t \in sent' : s.key = t.key => SameQuote(s, t)
                        /\ \A u \in Pages : s.key = page'[u].key => SameQuote(s, page'[u])
      BY DEF KeysNameQuotes
    <3>1. \A u \in Pages : s.key = page[u].key => SameQuote(s, page[u])
      BY <2>2, <2>9 DEF KInv, KeysNameQuotes
    <3>2. \A t \in sent' : s.key = t.key => SameQuote(s, t)
      BY <2>2, <2>8, SameQuoteIsEquivalence DEF KInv, KeysNameQuotes
    <3> QED BY <2>5, <3>1, <3>2, SameQuoteIsEquivalence
  <2>11. ReceiptsAreOfRequests' /\ SalesHaveReceipts'
    BY <2>2 DEF KInv, ReceiptsAreOfRequests, SalesHaveReceipts, Fingerprint
  <2> QED BY <2>6, <2>7, <2>10, <2>11 DEF KInv
<1> QED BY <1>5, <1>6, <1>7, <1>8, <1>9, <1>10 DEF PageStep

\* An answer changes nothing, or the one page that waits.
LEMMA KeysAnswer ==
    ASSUME IInv, KInv, NEW r \in sent, NEW answered, Answer(r, answered),
           UNCHANGED <<sent, attempts, sold>>,
           \A w \in Pages : Awaits(w, r) => Becomes(w, answered[w])
    PROVE  KInv'
<1>1. CASE page' = page
  BY <1>1 DEF KInv, KeysApart, WaitsForItsOwn, KeysNameQuotes, ReceiptsAreOfRequests,
              SalesHaveReceipts, Fingerprint
<1>2. CASE \E w \in Pages : Awaits(w, r) /\ page' = [page EXCEPT ![w] = answered[w]]
  BY <1>2, OnePageChanges
<1> QED BY <1>1, <1>2, AnswersOne

\* The page of a sale keeps its key.
LEMMA ToldBecomes ==
    ASSUME IInv, NEW sale, NEW w \in Pages
    PROVE  Becomes(w, Told(sale)[w])
<1>1. page[w] \in PageOver(sent)
  BY DEF IInv, TypeOK
<1> QED BY <1>1 DEF Told, Becomes, SameQuote, PageOver

LEMMA KeysRefusals ==
    ASSUME IInv, KInv, NEW r \in sent,
           RefuseReusedKey(r) \/ RefuseStale(r) \/ RefuseUnpriced(r) \/ RefuseTotal(r)
    PROVE  KInv'
<1>1. \A w \in Pages : page[w] \in PageOver(sent)
  BY DEF IInv, TypeOK
<1>2. \A w \in Pages : \A s \in page[w].kept : page[w].stage # "done" => s.key = page[w].key
  BY DEF KInv, WaitsForItsOwn
<1>3. CASE RefuseReusedKey(r)
  <2> DEFINE answered == [w \in Pages |-> [page[w] EXCEPT !.waiting = {}, !.kept = {}]]
  <2>1. \A w \in Pages : Becomes(w, answered[w])
    BY <1>1 DEF Becomes, SameQuote, PageOver
  <2>2. Answer(r, answered) /\ UNCHANGED <<sent, attempts, sold>>
    BY <1>3 DEF RefuseReusedKey
  <2> HIDE DEF answered
  <2> QED BY <2>1, <2>2, KeysAnswer
<1>4. CASE RefuseStale(r)
  <2> DEFINE answered == [w \in Pages |-> Closed]
  <2>1. \A w \in Pages : Becomes(w, answered[w])
    BY DEF Becomes, Closed
  <2>2. Answer(r, answered) /\ UNCHANGED <<sent, attempts, sold>>
    BY <1>4 DEF RefuseStale
  <2> HIDE DEF answered
  <2> QED BY <2>1, <2>2, KeysAnswer
<1>5. CASE RefuseUnpriced(r)
  <2> DEFINE answered ==
        [w \in Pages |->
            IF w \in ChatCarts
            THEN [page[w] EXCEPT !.stage = "request", !.total = 0, !.key = NewKey,
                                 !.waiting = {}, !.kept = {}]
            ELSE [page[w] EXCEPT !.waiting = {}]]
  <2>1. NewKey \in FreshKeys
    BY <1>5, NewKeyIsFresh DEF RefuseUnpriced
  <2>2. ASSUME NEW w \in Pages PROVE Becomes(w, answered[w])
    <3>1. CASE w \in ChatCarts
      BY <1>1, <2>1, <3>1 DEF Becomes, PageOver
    <3>2. CASE w \notin ChatCarts
      BY <1>1, <1>2, <3>2 DEF Becomes, SameQuote, PageOver
    <3> QED BY <3>1, <3>2
  <2>3. Answer(r, answered) /\ UNCHANGED <<sent, attempts, sold>>
    BY <1>5 DEF RefuseUnpriced
  <2> HIDE DEF answered
  <2> QED BY <2>2, <2>3, KeysAnswer
<1>6. CASE RefuseTotal(r)
  <2> DEFINE answered ==
        [w \in Pages |->
            [page[w] EXCEPT !.total = Total(cart.lines, offers), !.key = NewKey,
                            !.waiting = {}, !.kept = {}]]
  <2>1. NewKey \in FreshKeys
    BY <1>6, NewKeyIsFresh DEF RefuseTotal
  <2>2. \A w \in Pages : Becomes(w, answered[w])
    BY <1>1, <2>1 DEF Becomes, PageOver
  <2>3. Answer(r, answered) /\ UNCHANGED <<sent, attempts, sold>>
    BY <1>6 DEF RefuseTotal
  <2> HIDE DEF answered
  <2> QED BY <2>2, <2>3, KeysAnswer
<1> QED BY <1>3, <1>4, <1>5, <1>6

LEMMA KeysRecord ==
    ASSUME IInv, KInv, NEW r \in sent, NEW total, Record(r, total), Receipts(r) = {}, sent' = sent
    PROVE  KInv'
<1> DEFINE sale == [kind |-> r.kind, key |-> r.key, revision |-> cart.revision,
                    lines |-> cart.lines, total |-> total, contact |-> r.contact]
           receipt == [kind |-> r.kind, key |-> r.key, fingerprint |-> Fingerprint(r),
                       sale |-> Len(sold) + 1]
           answered == Told(Len(sold) + 1)
<1>1. /\ sold' = Append(sold, sale)
      /\ attempts' = attempts \cup {receipt}
      /\ Answer(r, answered)
  BY DEF Record
<1>2. /\ sale.kind = r.kind
      /\ sale.key = r.key
      /\ receipt.kind = r.kind
      /\ receipt.key = r.key
      /\ receipt.sale = Len(sold) + 1
      /\ receipt.fingerprint = Fingerprint(r)
  OBVIOUS
<1>3. \A w \in Pages : page[w] \in PageOver(sent)
  BY DEF IInv, TypeOK
<1>4. \A w \in Pages :
        /\ page'[w].key = page[w].key
        /\ SameQuote(page'[w], page[w])
        /\ page'[w].waiting = page[w].waiting
        /\ page'[w].stage # "done" => page[w].stage # "done" /\ page'[w].kept = page[w].kept
  BY <1>1, <1>3 DEF Answer, Told, SameQuote, PageOver
<1> HIDE DEF sale, receipt, answered
<1>5. KeysApart'
  BY <1>4 DEF KInv, KeysApart
<1>6. WaitsForItsOwn'
  BY <1>4 DEF KInv, WaitsForItsOwn
<1>7. KeysNameQuotes'
  BY <1>4, SameQuoteIsEquivalence DEF KInv, KeysNameQuotes
<1>8. ReceiptsAreOfRequests'
  BY <1>1, <1>2 DEF KInv, ReceiptsAreOfRequests, Receipts, Fingerprint
<1>9. SalesHaveReceipts'
  <2>1. sold \in Seq(Requests)
    BY DEF IInv, TypeOK
  <2>2. /\ DOMAIN sold' = DOMAIN sold \cup {Len(sold) + 1}
        /\ sold'[Len(sold) + 1] = sale
        /\ \A i \in DOMAIN sold : sold'[i] = sold[i]
    BY <1>1, <2>1
  <2> QED BY <1>1, <1>2, <2>2 DEF KInv, SalesHaveReceipts
<1> QED BY <1>5, <1>6, <1>7, <1>8, <1>9 DEF KInv

LEMMA KeysInit == Init => KInv
BY DEF Init, KInv, KeysApart, WaitsForItsOwn, KeysNameQuotes, ReceiptsAreOfRequests,
       SalesHaveReceipts, Closed

LEMMA KeysNext == IInv /\ KInv /\ [Next]_vars => KInv'
<1> SUFFICES ASSUME IInv, KInv, [Next]_vars PROVE KInv'
  OBVIOUS
<1>1. CASE UNCHANGED <<page, sent, attempts, sold>>
  BY <1>1 DEF KInv, KeysApart, WaitsForItsOwn, KeysNameQuotes, ReceiptsAreOfRequests,
              SalesHaveReceipts, Fingerprint
<1>2. CASE \E p \in Products, price \in Prices \cup {NoOffer} : ChangeOffer(p, price)
  BY <1>1, <1>2 DEF ChangeOffer
<1>3. CASE \E p \in Products, qty \in Quantities \cup {0} : SetItem(p, qty)
  BY <1>1, <1>3 DEF SetItem
<1>4. CASE \E w \in Pages : PageStep(w)
  BY <1>4, KeysPage
<1>5. CASE \E r \in sent : Handle(r)
  <2> PICK r \in sent : Handle(r)
    BY <1>5
  <2>1. CASE Replay(r)
    BY <2>1, KeysAnswer, ToldBecomes DEF Replay
  <2>2. CASE PlaceOrder(r) \/ CreateRequest(r)
    BY <2>2, KeysRecord DEF PlaceOrder, CreateRequest
  <2> QED BY <2>1, <2>2, KeysRefusals DEF Handle
<1>6. CASE UNCHANGED vars
  BY <1>1, <1>6 DEF vars
<1> QED BY <1>2, <1>3, <1>4, <1>5, <1>6 DEF Next

\* The one receipt under the key of a request that has been sold is of the
\* same quote and contact.
LEMMA SoldIsReceipted ==
    ASSUME IInv, KInv, NEW r \in sent, Bought(r)
    PROVE  Receipts(r) # {} /\ \A a \in Receipts(r) : a.fingerprint = Fingerprint(r)
<1>1. PICK i \in DOMAIN sold :
        sold[i].kind = r.kind /\ sold[i].key = r.key /\ sold[i].contact = r.contact
  BY DEF Bought
<1>2. PICK a \in attempts : a.kind = r.kind /\ a.key = r.key /\ a.sale = i
  BY <1>1 DEF KInv, SalesHaveReceipts
<1>3. a.fingerprint.contact = r.contact
  BY <1>1, <1>2 DEF IInv, GoodReceipt
<1>4. PICK s \in sent : s.key = r.key /\ Fingerprint(s) = a.fingerprint
  BY <1>2 DEF KInv, ReceiptsAreOfRequests
<1>5. SameQuote(s, r)
  BY <1>4 DEF KInv, KeysNameQuotes
<1>6. a.fingerprint = Fingerprint(r)
  BY <1>3, <1>4, <1>5 DEF Fingerprint, SameQuote
<1>7. \A b \in Receipts(r) : b = a
  BY <1>2 DEF Receipts, KInv, ReceiptsAreOfRequests
<1> QED BY <1>2, <1>6, <1>7 DEF Receipts

\* A customer who asks again for what has been sold is told of the sale,
\* whatever has changed since: prices, the cart, the contact on the page.
THEOREM RetriesAreAnswered == Spec => RetriesAreNotRefused
<1>1. ASSUME IInv, KInv, Next, NEW w \in Pages, NEW r \in page[w].waiting, Awaits(w, r), Bought(r)
      PROVE  \/ page'[w] = page[w]
             \/ page'[w].stage \in {"open", "done"}
             \/ page'[w] = [page[w] EXCEPT !.waiting = {}]
  <2>1. /\ page \in [Pages -> PageOver(sent)]
        /\ page[w] \in PageOver(sent)
        /\ GoodPage(page[w])
        /\ r \in sent
    BY <1>1 DEF IInv, TypeOK, PageOver
  <2>2. /\ page[w].waiting # {}
        /\ page[w].stage \in {"quoted", "request"}
        /\ \A s \in page[w].waiting : s = r
    BY <1>1, <2>1 DEF Awaits, GoodPage
  <2>3. CASE \E p \in Products, price \in Prices \cup {NoOffer} : ChangeOffer(p, price)
    BY <2>3 DEF ChangeOffer
  <2>4. CASE \E p \in Products, qty \in Quantities \cup {0} : SetItem(p, qty)
    BY <2>4 DEF SetItem
  <2>5. ASSUME NEW u \in Pages, PageStep(u)
        PROVE  \/ page'[w] = page[w]
               \/ page'[w].stage \in {"open", "done"}
               \/ page'[w] = [page[w] EXCEPT !.waiting = {}]
    <3>1. CASE u # w
      BY <2>1, <2>5, <3>1
         DEF PageStep, LoadPage, Quote, OfferRequest, Confirm, GiveUp, Resend
    <3>2. CASE u = w
      <4>1. ~Quote(w) /\ ~OfferRequest(w) /\ ~Resend(w) /\ \A contact \in Contacts : ~Confirm(w, contact)
        BY <2>2 DEF Quote, OfferRequest, Confirm, Resend
      <4>2. CASE LoadPage(w)
        BY <2>1, <4>2 DEF LoadPage, Closed
      <4>3. CASE GiveUp(w)
        BY <2>1, <4>3 DEF GiveUp
      <4> QED BY <2>5, <3>2, <4>1, <4>2, <4>3 DEF PageStep
    <3> QED BY <3>1, <3>2
  <2>6. ASSUME NEW s \in sent, Handle(s)
        PROVE  page'[w] = page[w] \/ page'[w].stage = "done"
    <3>1. CASE s # r
      <4>1. ~Awaits(w, s)
        BY <2>2, <3>1 DEF Awaits
      <4> QED BY <2>6, <4>1
              DEF Handle, Answer, Replay, RefuseReusedKey, RefuseStale, RefuseUnpriced, RefuseTotal,
                  PlaceOrder, CreateRequest, Record
    <3>2. CASE s = r
      <4>1. Receipts(r) # {} /\ \A a \in Receipts(r) : a.fingerprint = Fingerprint(r)
        BY <1>1, <2>1, SoldIsReceipted
      <4>2. Replay(r)
        BY <2>6, <3>2, <4>1 DEF Handle, RefuseReusedKey, RefuseStale, RefuseUnpriced, RefuseTotal,
                                PlaceOrder, CreateRequest
      <4>3. PICK receipt \in Receipts(r) : Answer(r, Told(receipt.sale))
        BY <4>2 DEF Replay
      <4>4. page'[w] = [page[w] EXCEPT !.stage = "done", !.kept = {}, !.sale = receipt.sale]
        BY <1>1, <4>3 DEF Answer, Told
      <4> QED BY <2>1, <4>4 DEF PageOver
    <3> QED BY <3>1, <3>2
  <2> QED BY <1>1, <2>3, <2>4, <2>5, <2>6 DEF Next
<1>2. IInv /\ KInv /\ [Next]_vars
        => [\A w \in Pages : \A r \in page[w].waiting :
                Awaits(w, r) /\ Bought(r) =>
                    \/ page'[w] = page[w]
                    \/ page'[w].stage \in {"open", "done"}
                    \/ page'[w] = [page[w] EXCEPT !.waiting = {}]]_vars
  BY <1>1
<1> QED BY <1>2, Inductive, KeysInit, KeysNext, PTL DEF Spec, RetriesAreNotRefused
=============================================================================
