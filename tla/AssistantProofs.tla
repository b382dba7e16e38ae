-------------------------- MODULE AssistantProofs --------------------------
(***************************************************************************)
(* Proofs about the two who answer in a chat, and about what it costs.     *)
(*                                                                         *)
(* AgentCart, for any number of districts, questions, tool calls and       *)
(* crashes: a copy of the basket that has a price has it for the revision  *)
(* it stands for, and so has the confirmation made of it.  The claim about *)
(* the copies is inductive together with the types: every step makes its   *)
(* copies from earlier ones, and the lemmas say of each way of making one  *)
(* that it keeps a copy Sound.                                             *)
(*                                                                         *)
(* OperatorConsole, for any number of chats, messages, calls and losses: a *)
(* reply reaches no chat but the one it was typed in, and that one once.   *)
(* A text goes under one request id, because what is in the box and was    *)
(* ever sent is still the attempt that would be repeated (DraftIsRetried). *)
(*                                                                         *)
(* And what counts as read was on the screen: the log of the open thread   *)
(* is in order up to its cursor, because the answer the page waits for was *)
(* asked for from that cursor (Tied) and no other carries its number.      *)
(*                                                                         *)
(* TokenBudget, for any number of requests, runs and rounds and any        *)
(* budget: the day's spending passes the budget by no more than what all   *)
(* who are at work may add.  Inductive is not the bound on the tokens but  *)
(* the one on those still foreseen (Foreseen); what sums do when one of    *)
(* their terms changes is proved from the definition of MapThenSumSet, by  *)
(* the least counterexample among the finite subsets (OneMore).            *)
(***************************************************************************)
EXTENDS AgentCart, OperatorConsole, TokenBudget, Integers, FiniteSetTheorems,
        SequenceTheorems, NaturalsInduction, WellFoundedInduction, TLAPS

\* A price of a copy is the price of its own revision.
Sound(cart) ==
  cart.quote # NoQuote =>
    cart.quote.basket = cart.revision /\ cart.quoteRevision = cart.revision

Good == {cart \in Cart : Sound(cart)}

\* What holds in every reachable state: the types, and Sound of every copy.
IInv ==
  /\ TypeOK
  /\ state \in Good
  /\ run.cart \in Good
  /\ \A i \in DOMAIN job.receipts : job.receipts[i].cart \in Good
  /\ CardIsOfTheBasket

Live == [revision : Nat, full : BOOLEAN]

-----------------------------------------------------------------------------
\* Dropping the prices of a copy makes it sound, whatever it was before.
LEMMA UnpricedIsGood ==
  ASSUME NEW cart \in Cart
  PROVE  /\ Unpriced(cart) \in Good
         /\ \A r \in Nat : [Unpriced(cart) EXCEPT !.revision = r] \in Good
         /\ \A r \in Nat : [Unpriced(cart) EXCEPT !.quoteRevision = 0, !.revision = r] \in Good
         /\ \A d \in Places : [Unpriced(cart) EXCEPT !.district = d] \in Good
  BY DEF Unpriced, Good, Sound, Cart, Quote, Places, NoQuote

\* refresh_from_live gives a sound copy of the basket's revision.
LEMMA RefreshedIsGood ==
  ASSUME NEW cart \in Good, NEW live \in Live
  PROVE  Refreshed(cart, live) \in Good /\ Refreshed(cart, live).revision = live.revision
<1>1. cart \in Cart
  BY DEF Good
<1>2. CASE cart.revision = live.revision
  BY <1>2 DEF Refreshed
<1>3. CASE cart.revision # live.revision
  <2>1. live.revision \in Nat
    BY DEF Live
  <2>2. Refreshed(cart, live) \in Good
    BY <1>1, <1>3, <2>1, UnpricedIsGood DEF Refreshed
  <2>3. Refreshed(cart, live).revision = live.revision
    BY <1>1, <1>3, <2>1 DEF Refreshed, Unpriced, Cart
  <2> QED
    BY <2>2, <2>3
<1> QED
  BY <1>2, <1>3

-----------------------------------------------------------------------------
\* Whatever tool is called on a copy of the basket's revision, what it leaves
\* is sound, and the basket's revision never goes back.
LEMMA EffectsAreGood ==
  ASSUME TypeOK, NEW call \in Calls, NEW cart \in Good, cart.revision = basket.revision,
         NEW effect \in Effects(call, cart)
  PROVE  effect.cart \in Good /\ effect.basket \in Live
<1>1. cart \in Cart /\ Sound(cart)
  BY DEF Good
<1>2. basket \in Live /\ home \in Places /\ basket.revision + 1 \in Nat
  BY DEF TypeOK, Live
<1>3. Destination(cart) \in Places
  BY <1>1, <1>2 DEF Destination, Cart
<1>4. CASE call.tool = "set_item"
  <2>1. PICK full \in BOOLEAN : effect = SetItem(cart, full)
    BY <1>4 DEF Effects
  <2>2. effect.cart = [Unpriced(cart) EXCEPT !.revision = basket.revision + 1]
    BY <2>1 DEF SetItem, Effect
  <2>3. effect.basket = [revision |-> basket.revision + 1, full |-> full]
    BY <2>1 DEF SetItem, Effect, Changed
  <2> QED
    <3>1. effect.cart \in Good
      BY <1>1, <1>2, <2>2, UnpricedIsGood
    <3>2. effect.basket \in Live
      BY <1>2, <2>3 DEF Live
    <3> QED
      BY <3>1, <3>2
<1>5. CASE call.tool = "get_quote"
  <2>1. effect \in Quotes(cart)
    BY <1>5 DEF Effects
  <2>2. CASE ~basket.full
    BY <1>2, <2>1, <2>2 DEF Quotes, Effect
  <2>3. CASE basket.full
    <3> DEFINE priced == [cart EXCEPT !.quote = [basket |-> basket.revision,
                                                 district |-> Destination(cart)],
                                      !.quoteRevision = basket.revision]
               unavailable == [cart EXCEPT !.quote = NoQuote, !.quoteRevision = basket.revision]
    <3>1. basket.revision \in Nat
      BY <1>2 DEF Live
    <3>2. priced \in Good
      BY <1>1, <1>3, <3>1 DEF Good, Sound, Cart, Quote
    <3>3. unavailable \in Good
      BY <1>1, <3>1 DEF Good, Sound, Cart, Quote, NoQuote, Places
    <3>4. Unpriced(cart) \in Good
      BY <1>1, UnpricedIsGood
    <3>5. effect \in {Effect(priced, basket), Effect(unavailable, basket),
                      Effect(Unpriced(cart), basket)}
      BY <2>1, <2>3 DEF Quotes
    <3>6. effect.basket = basket /\ effect.cart \in {priced, unavailable, Unpriced(cart)}
      BY <3>5 DEF Effect
    <3> QED
      BY <1>2, <3>2, <3>3, <3>4, <3>6
  <2> QED
    BY <2>2, <2>3
<1>6. CASE call.tool = "set_district"
  <2>1. effect = Effect(Moved(cart, call.district), basket)
    BY <1>6 DEF Effects
  <2>2. call.district \in Places
    BY <1>6 DEF Calls, Places
  <2>3. Moved(cart, call.district) \in Good
    BY <1>1, <2>2, UnpricedIsGood DEF Moved
  <2> QED
    BY <1>2, <2>1, <2>3 DEF Effect
<1>7. CASE call.tool = "prepare"
  <2>1. effect = Effect(Prepared(cart), basket)
    BY <1>7 DEF Effects
  <2>2. Prepared(cart) \in Good
    BY <1>1, <1>3 DEF Prepared, Good, Sound, Cart
  <2> QED
    BY <1>2, <2>1, <2>2 DEF Effect
<1>8. CASE call.tool = "submit"
  <2>1. effect = Submitted(cart)
    BY <1>8 DEF Effects
  <2>2. CASE ~basket.full
    BY <1>2, <2>1, <2>2 DEF Submitted, Effect
  <2>3. CASE basket.full
    <3>1. /\ effect.cart = [Unpriced(cart) EXCEPT !.revision = basket.revision + 1]
          /\ effect.basket = [revision |-> basket.revision + 1, full |-> FALSE]
      BY <2>1, <2>3 DEF Submitted, Effect, Changed
    <3>2. effect.cart \in Good
      BY <1>1, <1>2, <3>1, UnpricedIsGood
    <3>3. effect.basket \in Live
      BY <1>2, <3>1 DEF Live
    <3> QED
      BY <3>2, <3>3
  <2> QED
    BY <2>2, <2>3
<1>9. CASE call.tool = "other"
  BY <1>2, <1>9 DEF Effects, Found, Effect
<1> QED
  BY <1>4, <1>5, <1>6, <1>7, <1>8, <1>9 DEF Calls

\* A call keeps the run's type and gives it the copy it was called with.
LEMMA CalledRun ==
  ASSUME NEW call, NEW cart \in Good, run \in Run, Called(call, cart)
  PROVE  run' \in Run /\ run'.cart \in Good
<1>1. cart \in Cart
  BY DEF Good
<1>2. PICK touched \in BOOLEAN :
        run' = [run EXCEPT !.cart = cart, !.calls = @ + 1, !.touched = touched]
  BY DEF Called
<1>3. run.calls + 1 \in Nat
  BY DEF Run
<1>4. run'.cart = cart
  BY <1>2 DEF Run
<1>5. run' \in Run
  BY <1>1, <1>2, <1>3 DEF Run
<1> QED
  BY <1>4, <1>5

\* A job without receipts, whatever its status, has nothing to be sound.
LEMMA ClearedJob ==
  ASSUME job \in Job, NEW s \in {"running", "completed", "cancelled", "human"},
         job' = [job EXCEPT !.status = s, !.receipts = <<>>]
  PROVE  job' \in Job /\ \A i \in DOMAIN job'.receipts : job'.receipts[i].cart \in Good
<1>1. <<>> \in Seq([call : Calls, cart : Cart])
  OBVIOUS
<1>2. job' \in Job
  BY <1>1 DEF Job
<1>3. job'.receipts = <<>>
  BY DEF Job
<1> QED
  BY <1>2, <1>3

\* The states a run and a copy start from.
LEMMA NothingIsGood == Empty \in Good /\ Off \in Run /\ Off.cart \in Good
<1>1. Empty \in Good
  BY DEF Good, Sound, Cart, Quote, Places, Empty, NoQuote
<1>2. Empty \in Cart
  BY <1>1 DEF Good
<1> QED
  BY <1>1, <1>2 DEF Off, Run

-----------------------------------------------------------------------------
\* The copies that a step leaves alone keep what the invariant says of them.
LEMMA Initially == Init => IInv
<1> SUFFICES ASSUME Init PROVE IInv
  OBVIOUS
<1>1. state = Empty /\ run = Off /\ job.receipts = <<>> /\ card = NoCard
  BY DEF Init
<1>2. /\ state \in Good /\ run.cart \in Good /\ run \in Run /\ state \in Cart
      /\ \A i \in DOMAIN job.receipts : job.receipts[i].cart \in Good
  BY <1>1, NothingIsGood DEF Good
<1>3. card \in [quote : Quote, revision : Nat, district : Places] /\ CardIsOfTheBasket
  BY <1>1 DEF NoCard, NoQuote, Quote, Places, CardIsOfTheBasket
<1>4. <<>> \in Seq([call : Calls, cart : Cart])
  OBVIOUS
<1>5. job \in Job
  BY <1>4 DEF Init, Job
<1> QED
  BY <1>2, <1>3, <1>5 DEF Init, IInv, TypeOK, Places

\* Every step of the assistant, the customer and the administrator keeps it.
LEMMA Consecution == IInv /\ [Next]_vars => IInv'
<1> SUFFICES ASSUME IInv, [Next]_vars PROVE IInv'
  OBVIOUS
<1> USE DEF IInv
<1>1. CASE Ask
  BY <1>1 DEF Ask, TypeOK, Job, CardIsOfTheBasket
<1>2. CASE Start
  <2>1. basket \in Live
    BY DEF TypeOK, Live
  <2>2. Refreshed(state, basket) \in Good /\ Refreshed(state, basket) \in Cart
    BY <2>1, RefreshedIsGood DEF Good
  <2>3. /\ state' = Refreshed(state, basket)
        /\ run' = [on |-> TRUE, generation |-> chat.generation, cart |-> state', calls |-> 0,
                   touched |-> FALSE]
        /\ UNCHANGED <<basket, home, chat, job, reply, card, crashes>>
    BY <1>2 DEF Start
  <2> QED
    BY <2>2, <2>3 DEF TypeOK, Run, CardIsOfTheBasket
<1>3. ASSUME NEW call \in Calls, CallTool(call) PROVE IInv'
  <2> DEFINE cart == Refreshed(run.cart, basket)
  <2>1. cart \in Good /\ cart.revision = basket.revision
    BY RefreshedIsGood DEF TypeOK, Live
  <2>2. PICK effect \in Effects(call, cart) :
          /\ basket' = effect.basket
          /\ state' = effect.cart
          /\ job' = [job EXCEPT !.receipts = Append(@, [call |-> call, cart |-> effect.cart])]
          /\ chat' = [chat EXCEPT !.status =
                        IF call.tool = "submit" /\ basket.full THEN "waiting" ELSE @]
          /\ Called(call, effect.cart)
    BY <1>3 DEF CallTool
  <2>3. effect.cart \in Good /\ effect.cart \in Cart /\ effect.basket \in Live
    BY <2>1, EffectsAreGood DEF Good
  <2>4. UNCHANGED <<home, reply, card, crashes>>
    BY <1>3 DEF CallTool
  <2>5. run' \in Run /\ run'.cart \in Good
    BY <2>2, <2>3, CalledRun DEF TypeOK
  <2>6. /\ job'.receipts = Append(job.receipts, [call |-> call, cart |-> effect.cart])
        /\ job' \in Job
    <3> DEFINE longer == Append(job.receipts, [call |-> call, cart |-> effect.cart])
    <3>1. longer \in Seq([call : Calls, cart : Cart])
      BY <2>3 DEF TypeOK, Job
    <3>2. job' = [job EXCEPT !.receipts = longer]
      BY <2>2
    <3> HIDE DEF longer
    <3>3. job'.receipts = longer /\ job' \in Job
      BY <3>1, <3>2 DEF TypeOK, Job
    <3> QED
      BY <3>3 DEF longer
  <2>7. \A i \in DOMAIN job'.receipts : job'.receipts[i].cart \in Good
    <3>1. /\ job.receipts \in Seq([call : Calls, cart : Cart])
          /\ [call |-> call, cart |-> effect.cart] \in [call : Calls, cart : Cart]
      BY <2>3 DEF TypeOK, Job
    <3>2. \A i \in DOMAIN job'.receipts :
            job'.receipts[i] = IF i = Len(job.receipts) + 1
                               THEN [call |-> call, cart |-> effect.cart] ELSE job.receipts[i]
      BY <2>6, <3>1
    <3>3. \A i \in DOMAIN job'.receipts : i # Len(job.receipts) + 1 => i \in DOMAIN job.receipts
      BY <2>6, <3>1
    <3> QED
      BY <2>3, <3>2, <3>3
  <2>8. chat' \in [status : {"ai", "waiting", "human"}, generation : Nat]
    BY <2>2 DEF TypeOK
  <2> QED
    BY <2>2, <2>3, <2>4, <2>5, <2>6, <2>7, <2>8 DEF TypeOK, Live, CardIsOfTheBasket
<1>4. CASE CallTooLate
  <2>1. PICK full \in BOOLEAN :
          /\ basket' = Changed(full)
          /\ Called([tool |-> "set_item", district |-> None], Refreshed(run.cart, basket'))
    BY <1>4 DEF CallTooLate
  <2>2. basket' \in Live
    BY <2>1 DEF Changed, Live, TypeOK
  <2>3. Refreshed(run.cart, basket') \in Good /\ Refreshed(run.cart, basket') \in Cart
    BY <2>2, RefreshedIsGood DEF Good
  <2>4. run' \in Run /\ run'.cart \in Good
    BY <2>1, <2>3, CalledRun DEF TypeOK
  <2> QED
    BY <1>4, <2>2, <2>3, <2>4 DEF CallTooLate, TypeOK, Live, CardIsOfTheBasket
<1>5. CASE RepeatCall
  <2> DEFINE receipt == job.receipts[run.calls + 1]
             last == job.receipts[Len(job.receipts)]
             cart == Repeated(run.cart, receipt, last)
  <2>1. run.calls + 1 \in DOMAIN job.receipts
    BY <1>5 DEF RepeatCall, TypeOK, Job, Run
  <2>2. receipt.cart \in Good
    BY <2>1
  <2>3. Refreshed(run.cart, basket) \in Good
    BY RefreshedIsGood DEF TypeOK, Live
  <2>4. [receipt.cart EXCEPT !.district = run.cart.district] \in Good
    BY <2>2 DEF Good, Sound, Cart
  <2>5. cart \in Good /\ cart \in Cart
    BY <2>3, <2>4 DEF Repeated, Good
  <2>6. Called(receipt.call, cart)
    BY <1>5 DEF RepeatCall
  <2>7. run' \in Run /\ run'.cart \in Good
    BY <2>5, <2>6, CalledRun DEF TypeOK
  <2> QED
    BY <1>5, <2>5, <2>7 DEF RepeatCall, TypeOK, CardIsOfTheBasket
<1>6. CASE Crash
  BY <1>6, NothingIsGood DEF Crash, TypeOK, CardIsOfTheBasket
<1>7. ASSUME NEW answered \in BOOLEAN, Finish(answered) PROVE IInv'
  <2>1. Off \in Run /\ Off.cart \in Good
    BY NothingIsGood
  <2>2. run' = Off /\ UNCHANGED <<basket, home, chat, card, crashes>>
    BY <1>7 DEF Finish
  <2>3. CASE Fenced
    <3>1. /\ job' = [job EXCEPT !.status = IF @ = "running" THEN "cancelled" ELSE @,
                                !.receipts = <<>>]
          /\ UNCHANGED <<state, reply>>
      BY <1>7, <2>3 DEF Finish
    <3>2. job' \in Job /\ \A i \in DOMAIN job'.receipts : job'.receipts[i].cart \in Good
      BY <3>1, ClearedJob DEF TypeOK, Job
    <3> QED
      BY <2>1, <2>2, <3>1, <3>2 DEF TypeOK, CardIsOfTheBasket
  <2>4. CASE ~Fenced
    <3> DEFINE before == IF answered THEN run.cart ELSE Unpriced(run.cart)
               cart == Refreshed(before, basket)
    <3>1. before \in Good
      BY UnpricedIsGood DEF TypeOK, Run
    <3>2. cart \in Good /\ cart \in Cart
      BY <3>1, RefreshedIsGood DEF TypeOK, Live, Good
    <3>3. /\ state' = cart
          /\ job' = [job EXCEPT !.status = "completed", !.receipts = <<>>]
          /\ reply' \in {"ai", "checkout"}
      BY <1>7, <2>4 DEF Finish
    <3>4. job' \in Job /\ \A i \in DOMAIN job'.receipts : job'.receipts[i].cart \in Good
      BY <3>3, ClearedJob DEF TypeOK
    <3> HIDE DEF cart
    <3> QED
      BY <2>1, <2>2, <3>2, <3>3, <3>4 DEF TypeOK, CardIsOfTheBasket
  <2> QED
    BY <2>3, <2>4
<1>8. CASE ChangeBasket
  BY <1>8 DEF ChangeBasket, Changed, TypeOK, CardIsOfTheBasket
<1>9. CASE StartOver
  <2>1. Empty \in Good /\ Empty \in Cart
    BY NothingIsGood DEF Good
  <2>2. NoCard \in [quote : Quote, revision : Nat, district : Places] /\ None \in Places
    BY DEF NoCard, Quote, NoQuote, Places
  <2>3. basket' \in [revision : Nat, full : BOOLEAN]
    BY <1>9 DEF StartOver, Changed, TypeOK
  <2>4. CardIsOfTheBasket'
    BY <1>9 DEF StartOver, CardIsOfTheBasket, NoCard, NoQuote
  <2> QED
    BY <1>9, <2>1, <2>2, <2>3, <2>4 DEF StartOver, TypeOK
<1>10. CASE Handover
  <2>1. chat' \in [status : {"ai", "waiting", "human"}, generation : Nat]
    BY <1>10 DEF Handover, TypeOK
  <2>2. CASE job' = job
    BY <1>10, <2>1, <2>2 DEF Handover, TypeOK, CardIsOfTheBasket
  <2>3. CASE job' = [job EXCEPT !.status = "human", !.receipts = <<>>]
    <3>1. job' \in Job /\ \A i \in DOMAIN job'.receipts : job'.receipts[i].cart \in Good
      BY <2>3, ClearedJob DEF TypeOK
    <3> QED
      BY <1>10, <2>1, <3>1 DEF Handover, TypeOK, CardIsOfTheBasket
  <2> QED
    BY <1>10, <2>2, <2>3 DEF Handover
<1>11. CASE Press
  BY <1>11 DEF Press, Pressable, TypeOK, Good, Sound, Cart, Quote, CardIsOfTheBasket
<1>12. ASSUME NEW d \in Districts, MoveHome(d) PROVE IInv'
  BY <1>12 DEF MoveHome, TypeOK, Places, CardIsOfTheBasket
<1>13. CASE UNCHANGED vars
  BY <1>13 DEF vars, TypeOK, CardIsOfTheBasket
<1> QED
  BY <1>1, <1>2, <1>3, <1>4, <1>5, <1>6, <1>7, <1>8, <1>9, <1>10, <1>11, <1>12, <1>13 DEF Next

LEMMA Invariance == Spec => []IInv
  BY Initially, Consecution, PTL DEF Spec

-----------------------------------------------------------------------------
\* Every variable of the agent's job and its copies stays in its type, and no
\* count of questions, calls or revisions is needed for it.
THEOREM TypeCorrect == Spec => []TypeOK
<1>1. IInv => TypeOK
  BY DEF IInv
<1> QED
  BY <1>1, Invariance, PTL

\* A price in any copy (saved, in memory or in a receipt) is the price of the
\* revision that copy stands for, and the confirmation a button opens is priced
\* on the revision the order will be checked against (AgentCart.refresh_from_live,
\* prepare_confirmation).
THEOREM PricesAreOfTheirBasket == Spec => []PricesStayWithTheBasket
<1>1. IInv => PricesStayWithTheBasket
  BY DEF IInv, PricesStayWithTheBasket, QuoteIsOfTheBasket, Copies, Good, Sound
<1> QED
  BY <1>1, Invariance, PTL

-----------------------------------------------------------------------------
(* OperatorConsole.  Of the records only the fields that carry replies have *)
(* types; the others are as they are.                                       *)

Message == [text : Nat, id : Nat]

IsRow(r) ==
    r \in [status : {r.status}, operator : {r.operator}, said : Seq(Message), open : {r.open},
           read : {r.read}]

IsPage(p) ==
    p \in [selected : Chats \cup {Nobody}, request : {p.request}, cursor : {p.cursor},
           log : {p.log}, latest : {p.latest}, owned : {p.owned}, waiting : {p.waiting},
           open : {p.open}, refreshing : {p.refreshing}, busy : {p.busy},
           atLatest : {p.atLatest}, input : Nat, drafts : [Chats -> Nat],
           marked : {p.marked}, attempts : [Chats -> Message], ids : Nat]

IsCall(k) ==
    k \in [op : {"thread", "requests", "read", "send", "claim", "close", "resolve"},
           chat : Chats, request : {k.request}, after : {k.after}, message : Message,
           caller : {k.caller}, answered : BOOLEAN, answer : {k.answer}]

\* The reply box holds the draft of the chat that is open.
BoxIsDraft(p) == p.selected # Nobody => p.input = p.drafts[p.selected]

ConsoleTypes ==
    /\ server = [c \in Chats |-> server[c]]
    /\ \A c \in Chats : IsRow(server[c])
    /\ IsPage(page)
    /\ \A k \in calls : IsCall(k)
    /\ typed \in Seq(Chats)

\* A reply, under way, stored or to be tried again, is of its chat.
IsOf(c, m) == m # FromOthers => m.text \in DOMAIN typed /\ typed[m.text] = c

Sending(c) == {k.message : k \in {j \in calls : j.op = "send" /\ j.chat = c}}
SaidIn(c) == {server[c].said[i] : i \in DOMAIN server[c].said}
Replies(c) == Sending(c) \cup SaidIn(c) \cup {page.attempts[c]}

\* A text goes under one request id.
OneIdPerText(c) == \A m, n \in Replies(c) : m.text = n.text => m = n

\* What is in the box is of its chat and, once it was sent, it is what the
\* page would send again.
DraftIsRetried(c) ==
    page.drafts[c] # 0 =>
        /\ page.drafts[c] \in DOMAIN typed /\ typed[page.drafts[c]] = c
        /\ \A m \in Sending(c) \cup SaidIn(c) : m.text = page.drafts[c] => m = page.attempts[c]

SaidOnce(said) ==
    \A i, j \in DOMAIN said : said[i] = said[j] /\ said[i].text # 0 => i = j

RepliesInv ==
    \A c \in Chats :
        /\ \A m \in Replies(c) : IsOf(c, m)
        /\ OneIdPerText(c)
        /\ DraftIsRetried(c)
        /\ SaidOnce(server[c].said)

ConsoleIInv == ConsoleTypes /\ BoxIsDraft(page) /\ RepliesInv

LEMMA ConsoleInitially == ConsoleInit => ConsoleIInv
<1> SUFFICES ASSUME ConsoleInit PROVE ConsoleIInv
  OBVIOUS
<1>1. FromOthers \in Message /\ FromOthers.text = 0
  BY DEF FromOthers, Message
<1>2. /\ server = [c \in Chats |-> server[c]]
      /\ \A c \in Chats : IsRow(server[c]) /\ server[c].said = <<>>
  <2>1. <<>> \in Seq(Message)
    OBVIOUS
  <2>2. \A c \in Chats :
            server[c] = [status |-> IF c \in Held THEN "human" ELSE "waiting",
                         operator |-> IF c \in Held THEN Me ELSE Nobody,
                         said |-> <<>>, open |-> FALSE, read |-> 0]
    BY DEF ConsoleInit
  <2>3. ASSUME NEW c \in Chats PROVE IsRow(server[c]) /\ server[c].said = <<>>
    <3>1. PICK status, operator :
            server[c] = [status |-> status, operator |-> operator, said |-> <<>>,
                         open |-> FALSE, read |-> 0]
      BY <2>2
    <3> QED BY <2>1, <3>1 DEF IsRow
  <2>4. server = [c \in Chats |-> server[c]]
    BY DEF ConsoleInit
  <2> QED BY <2>3, <2>4
<1>3. /\ IsPage(page) /\ BoxIsDraft(page)
      /\ \A c \in Chats : page.attempts[c] = FromOthers /\ page.drafts[c] = 0
  BY <1>1 DEF ConsoleInit, IsPage, BoxIsDraft
<1>4. calls = {} /\ typed \in Seq(Chats)
  BY DEF ConsoleInit
<1>5. \A c \in Chats : Replies(c) = {FromOthers} /\ SaidOnce(server[c].said)
  BY <1>2, <1>3, <1>4 DEF Replies, Sending, SaidIn, SaidOnce
<1>6. ConsoleTypes
  BY <1>2, <1>3, <1>4 DEF ConsoleTypes
<1>7. RepliesInv
  <2>1. ASSUME NEW c \in Chats PROVE (\A m \in Replies(c) : IsOf(c, m)) /\ OneIdPerText(c)
    <3>1. Replies(c) = {FromOthers}
      BY <1>5
    <3>2. IsOf(c, FromOthers)
      BY DEF IsOf
    <3> QED BY <3>1, <3>2 DEF OneIdPerText
  <2>2. \A c \in Chats : DraftIsRetried(c)
    BY <1>3 DEF DraftIsRetried
  <2> QED BY <1>5, <2>1, <2>2 DEF RepliesInv
<1> QED BY <1>3, <1>6, <1>7 DEF ConsoleIInv

-----------------------------------------------------------------------------
(* The functions of the page.                                              *)

Fits(p) == IsPage(p) /\ BoxIsDraft(p)
Same(p, q) == p.attempts = q.attempts /\ p.drafts = q.drafts
Quiet(ks) == \A k \in ks : IsCall(k) /\ k.op # "send"

LEMMA CallIsCall ==
    ASSUME NEW op \in {"thread", "requests", "read", "send", "claim", "close", "resolve"},
           NEW c \in Chats, NEW request, NEW after, NEW caller
    PROVE  /\ IsCall(Call(op, c, request, after, caller))
           /\ Call(op, c, request, after, caller).op = op
BY DEF Call, IsCall, FromOthers, Message

LEMMA MarkReadFits ==
    ASSUME NEW p, Fits(p)
    PROVE  Fits(MarkRead(p).page) /\ Same(MarkRead(p).page, p) /\ Quiet(MarkRead(p).calls)
<1>1. CASE Readable(p)
  <2> DEFINE call == Call("read", p.selected, 0, p.cursor, "free")
  <2>1. p.selected \in Chats
    BY <1>1 DEF Readable
  <2>2. IsCall(call) /\ call.op = "read"
    BY <2>1, CallIsCall
  <2>3. /\ MarkRead(p).page = [p EXCEPT !.marked[p.selected] = p.cursor]
        /\ MarkRead(p).calls = {[call EXCEPT !.answer.last = p.marked[p.selected]]}
    BY <1>1 DEF MarkRead
  <2>4. Fits(MarkRead(p).page) /\ Same(MarkRead(p).page, p)
    BY <2>3 DEF Fits, IsPage, BoxIsDraft, Same
  <2> HIDE DEF call
  <2>5. Quiet(MarkRead(p).calls)
    BY <2>2, <2>3 DEF Quiet, IsCall
  <2> QED BY <2>4, <2>5
<1>2. CASE ~Readable(p)
  BY <1>2 DEF MarkRead, Quiet, Same
<1> QED BY <1>1, <1>2

LEMMA RefreshThreadFits ==
    ASSUME NEW p, Fits(p), NEW caller
    PROVE  /\ Fits(RefreshThread(p, caller).page)
           /\ Same(RefreshThread(p, caller).page, p)
           /\ Quiet(RefreshThread(p, caller).calls)
<1>1. CASE p.selected = Nobody
  BY <1>1 DEF RefreshThread, Quiet, Same
<1>2. CASE p.selected # Nobody
  <2>1. p.selected \in Chats
    BY <1>2 DEF Fits, IsPage
  <2>2. /\ RefreshThread(p, caller).page = [p EXCEPT !.request = NextRequest, !.refreshing = TRUE]
        /\ RefreshThread(p, caller).calls = {Call("thread", p.selected, NextRequest, p.cursor, caller)}
    BY <1>2 DEF RefreshThread
  <2>3. Fits(RefreshThread(p, caller).page) /\ Same(RefreshThread(p, caller).page, p)
    BY <2>2 DEF Fits, IsPage, BoxIsDraft, Same
  <2>4. Quiet(RefreshThread(p, caller).calls)
    BY <2>1, <2>2, CallIsCall DEF Quiet
  <2> QED BY <2>3, <2>4
<1> QED BY <1>1, <1>2

LEMMA ReleasedFits ==
    ASSUME NEW p, Fits(p), NEW caller
    PROVE  /\ Fits(Released(p, caller).page)
           /\ Same(Released(p, caller).page, p)
           /\ Quiet(Released(p, caller).calls)
<1> DEFINE q == [p EXCEPT !.busy = FALSE]
<1>1. Fits(q) /\ Same(q, p)
  BY DEF Fits, IsPage, BoxIsDraft, Same
<1> HIDE DEF q
<1>2. Fits(MarkRead(q).page) /\ Same(MarkRead(q).page, q) /\ Quiet(MarkRead(q).calls)
  BY <1>1, MarkReadFits
<1>3. CASE caller = "busy"
  BY <1>1, <1>2, <1>3 DEF Released, q, Same
<1>4. CASE caller # "busy"
  BY <1>4 DEF Released, Quiet, Same
<1> QED BY <1>3, <1>4

\* Leaving a chat saves the draft that is saved already.
LEMMA OpenedFits ==
    ASSUME NEW p, Fits(p), NEW c \in Chats \cup {Nobody}
    PROVE  /\ IsPage(Opened(p, c))
           /\ Same(Opened(p, c), p)
           /\ Opened(p, c).selected = c
<1>1. IsPage(SavedDraft(p)) /\ Same(SavedDraft(p), p)
  <2>1. CASE p.selected = Nobody
    BY <2>1 DEF SavedDraft, Fits, Same
  <2>2. CASE p.selected # Nobody
    <3>1. p.selected \in Chats /\ p.drafts \in [Chats -> Nat] /\ p.input = p.drafts[p.selected]
      BY <2>2 DEF Fits, IsPage, BoxIsDraft
    <3>2. [p.drafts EXCEPT ![p.selected] = p.input] = p.drafts
      BY <3>1
    <3>3. SavedDraft(p) = [p EXCEPT !.drafts = p.drafts]
      BY <2>2, <3>2 DEF SavedDraft
    <3> QED BY <3>3 DEF Fits, IsPage, Same
  <2> QED BY <2>1, <2>2
<1> DEFINE q == SavedDraft(p)
<1>2. Opened(p, c) =
        [q EXCEPT !.selected = c, !.request = 0, !.cursor = 0, !.log = <<>>, !.latest = FALSE,
                  !.owned = FALSE, !.waiting = FALSE, !.open = FALSE]
  BY DEF Opened
<1> HIDE DEF q
<1> QED BY <1>1, <1>2 DEF IsPage, Same, q

LEMMA ClearThreadFits ==
    ASSUME NEW p, Fits(p)
    PROVE  Fits(ClearThread(p)) /\ Same(ClearThread(p), p)
<1> DEFINE q == Opened(p, Nobody)
<1>1. IsPage(q) /\ Same(q, p) /\ q.selected = Nobody
  BY OpenedFits
<1>2. ClearThread(p) = [q EXCEPT !.refreshing = FALSE]
  BY DEF ClearThread
<1> HIDE DEF q
<1> QED BY <1>1, <1>2 DEF Fits, IsPage, BoxIsDraft, Same

LEMMA AppendedFits ==
    ASSUME NEW p, Fits(p), NEW c, NEW after, NEW last
    PROVE  Fits(Appended(p, c, after, last)) /\ Same(Appended(p, c, after, last), p)
<1>1. PICK log, cursor, latest :
        Appended(p, c, after, last) =
            [p EXCEPT !.log = log, !.cursor = cursor, !.latest = latest]
  BY DEF Appended
<1> QED BY <1>1 DEF Fits, IsPage, BoxIsDraft, Same

-----------------------------------------------------------------------------
(* The steps.                                                              *)

\* A message that is no reply of the page changes nothing about replies.
LEMMA FrameKeeps ==
    ASSUME ConsoleIInv,
           Fits(page'), Same(page', page),
           \A k \in calls' : IsCall(k),
           \A k \in calls' : k.op = "send" =>
                \E j \in calls : j.op = "send" /\ j.chat = k.chat /\ j.message = k.message,
           typed' = typed,
           server' = [c \in Chats |-> server'[c]],
           \A c \in Chats :
                /\ IsRow(server'[c])
                /\ server'[c].said \in {server[c].said, Append(server[c].said, FromOthers)}
    PROVE  ConsoleIInv'
<1>1. ConsoleTypes' /\ BoxIsDraft(page')
  BY DEF ConsoleIInv, ConsoleTypes, Fits
<1>2. \A c \in Chats : Sending(c)' \subseteq Sending(c)
  BY DEF Sending
<1>3. ASSUME NEW c \in Chats
      PROVE  /\ SaidIn(c)' \subseteq SaidIn(c) \cup {FromOthers}
             /\ SaidOnce(server'[c].said)
  <2>1. server[c].said \in Seq(Message) /\ SaidOnce(server[c].said)
    BY DEF ConsoleIInv, ConsoleTypes, IsRow, RepliesInv
  <2>2. CASE server'[c].said = server[c].said
    BY <2>1, <2>2 DEF SaidIn
  <2>3. CASE server'[c].said = Append(server[c].said, FromOthers)
    <3>1. \A i \in DOMAIN server'[c].said :
            IF i = Len(server[c].said) + 1 THEN server'[c].said[i] = FromOthers
            ELSE i \in DOMAIN server[c].said /\ server'[c].said[i] = server[c].said[i]
      BY <2>1, <2>3
    <3> QED BY <2>1, <3>1 DEF SaidIn, SaidOnce, FromOthers
  <2> QED BY <2>2, <2>3
<1>4. ASSUME NEW c \in Chats
      PROVE  /\ \A m \in Replies(c)' : IsOf(c, m)'
             /\ OneIdPerText(c)'
             /\ DraftIsRetried(c)'
  <2>1. Replies(c)' \subseteq Replies(c) \cup {FromOthers}
    BY <1>2, <1>3 DEF Replies, Same
  <2>2. \A m \in Replies(c) : IsOf(c, m)
    BY DEF ConsoleIInv, RepliesInv
  <2>3. ASSUME NEW m \in Replies(c)' PROVE IsOf(c, m)'
    <3>1. IsOf(c, FromOthers)
      BY DEF IsOf
    <3>2. IsOf(c, m)
      BY <2>1, <2>2, <3>1
    <3> QED BY <3>2 DEF IsOf
  <2>4. 0 \notin DOMAIN typed /\ FromOthers.text = 0
    BY DEF ConsoleIInv, ConsoleTypes, FromOthers
  <2>5. \A m \in Replies(c) : m.text = 0 => m = FromOthers
    BY <2>2, <2>4 DEF IsOf
  <2>6. OneIdPerText(c)'
    BY <2>1, <2>4, <2>5 DEF ConsoleIInv, RepliesInv, OneIdPerText
  <2>7. DraftIsRetried(c)'
    <3>1. /\ DraftIsRetried(c)
          /\ page'.drafts[c] = page.drafts[c] /\ page'.attempts[c] = page.attempts[c]
      BY DEF ConsoleIInv, RepliesInv, Same
    <3> QED BY <1>2, <1>3, <2>4, <3>1 DEF DraftIsRetried
  <2> QED BY <2>3, <2>6, <2>7
<1> QED BY <1>1, <1>3, <1>4 DEF ConsoleIInv, RepliesInv

\* New calls that send no reply, instead of any that are over.
LEMMA QuietKeeps ==
    ASSUME ConsoleIInv,
           Fits(page'), Same(page', page), server' = server, typed' = typed,
           NEW new, Quiet(new), calls' \subseteq calls \cup new
    PROVE  ConsoleIInv'
<1>1. \A k \in calls : IsCall(k)
  BY DEF ConsoleIInv, ConsoleTypes
<1>2. \A k \in calls' : /\ IsCall(k)
                        /\ k.op = "send" => k \in calls
  BY <1>1 DEF Quiet
<1>3. server' = [c \in Chats |-> server'[c]] /\ \A c \in Chats : IsRow(server'[c])
  BY DEF ConsoleIInv, ConsoleTypes
<1> QED BY <1>2, <1>3, FrameKeeps

\* The administrator opens a chat, and the box holds its draft.
LEMMA ChooseKeeps ==
    ASSUME ConsoleIInv, NEW c \in Chats, Choose(c)
    PROVE  ConsoleIInv'
<1> DEFINE opened == Opened(page, c)
           p == [opened EXCEPT !.atLatest = TRUE]
           q == [p EXCEPT !.input = p.drafts[c]]
           step == RefreshThread(q, "free")
<1>1. Fits(page)
  BY DEF ConsoleIInv, ConsoleTypes, Fits
<1>2. IsPage(opened) /\ Same(opened, page) /\ opened.selected = c
  BY <1>1, OpenedFits
<1>3. page' = step.page /\ calls' = calls \cup step.calls
  BY DEF Choose, Do
<1> HIDE DEF opened
<1>4. IsPage(p) /\ Same(p, page) /\ p.selected = c
  BY <1>2 DEF IsPage, Same
<1> HIDE DEF p
<1>5. p.drafts[c] \in Nat
  BY <1>4 DEF IsPage
<1>6. Fits(q) /\ Same(q, page)
  BY <1>4, <1>5 DEF Fits, IsPage, Same, BoxIsDraft
<1> HIDE DEF q
<1>7. Fits(page') /\ Same(page', page) /\ Quiet(step.calls)
  BY <1>3, <1>6, RefreshThreadFits DEF Same
<1> HIDE DEF step
<1>8. server' = server /\ typed' = typed
  BY DEF Choose
<1> QED BY <1>3, <1>7, <1>8, QuietKeeps

\* What the page does and how the server's answers come in, but for an
\* accepted reply.
LEMMA PageKeeps ==
    ASSUME ConsoleIInv,
           \/ Scroll
           \/ Poll
           \/ \E op \in {"claim", "close", "resolve"} : PressButton(op)
    PROVE  ConsoleIInv'
<1>1. Fits(page)
  BY DEF ConsoleIInv, ConsoleTypes, Fits
<1>2. CASE Scroll
  <2> DEFINE p == [page EXCEPT !.atLatest = ~@]
             step == IF p.atLatest THEN MarkRead(p) ELSE [page |-> p, calls |-> {}]
  <2>1. Fits(p) /\ Same(p, page)
    BY <1>1 DEF Fits, IsPage, Same, BoxIsDraft
  <2>2. page' = step.page /\ calls' = calls \cup step.calls /\ server' = server /\ typed' = typed
    BY <1>2 DEF Scroll, Do
  <2> HIDE DEF p
  <2>3. Fits(MarkRead(p).page) /\ Same(MarkRead(p).page, p) /\ Quiet(MarkRead(p).calls)
    BY <2>1, MarkReadFits
  <2>4. Fits(step.page) /\ Same(step.page, page) /\ Quiet(step.calls)
    BY <2>1, <2>3 DEF Same, Quiet
  <2> HIDE DEF step
  <2> QED BY <2>2, <2>4, QuietKeeps
<1>3. CASE Poll
  <2>1. /\ page' = RefreshThread(page, "poll").page
        /\ calls' = calls \cup RefreshThread(page, "poll").calls
        /\ server' = server /\ typed' = typed
    BY <1>3 DEF Poll, Do
  <2> QED BY <1>1, <2>1, RefreshThreadFits, QuietKeeps
<1>4. ASSUME NEW op \in {"claim", "close", "resolve"}, PressButton(op)
      PROVE  ConsoleIInv'
  <2> DEFINE new == {Call(op, page.selected, 0, 0, "busy")}
  <2>1. page.selected \in Chats
    BY <1>1, <1>4 DEF PressButton, Fits, IsPage
  <2>2. Quiet(new)
    BY <2>1, CallIsCall DEF Quiet
  <2>3. page' = [page EXCEPT !.busy = TRUE] /\ calls' = calls \cup new /\ server' = server /\ typed' = typed
    BY <1>4 DEF PressButton
  <2> HIDE DEF new
  <2>4. Fits(page') /\ Same(page', page)
    BY <1>1, <2>3 DEF Fits, IsPage, Same, BoxIsDraft
  <2> QED BY <2>2, <2>3, <2>4, QuietKeeps
<1> QED BY <1>2, <1>3, <1>4

\* The end of a call.
LEMMA EndCallKeeps ==
    ASSUME ConsoleIInv, NEW call \in calls, NEW step,
           Fits(step.page), Same(step.page, page), Quiet(step.calls),
           EndCall(call, step), server' = server, typed' = typed
    PROVE  ConsoleIInv'
<1> DEFINE end == Released(step.page, call.caller)
<1>1. Fits(end.page) /\ Same(end.page, step.page) /\ Quiet(end.calls)
  BY ReleasedFits
<1>2. page' = end.page /\ calls' = Drop(call) \cup step.calls \cup end.calls
  BY DEF EndCall
<1> HIDE DEF end
<1>3. Quiet(step.calls \cup end.calls) /\ calls' \subseteq calls \cup (step.calls \cup end.calls)
  BY <1>1, <1>2 DEF Quiet, Drop
<1>4. Fits(page') /\ Same(page', page)
  BY <1>1, <1>2 DEF Same
<1> QED BY <1>3, <1>4, QuietKeeps

LEMMA RereadKeeps ==
    ASSUME ConsoleIInv, NEW call \in calls, Reread(call, page), server' = server, typed' = typed
    PROVE  ConsoleIInv'
<1> DEFINE step == RefreshThread(page, "busy")
<1>1. Fits(step.page) /\ Same(step.page, page) /\ Quiet(step.calls)
  BY RefreshThreadFits DEF ConsoleIInv, ConsoleTypes, Fits
<1>2. \/ EndCall(call, step)
      \/ page' = step.page /\ calls' = Drop(call) \cup step.calls
  BY DEF Reread
<1> HIDE DEF step
<1>3. CASE EndCall(call, step)
  BY <1>1, <1>3, EndCallKeeps
<1>4. CASE page' = step.page /\ calls' = Drop(call) \cup step.calls
  <2>1. calls' \subseteq calls \cup step.calls
    BY <1>4 DEF Drop
  <2> QED BY <1>1, <1>4, <2>1, QuietKeeps
<1> QED BY <1>2, <1>3, <1>4

\* Answers that are not of a reply, and calls that are lost.
LEMMA AnswerKeeps ==
    ASSUME ConsoleIInv, NEW call \in calls,
           \/ ThreadArrives(call) \/ RequestsArrive(call)
           \/ ButtonArrives(call) \/ ReadArrives(call) \/ Lose(call)
    PROVE  ConsoleIInv'
<1> DEFINE idle == [page |-> page, calls |-> {}]
           gone == [page |-> ClearThread(page), calls |-> {}]
<1>1. Fits(page) /\ IsCall(call)
  BY DEF ConsoleIInv, ConsoleTypes, Fits
<1>2. Fits(idle.page) /\ Same(idle.page, page) /\ Quiet(idle.calls)
  BY <1>1 DEF Same, Quiet
<1>3. Fits(gone.page) /\ Same(gone.page, page) /\ Quiet(gone.calls)
  BY <1>1, ClearThreadFits DEF Quiet
<1> HIDE DEF idle, gone
<1>4. ASSUME EndCall(call, idle) \/ EndCall(call, gone), server' = server, typed' = typed
      PROVE  ConsoleIInv'
  BY <1>2, <1>3, <1>4, EndCallKeeps
<1>5. CASE ThreadArrives(call)
  <2>1. server' = server /\ typed' = typed
    BY <1>5 DEF ThreadArrives
  <2> DEFINE a == Appended(page, call.chat, call.after, call.answer.last)
             p == [a EXCEPT !.owned = call.answer.mine, !.waiting = call.answer.waiting]
             new == {Call("requests", call.chat, call.request, 0, call.caller)}
  <2>2. \/ EndCall(call, idle) \/ EndCall(call, gone)
        \/ page' = p /\ calls' = Drop(call) \cup new
    BY <1>5 DEF ThreadArrives, idle, gone
  <2>3. Fits(a) /\ Same(a, page)
    BY <1>1, AppendedFits
  <2> HIDE DEF a
  <2>4. Fits(p) /\ Same(p, page)
    BY <2>3 DEF Fits, IsPage, Same, BoxIsDraft
  <2>5. Quiet(new)
    BY <1>1, CallIsCall DEF Quiet, IsCall
  <2> HIDE DEF p, new
  <2>6. CASE page' = p /\ calls' = Drop(call) \cup new
    <3>1. calls' \subseteq calls \cup new
      BY <2>6 DEF Drop
    <3> QED BY <2>1, <2>4, <2>5, <2>6, <3>1, QuietKeeps
  <2> QED BY <1>4, <2>1, <2>2, <2>6
<1>6. CASE RequestsArrive(call)
  <2> DEFINE p == IF call.chat = page.selected /\ call.answer.found
                  THEN [page EXCEPT !.open = call.answer.open] ELSE page
             still == [p EXCEPT !.refreshing = FALSE]
             idle2 == [page |-> p, calls |-> {}]
             gone2 == [page |-> ClearThread(p), calls |-> {}]
  <2>1. server' = server /\ typed' = typed
    BY <1>6 DEF RequestsArrive
  <2>2. EndCall(call, idle2) \/ EndCall(call, gone2) \/ EndCall(call, MarkRead(still))
    BY <1>6 DEF RequestsArrive
  <2>3. Fits(p) /\ Same(p, page)
    BY <1>1 DEF Fits, IsPage, Same, BoxIsDraft
  <2> HIDE DEF p
  <2>4. Fits(still) /\ Same(still, page)
    BY <2>3 DEF Fits, IsPage, Same, BoxIsDraft
  <2> HIDE DEF still
  <2>5. /\ Fits(MarkRead(still).page) /\ Same(MarkRead(still).page, page)
        /\ Quiet(MarkRead(still).calls)
    BY <2>4, MarkReadFits DEF Same
  <2>6. Fits(idle2.page) /\ Same(idle2.page, page) /\ Quiet(idle2.calls)
    BY <2>3 DEF Quiet
  <2>7. Fits(gone2.page) /\ Same(gone2.page, page) /\ Quiet(gone2.calls)
    BY <2>3, ClearThreadFits DEF Quiet, Same
  <2> HIDE DEF idle2, gone2
  <2> QED BY <2>1, <2>2, <2>5, <2>6, <2>7, EndCallKeeps
<1>7. CASE ButtonArrives(call)
  <2>1. server' = server /\ typed' = typed
    BY <1>7 DEF ButtonArrives
  <2>2. EndCall(call, idle) \/ EndCall(call, gone) \/ Reread(call, page)
    BY <1>7 DEF ButtonArrives, idle, gone
  <2> QED BY <1>4, <2>1, <2>2, RereadKeeps
<1>8. CASE ReadArrives(call)
  <2>1. calls' \subseteq calls \cup {} /\ page' = page /\ server' = server /\ typed' = typed
    BY <1>8 DEF ReadArrives, Drop
  <2>2. Quiet({}) /\ Same(page', page)
    BY <2>1 DEF Quiet, Same
  <2> QED BY <1>1, <2>1, <2>2, QuietKeeps
<1>9. CASE Lose(call)
  <2> DEFINE p == IF Current(call) THEN [page EXCEPT !.refreshing = FALSE] ELSE page
             step == [page |-> p, calls |-> {}]
  <2>1. server' = server /\ typed' = typed
    BY <1>9 DEF Lose
  <2>2. call.op \in {"thread", "requests", "read", "send", "claim", "close", "resolve"}
    BY <1>1 DEF IsCall
  <2>3. \/ page' = MarkFails(call) /\ calls' = Drop(call)
        \/ EndCall(call, idle) \/ EndCall(call, step) \/ Reread(call, page)
    BY <1>9, <2>2 DEF Lose, idle
  <2>4. CASE page' = MarkFails(call) /\ calls' = Drop(call)
    <3>1. PICK marked : page' = [page EXCEPT !.marked = marked]
      BY <2>4 DEF MarkFails
    <3>2. Fits(page') /\ Same(page', page)
      BY <1>1, <3>1 DEF Fits, IsPage, Same, BoxIsDraft
    <3>3. calls' \subseteq calls \cup {} /\ Quiet({})
      BY <2>4 DEF Drop, Quiet
    <3> QED BY <2>1, <3>2, <3>3, QuietKeeps
  <2>5. Fits(p) /\ Same(p, page)
    BY <1>1 DEF Fits, IsPage, Same, BoxIsDraft
  <2> HIDE DEF p
  <2>6. Fits(step.page) /\ Same(step.page, page) /\ Quiet(step.calls)
    BY <2>5 DEF Quiet
  <2> HIDE DEF step
  <2> QED BY <1>4, <2>1, <2>3, <2>4, <2>6, EndCallKeeps, RereadKeeps
<1> QED BY <1>5, <1>6, <1>7, <1>8, <1>9

-----------------------------------------------------------------------------
(* The steps of a reply.                                                   *)

\* A reply that is typed is a new text, of the chat that is open.
LEMMA TypeKeeps ==
    ASSUME ConsoleIInv, Type
    PROVE  ConsoleIInv'
<1> DEFINE text == Len(typed) + 1
           here == page.selected
<1>1. /\ IsPage(page) /\ here \in Chats
      /\ typed \in Seq(Chats) /\ text \in Nat /\ text # 0 /\ text \notin DOMAIN typed
  <2>1. IsPage(page) /\ typed \in Seq(Chats) /\ here # Nobody
    BY DEF ConsoleIInv, ConsoleTypes, Type
  <2>2. here \in Chats
    BY <2>1 DEF IsPage
  <2>3. text \in Nat /\ text # 0 /\ text \notin DOMAIN typed
    BY <2>1
  <2> QED BY <2>1, <2>2, <2>3
<1>2. /\ typed' \in Seq(Chats) /\ DOMAIN typed' = DOMAIN typed \cup {text}
      /\ typed'[text] = here
      /\ \A n \in DOMAIN typed : typed'[n] = typed[n]
  BY <1>1 DEF Type
<1>3. page' = [page EXCEPT !.input = text, !.drafts = [page.drafts EXCEPT ![here] = text]]
  <2> DEFINE p == [page EXCEPT !.input = text]
  <2>1. p.selected = here /\ p.input = text /\ p.drafts = page.drafts /\ here # Nobody
    BY <1>1, ConsoleAssumption DEF IsPage, ConsoleAssumption
  <2>2. page' = SavedDraft(p)
    BY DEF Type
  <2>3. SavedDraft(p) = [p EXCEPT !.drafts[p.selected] = p.input]
    BY <2>1 DEF SavedDraft
  <2> QED BY <2>1, <2>2, <2>3
<1>4. server' = server /\ calls' = calls
  BY DEF Type
<1> HIDE DEF text, here
<1>5. /\ IsPage(page') /\ page'.attempts = page.attempts
      /\ page'.selected = here /\ page'.input = text
      /\ page'.drafts = [page.drafts EXCEPT ![here] = text]
      /\ page.drafts \in [Chats -> Nat]
  <2>1. page.drafts \in [Chats -> Nat]
    BY <1>1 DEF IsPage
  <2>2. [page.drafts EXCEPT ![here] = text] \in [Chats -> Nat]
    BY <1>1, <2>1
  <2> DEFINE drafts == [page.drafts EXCEPT ![here] = text]
  <2> HIDE DEF drafts
  <2>3. page' = [page EXCEPT !.input = text, !.drafts = drafts] /\ drafts \in [Chats -> Nat]
    BY <1>3, <2>2 DEF drafts
  <2>4. here = page.selected
    BY DEF here
  <2>5. /\ IsPage(page') /\ page'.attempts = page.attempts
        /\ page'.selected = here /\ page'.input = text /\ page'.drafts = drafts
    BY <1>1, <2>3, <2>4 DEF IsPage
  <2> QED BY <2>1, <2>5 DEF drafts
<1>6. ConsoleTypes' /\ BoxIsDraft(page')
  BY <1>1, <1>2, <1>4, <1>5 DEF ConsoleIInv, ConsoleTypes, BoxIsDraft
<1>7. ASSUME NEW c \in Chats
      PROVE  /\ \A m \in Replies(c)' : IsOf(c, m)'
             /\ OneIdPerText(c)'
             /\ DraftIsRetried(c)'
             /\ SaidOnce(server'[c].said)
  <2>1. Replies(c)' = Replies(c) /\ Sending(c)' = Sending(c) /\ SaidIn(c)' = SaidIn(c)
    BY <1>4, <1>5 DEF Replies, Sending, SaidIn
  <2>2. \A m \in Replies(c) : IsOf(c, m)
    BY DEF ConsoleIInv, RepliesInv
  <2>3. ASSUME NEW m \in Replies(c)' PROVE IsOf(c, m)'
    BY <1>2, <2>1, <2>2 DEF IsOf
  <2>4. OneIdPerText(c)' /\ SaidOnce(server'[c].said)
    BY <1>4, <2>1 DEF ConsoleIInv, RepliesInv, OneIdPerText
  <2>5. \A m \in Sending(c) \cup SaidIn(c) : m.text # text
    <3>1. FromOthers.text # text
      BY <1>1 DEF FromOthers
    <3> QED BY <1>1, <2>2, <3>1 DEF IsOf, Replies
  <2>6. DraftIsRetried(c)'
    <3>1. CASE c = here
      BY <1>2, <1>5, <2>1, <2>5, <3>1 DEF DraftIsRetried
    <3>2. CASE c # here
      <4>1. page'.drafts[c] = page.drafts[c] /\ page'.attempts[c] = page.attempts[c]
        BY <1>5, <3>2
      <4>2. DraftIsRetried(c)
        BY DEF ConsoleIInv, RepliesInv
      <4> QED BY <1>2, <2>1, <4>1, <4>2 DEF DraftIsRetried
    <3> QED BY <3>1, <3>2
  <2> QED BY <2>3, <2>4, <2>6
<1> QED BY <1>6, <1>7 DEF ConsoleIInv, RepliesInv

\* A reply goes out under the id of its attempt, or of a new one.
LEMMA SendKeeps ==
    ASSUME ConsoleIInv, Send
    PROVE  ConsoleIInv'
<1> DEFINE here == page.selected
           message == Attempt(here)
           call == [Call("send", here, 0, 0, "busy") EXCEPT !.message = message]
<1>1. IsPage(page) /\ here \in Chats /\ page.input # 0 /\ page.input = page.drafts[here]
  BY DEF ConsoleIInv, ConsoleTypes, IsPage, Send, BoxIsDraft
<1>2. message \in Message /\ message.text = page.input
  BY <1>1 DEF Attempt, Message, IsPage
<1>3. IsCall(call) /\ call.op = "send" /\ call.chat = here /\ call.message = message
  <2>1. /\ IsCall(Call("send", here, 0, 0, "busy"))
        /\ Call("send", here, 0, 0, "busy").op = "send"
        /\ Call("send", here, 0, 0, "busy").chat = here
    BY <1>1, CallIsCall DEF Call
  <2> HIDE DEF message
  <2> QED BY <1>2, <2>1 DEF IsCall
<1>4. /\ page' = [page EXCEPT !.attempts[here] = message, !.ids = Most(@, message.id), !.busy = TRUE]
      /\ calls' = calls \cup {call}
      /\ server' = server /\ typed' = typed
  BY DEF Send
<1>5. message = page.attempts[here] \/ page.attempts[here].text # page.input
  BY DEF Attempt
<1> HIDE DEF here, message, call
<1>6. /\ IsPage(page') /\ page'.selected = here /\ page'.input = page.input
      /\ page'.drafts = page.drafts
      /\ page'.attempts = [page.attempts EXCEPT ![here] = message]
      /\ page.attempts \in [Chats -> Message]
  <2> DEFINE attempts == [page.attempts EXCEPT ![here] = message]
             ids == Most(page.ids, message.id)
  <2>1. page.attempts \in [Chats -> Message] /\ page.ids \in Nat
    BY <1>1 DEF IsPage
  <2>2. attempts \in [Chats -> Message]
    BY <1>1, <1>2, <2>1
  <2>3. ids \in Nat
    BY <1>2, <2>1 DEF Most, Message
  <2>4. page' = [page EXCEPT !.attempts = attempts, !.ids = ids, !.busy = TRUE]
    BY <1>4
  <2> HIDE DEF attempts, ids
  <2>5. here = page.selected
    BY DEF here
  <2>6. /\ IsPage(page') /\ page'.selected = here /\ page'.input = page.input
        /\ page'.drafts = page.drafts /\ page'.attempts = attempts
    BY <1>1, <2>2, <2>3, <2>4, <2>5 DEF IsPage
  <2> QED BY <2>1, <2>6 DEF attempts
<1>7. ConsoleTypes' /\ BoxIsDraft(page')
  BY <1>1, <1>3, <1>4, <1>6 DEF ConsoleIInv, ConsoleTypes, BoxIsDraft
<1>8. ASSUME NEW c \in Chats
      PROVE  /\ \A m \in Replies(c)' : IsOf(c, m)'
             /\ OneIdPerText(c)'
             /\ DraftIsRetried(c)'
             /\ SaidOnce(server'[c].said)
  <2>1. /\ \A m \in Replies(c) : IsOf(c, m)
        /\ OneIdPerText(c) /\ DraftIsRetried(c) /\ SaidOnce(server[c].said)
    BY DEF ConsoleIInv, RepliesInv
  <2>2. SaidIn(c)' = SaidIn(c) /\ SaidOnce(server'[c].said)
    BY <1>4, <2>1 DEF SaidIn
  <2>3. CASE c # here
    <3>1. Sending(c)' = Sending(c)
      BY <1>3, <1>4, <2>3 DEF Sending
    <3>2. page'.attempts[c] = page.attempts[c]
      BY <1>6, <2>3
    <3>3. Replies(c)' = Replies(c)
      BY <2>2, <3>1, <3>2 DEF Replies
    <3>4. ASSUME NEW m \in Replies(c)' PROVE IsOf(c, m)'
      BY <1>4, <2>1, <3>3 DEF IsOf
    <3>5. OneIdPerText(c)'
      BY <2>1, <3>3 DEF OneIdPerText
    <3>6. DraftIsRetried(c)'
      BY <1>4, <1>6, <2>1, <2>2, <3>1, <3>2 DEF DraftIsRetried
    <3> QED BY <2>2, <3>4, <3>5, <3>6
  <2>4. CASE c = here
    <3>1. Sending(c)' = Sending(c) \cup {message}
      BY <1>3, <1>4, <2>4 DEF Sending
    <3>2. page'.attempts[c] = message
      BY <1>6, <2>4
    <3>3. Replies(c)' = Sending(c) \cup SaidIn(c) \cup {message}
      BY <2>2, <3>1, <3>2 DEF Replies
    <3>4. \A m \in Sending(c) \cup SaidIn(c) : m.text = page.input => m = message
      BY <1>1, <1>5, <2>1, <2>4 DEF DraftIsRetried
    <3>5. ASSUME NEW m \in Replies(c)' PROVE IsOf(c, m)'
      <4>1. IsOf(c, message)
        BY <1>1, <1>2, <2>1, <2>4 DEF DraftIsRetried, IsOf
      <4>2. IsOf(c, m)
        BY <2>1, <3>3, <4>1 DEF Replies
      <4> QED BY <1>4, <4>2 DEF IsOf
    <3>6. OneIdPerText(c)'
      BY <1>2, <2>1, <3>3, <3>4 DEF OneIdPerText, Replies
    <3>7. DraftIsRetried(c)'
      <4>1. page'.drafts[c] = page.input /\ page.input \in DOMAIN typed /\ typed[page.input] = c
        BY <1>1, <1>6, <2>1, <2>4 DEF DraftIsRetried
      <4> QED BY <1>4, <2>2, <3>1, <3>2, <3>4, <4>1 DEF DraftIsRetried
    <3> QED BY <2>2, <3>5, <3>6, <3>7
  <2> QED BY <2>3, <2>4
<1> QED BY <1>7, <1>8 DEF ConsoleIInv, RepliesInv

-----------------------------------------------------------------------------
(* The steps of the server, and of the others.                             *)

LEMMA SayIsRow ==
    ASSUME NEW row, IsRow(row), NEW m \in Message
    PROVE  IsRow(Say(row, m)) /\ Say(row, m).said = Append(row.said, m)
<1>1. row.said \in Seq(Message)
  BY DEF IsRow
<1>2. Append(row.said, m) \in Seq(Message)
  BY <1>1
<1> DEFINE said == Append(row.said, m)
<1> HIDE DEF said
<1>3. Say(row, m) = [row EXCEPT !.said = said] /\ said \in Seq(Message)
  BY <1>2 DEF Say, said
<1>4. IsRow(Say(row, m)) /\ Say(row, m).said = said
  BY <1>3 DEF IsRow
<1> QED BY <1>4 DEF said

\* A column that is not the transcript.
LEMMA OtherColumns ==
    ASSUME NEW row, IsRow(row), NEW v
    PROVE  /\ IsRow([row EXCEPT !.read = v]) /\ [row EXCEPT !.read = v].said = row.said
           /\ IsRow([row EXCEPT !.open = v]) /\ [row EXCEPT !.open = v].said = row.said
           /\ IsRow([row EXCEPT !.status = v]) /\ [row EXCEPT !.status = v].said = row.said
           /\ IsRow([row EXCEPT !.operator = v]) /\ [row EXCEPT !.operator = v].said = row.said
BY DEF IsRow

LEMMA FromOthersIsMessage == FromOthers \in Message
BY DEF FromOthers, Message

\* What a call adds to the transcript: nothing, a message that is no reply, or
\* a reply that is not there yet.
LEMMA AfterAdds ==
    ASSUME ConsoleIInv, NEW call \in calls
    PROVE  LET c == call.chat
               said == server[c].said
           IN  /\ c \in Chats
               /\ IsRow(After(call))
               /\ \/ After(call).said \in {said, Append(said, FromOthers)}
                  \/ /\ call.op = "send"
                     /\ call.message \notin SaidIn(c)
                     /\ After(call).said = Append(said, call.message)
<1> DEFINE c == call.chat
           row == server[c]
<1>1. IsCall(call)
  BY DEF ConsoleIInv, ConsoleTypes
<1>2. /\ c \in Chats /\ call.message \in Message
      /\ call.op \in {"thread", "requests", "read", "send", "claim", "close", "resolve"}
  BY <1>1 DEF IsCall
<1>3. IsRow(row)
  BY <1>2 DEF ConsoleIInv, ConsoleTypes
<1>4. CASE call.op \in {"thread", "requests"}
  <2>1. After(call) = row
    BY <1>4 DEF After
  <2> QED BY <1>2, <1>3, <2>1
<1>5. CASE call.op = "read"
  <2> DEFINE other == [row EXCEPT !.read = Most(@, Least(call.after, Len(row.said)))]
  <2>1. After(call) = other
    BY <1>5 DEF After
  <2> HIDE DEF row
  <2>2. IsRow(other) /\ other.said = row.said
    BY <1>3, OtherColumns
  <2> QED BY <1>2, <2>1, <2>2 DEF row
<1>6. CASE call.op = "send"
  <2>1. After(call) = Replied(c, call.message)
    BY <1>6 DEF After
  <2>2. CASE call.message \in SaidIn(c)
    <3>1. After(call) = row
      BY <2>1, <2>2 DEF Replied, SaidIn
    <3> QED BY <1>2, <1>3, <3>1
  <2>3. CASE call.message \notin SaidIn(c)
    <3>1. After(call) = Say(row, call.message)
      BY <2>1, <2>3 DEF Replied, SaidIn
    <3> HIDE DEF row
    <3>2. IsRow(After(call)) /\ After(call).said = Append(row.said, call.message)
      BY <1>2, <1>3, <3>1, SayIsRow
    <3> QED BY <1>2, <1>6, <2>3, <3>2 DEF row
  <2> QED BY <2>2, <2>3
<1>7. CASE call.op = "claim"
  <2> DEFINE half == [row EXCEPT !.status = "human"]
             other == [half EXCEPT !.operator = Me]
  <2>1. After(call) = row \/ After(call) = Say(other, FromOthers)
    BY <1>7 DEF After
  <2> HIDE DEF row
  <2>2. IsRow(half) /\ half.said = row.said
    BY <1>3, OtherColumns
  <2> HIDE DEF half
  <2>3. IsRow(other) /\ other.said = row.said
    BY <2>2, OtherColumns
  <2> HIDE DEF other
  <2>4. IsRow(After(call)) /\ After(call).said \in {row.said, Append(row.said, FromOthers)}
    BY <1>3, <2>1, <2>3, SayIsRow, FromOthersIsMessage
  <2> QED BY <1>2, <2>4 DEF row
<1>8. CASE call.op = "close"
  <2> DEFINE half == [row EXCEPT !.status = "ai"]
             other == [half EXCEPT !.operator = Nobody]
  <2>1. After(call) = Say(other, FromOthers)
    BY <1>8 DEF After
  <2> HIDE DEF row
  <2>2. IsRow(half) /\ half.said = row.said
    BY <1>3, OtherColumns
  <2> HIDE DEF half
  <2>3. IsRow(other) /\ other.said = row.said
    BY <2>2, OtherColumns
  <2> HIDE DEF other
  <2>4. IsRow(After(call)) /\ After(call).said = Append(row.said, FromOthers)
    BY <2>1, <2>3, SayIsRow, FromOthersIsMessage
  <2> QED BY <1>2, <2>4 DEF row
<1>9. CASE call.op = "resolve"
  <2> DEFINE other == [row EXCEPT !.open = FALSE]
  <2>1. After(call) = Say(other, FromOthers)
    BY <1>9 DEF After
  <2> HIDE DEF row
  <2>2. IsRow(other) /\ other.said = row.said
    BY <1>3, OtherColumns
  <2> HIDE DEF other
  <2>3. IsRow(After(call)) /\ After(call).said = Append(row.said, FromOthers)
    BY <2>1, <2>2, SayIsRow, FromOthersIsMessage
  <2> QED BY <1>2, <2>3 DEF row
<1> QED BY <1>2, <1>4, <1>5, <1>6, <1>7, <1>8, <1>9

\* The server acts on a call, or refuses it.
LEMMA ServeKeeps ==
    ASSUME ConsoleIInv, NEW call \in calls, Serve(call)
    PROVE  ConsoleIInv'
<1> DEFINE c == call.chat
           done == Allowed(call)
           new == IF done THEN After(call) ELSE server[c]
           said == server[c].said
           told == [call EXCEPT !.answered = TRUE, !.answer = Answer(call, done)]
<1>1. /\ c \in Chats /\ IsRow(new)
      /\ \/ new.said \in {said, Append(said, FromOthers)}
         \/ /\ call.op = "send"
            /\ call.message \notin SaidIn(c)
            /\ new.said = Append(said, call.message)
  <2>1. IsRow(server[c])
    BY AfterAdds DEF ConsoleIInv, ConsoleTypes
  <2> QED BY <2>1, AfterAdds
<1>2. /\ server' = [server EXCEPT ![c] = new]
      /\ calls' = (calls \ {call}) \cup {told}
      /\ page' = page /\ typed' = typed
  BY DEF Serve
<1>3. IsCall(call) /\ Fits(page) /\ Same(page', page)
  BY <1>2 DEF ConsoleIInv, ConsoleTypes, Fits, Same
<1>4. IsCall(told) /\ told.op = call.op /\ told.chat = call.chat /\ told.message = call.message
  BY <1>3 DEF IsCall
<1> HIDE DEF new, told, done
<1>5. /\ server' = [b \in Chats |-> server'[b]]
      /\ server'[c] = new
      /\ \A b \in Chats \ {c} : server'[b] = server[b]
  BY <1>1, <1>2 DEF ConsoleIInv, ConsoleTypes
<1>6. \A b \in Chats : IsRow(server'[b])
  BY <1>1, <1>5 DEF ConsoleIInv, ConsoleTypes
<1>7. \A k \in calls' :
        /\ IsCall(k)
        /\ \E j \in calls : j.op = k.op /\ j.chat = k.chat /\ j.message = k.message
  BY <1>2, <1>4 DEF ConsoleIInv, ConsoleTypes
<1>8. CASE new.said \in {said, Append(said, FromOthers)}
  <2>1. \A b \in Chats : server'[b].said \in {server[b].said, Append(server[b].said, FromOthers)}
    BY <1>5, <1>8
  <2> QED BY <1>2, <1>3, <1>5, <1>6, <1>7, <2>1, FrameKeeps
<1>9. CASE /\ call.op = "send"
           /\ call.message \notin SaidIn(c)
           /\ new.said = Append(said, call.message)
  <2>1. ConsoleTypes' /\ BoxIsDraft(page')
    BY <1>2, <1>5, <1>6, <1>7 DEF ConsoleIInv, ConsoleTypes
  <2>2. ASSUME NEW b \in Chats
        PROVE  /\ \A m \in Replies(b)' : IsOf(b, m)'
               /\ OneIdPerText(b)'
               /\ DraftIsRetried(b)'
               /\ SaidOnce(server'[b].said)
    <3>1. /\ \A m \in Replies(b) : IsOf(b, m)
          /\ OneIdPerText(b) /\ DraftIsRetried(b) /\ SaidOnce(server[b].said)
          /\ server[b].said \in Seq(Message)
      BY DEF ConsoleIInv, ConsoleTypes, RepliesInv, IsRow
    <3>2. Sending(b)' \subseteq Sending(b)
      BY <1>7 DEF Sending
    <3>3. /\ SaidIn(b)' \subseteq SaidIn(b) \cup Sending(b)
          /\ SaidOnce(server'[b].said)
      <4>1. CASE b # c
        BY <1>5, <3>1, <4>1 DEF SaidIn
      <4>2. CASE b = c
        <5>1. server'[b].said = Append(server[b].said, call.message)
          BY <1>5, <1>9, <4>2
        <5>2. \A i \in DOMAIN server'[b].said :
                IF i = Len(server[b].said) + 1 THEN server'[b].said[i] = call.message
                ELSE i \in DOMAIN server[b].said /\ server'[b].said[i] = server[b].said[i]
          BY <1>3, <3>1, <5>1 DEF IsCall
        <5>3. call.message \in Sending(b)
          BY <1>9, <4>2 DEF Sending
        <5> QED BY <1>9, <3>1, <4>2, <5>2, <5>3 DEF SaidIn, SaidOnce
      <4> QED BY <4>1, <4>2
    <3>4. Replies(b)' \subseteq Replies(b)
      BY <1>2, <3>2, <3>3 DEF Replies
    <3>5. ASSUME NEW m \in Replies(b)' PROVE IsOf(b, m)'
      BY <1>2, <3>1, <3>4 DEF IsOf
    <3>6. OneIdPerText(b)'
      BY <3>1, <3>4 DEF OneIdPerText
    <3>7. DraftIsRetried(b)'
      BY <1>2, <3>1, <3>2, <3>3 DEF DraftIsRetried
    <3> QED BY <3>3, <3>5, <3>6, <3>7
  <2> QED BY <2>1, <2>2 DEF ConsoleIInv, RepliesInv
<1> QED BY <1>1, <1>8, <1>9

\* The customer and a colleague say something.
LEMMA OthersKeep ==
    ASSUME ConsoleIInv, NEW c \in Chats, CustomerWrites(c) \/ ColleagueClaims(c)
    PROVE  ConsoleIInv'
<1>1. IsRow(server[c])
  BY DEF ConsoleIInv, ConsoleTypes
<1>2. PICK new : /\ IsRow(new) /\ new.said = Append(server[c].said, FromOthers)
                 /\ server' = [server EXCEPT ![c] = new]
  <2> DEFINE row == Say(server[c], FromOthers)
  <2>1. IsRow(row) /\ row.said = Append(server[c].said, FromOthers)
    BY <1>1, SayIsRow, FromOthersIsMessage
  <2>2. CASE CustomerWrites(c)
    <3>1. PICK asks \in BOOLEAN :
            server' = [server EXCEPT ![c] =
                [row EXCEPT !.open = row.open \/ asks,
                            !.status = IF asks /\ row.status = "ai" THEN "waiting" ELSE row.status]]
      BY <2>2 DEF CustomerWrites
    <3> HIDE DEF row
    <3> DEFINE half == [row EXCEPT !.open = row.open \/ asks]
               status == IF asks /\ row.status = "ai" THEN "waiting" ELSE row.status
               new == [half EXCEPT !.status = status]
    <3>2. IsRow(half) /\ half.said = row.said /\ half.status = row.status
      BY <2>1 DEF IsRow
    <3>3. new = [row EXCEPT !.open = row.open \/ asks,
                            !.status = IF asks /\ row.status = "ai" THEN "waiting" ELSE row.status]
      BY <3>2
    <3>4. server' = [server EXCEPT ![c] = new]
      BY <3>1, <3>3
    <3> HIDE DEF half, status
    <3>5. IsRow(new) /\ new.said = row.said
      BY <3>2, OtherColumns
    <3> QED BY <2>1, <3>4, <3>5
  <2>3. CASE ColleagueClaims(c)
    <3> HIDE DEF row
    <3> DEFINE half == [row EXCEPT !.status = "human"]
               new == [half EXCEPT !.operator = Other]
    <3>1. server' = [server EXCEPT ![c] = new]
      BY <2>3 DEF ColleagueClaims, row
    <3>2. IsRow(half) /\ half.said = row.said
      BY <2>1, OtherColumns
    <3> HIDE DEF half
    <3>3. IsRow(new) /\ new.said = row.said
      BY <3>2, OtherColumns
    <3> QED BY <2>1, <3>1, <3>3
  <2> QED BY <2>2, <2>3
<1>3. page' = page /\ calls' = calls /\ typed' = typed
  BY DEF CustomerWrites, ColleagueClaims
<1>4. /\ server' = [b \in Chats |-> server'[b]]
      /\ \A b \in Chats : IsRow(server'[b])
      /\ \A b \in Chats : server'[b].said \in {server[b].said, Append(server[b].said, FromOthers)}
  BY <1>2 DEF ConsoleIInv, ConsoleTypes
<1>5. Fits(page') /\ Same(page', page) /\ \A k \in calls' : IsCall(k)
  BY <1>3 DEF ConsoleIInv, ConsoleTypes, Fits, Same
<1> QED BY <1>3, <1>4, <1>5, FrameKeeps

-----------------------------------------------------------------------------
\* An accepted reply leaves the box, and its draft and attempt are forgotten.
\* The end of its call may refresh the thread.
LEMMA ForgottenKeeps ==
    ASSUME ConsoleIInv, NEW c \in Chats, IsPage(page'), BoxIsDraft(page'),
           page'.attempts = [page.attempts EXCEPT ![c] = FromOthers],
           page'.drafts = [page.drafts EXCEPT ![c] = 0],
           server' = server, typed' = typed,
           NEW new, Quiet(new), calls' \subseteq calls \cup new
    PROVE  ConsoleIInv'
<1>1. \A k \in calls : IsCall(k)
  BY DEF ConsoleIInv, ConsoleTypes
<1>2. \A k \in calls' : /\ IsCall(k)
                        /\ k.op = "send" => k \in calls
  BY <1>1 DEF Quiet
<1>3. ConsoleTypes' /\ BoxIsDraft(page')
  BY <1>2 DEF ConsoleIInv, ConsoleTypes
<1>4. page.attempts \in [Chats -> Message] /\ page.drafts \in [Chats -> Nat]
  BY DEF ConsoleIInv, ConsoleTypes, IsPage
<1>5. ASSUME NEW b \in Chats
      PROVE  /\ \A m \in Replies(b)' : IsOf(b, m)'
             /\ OneIdPerText(b)'
             /\ DraftIsRetried(b)'
             /\ SaidOnce(server'[b].said)
  <2>1. /\ \A m \in Replies(b) : IsOf(b, m)
        /\ OneIdPerText(b) /\ DraftIsRetried(b) /\ SaidOnce(server[b].said)
    BY DEF ConsoleIInv, RepliesInv
  <2>2. Sending(b)' \subseteq Sending(b) /\ SaidIn(b)' = SaidIn(b)
    BY <1>2 DEF Sending, SaidIn
  <2>3. Replies(b)' \subseteq Replies(b) \cup {FromOthers}
    BY <1>4, <2>2 DEF Replies
  <2>4. 0 \notin DOMAIN typed /\ FromOthers.text = 0
    BY DEF ConsoleIInv, ConsoleTypes, FromOthers
  <2>5. \A m \in Replies(b) : m.text = 0 => m = FromOthers
    BY <2>1, <2>4 DEF IsOf
  <2>6. ASSUME NEW m \in Replies(b)' PROVE IsOf(b, m)'
    BY <2>1, <2>3 DEF IsOf
  <2>7. OneIdPerText(b)'
    BY <2>1, <2>3, <2>4, <2>5 DEF OneIdPerText
  <2>8. DraftIsRetried(b)'
    <3>1. CASE b = c
      BY <1>4, <3>1 DEF DraftIsRetried
    <3>2. CASE b # c
      <4>1. page'.drafts[b] = page.drafts[b] /\ page'.attempts[b] = page.attempts[b]
        BY <1>4, <3>2
      <4> QED BY <2>1, <2>2, <4>1 DEF DraftIsRetried
    <3> QED BY <3>1, <3>2
  <2> QED BY <2>1, <2>6, <2>7, <2>8
<1> QED BY <1>3, <1>5 DEF ConsoleIInv, RepliesInv

LEMMA SendArrivesKeeps ==
    ASSUME ConsoleIInv, NEW call \in calls, SendArrives(call)
    PROVE  ConsoleIInv'
<1> DEFINE c == call.chat
           p == Sent(call)
           step == RefreshThread(p, "busy")
           end == Released(step.page, call.caller)
           idle == [page |-> page, calls |-> {}]
<1>1. IsCall(call) /\ c \in Chats /\ IsPage(page) /\ BoxIsDraft(page)
  BY DEF ConsoleIInv, ConsoleTypes, IsCall
<1>2. server' = server /\ typed' = typed
  BY DEF SendArrives
<1>3. \/ EndCall(call, idle)
      \/ EndCall(call, step)
      \/ page' = step.page /\ calls' = Drop(call) \cup step.calls
  BY DEF SendArrives, Reread
<1>4. CASE EndCall(call, idle)
  <2>1. Fits(idle.page) /\ Same(idle.page, page) /\ Quiet(idle.calls)
    BY <1>1 DEF Fits, Same, Quiet
  <2> HIDE DEF idle
  <2> QED BY <1>2, <1>4, <2>1, EndCallKeeps
<1>5. /\ IsPage(p) /\ BoxIsDraft(p)
      /\ p.attempts = [page.attempts EXCEPT ![c] = FromOthers]
      /\ p.drafts = [page.drafts EXCEPT ![c] = 0]
  <2> DEFINE attempts == [page.attempts EXCEPT ![c] = FromOthers]
             drafts == [page.drafts EXCEPT ![c] = 0]
             input == IF page.selected = c THEN 0 ELSE page.input
  <2>1. /\ page.attempts \in [Chats -> Message] /\ page.drafts \in [Chats -> Nat]
        /\ page.input \in Nat /\ page.selected \in Chats \cup {Nobody}
    BY <1>1 DEF IsPage
  <2>2. attempts \in [Chats -> Message] /\ drafts \in [Chats -> Nat] /\ input \in Nat
    BY <1>1, <2>1, FromOthersIsMessage
  <2>3. page.selected # Nobody => input = drafts[page.selected]
    BY <1>1, <2>1 DEF BoxIsDraft
  <2>4. p = [page EXCEPT !.attempts = attempts, !.drafts = drafts, !.input = input]
    BY <1>1 DEF Sent, IsPage
  <2> HIDE DEF attempts, drafts, input, p
  <2>5. /\ IsPage(p) /\ p.attempts = attempts /\ p.drafts = drafts /\ p.input = input
        /\ p.selected = page.selected
    BY <1>1, <2>2, <2>4 DEF IsPage
  <2> QED BY <2>3, <2>5 DEF BoxIsDraft, attempts, drafts
<1> HIDE DEF p
<1>6. Fits(step.page) /\ Same(step.page, p) /\ Quiet(step.calls)
  BY <1>5, RefreshThreadFits DEF Fits
<1> HIDE DEF step
<1>7. Fits(end.page) /\ Same(end.page, step.page) /\ Quiet(end.calls)
  BY <1>6, ReleasedFits
<1>8. CASE EndCall(call, step)
  <2>1. page' = end.page /\ calls' = Drop(call) \cup step.calls \cup end.calls
    BY <1>8 DEF EndCall
  <2> HIDE DEF end
  <2>2. Quiet(step.calls \cup end.calls) /\ calls' \subseteq calls \cup (step.calls \cup end.calls)
    BY <1>6, <1>7, <2>1 DEF Quiet, Drop
  <2> QED BY <1>1, <1>2, <1>5, <1>6, <1>7, <2>1, <2>2, ForgottenKeeps DEF Fits, Same
<1>9. CASE page' = step.page /\ calls' = Drop(call) \cup step.calls
  <2>1. calls' \subseteq calls \cup step.calls
    BY <1>9 DEF Drop
  <2> QED BY <1>1, <1>2, <1>5, <1>6, <1>9, <2>1, ForgottenKeeps DEF Fits, Same
<1> QED BY <1>3, <1>4, <1>8, <1>9

-----------------------------------------------------------------------------
LEMMA ConsoleConsecution == ConsoleIInv /\ [ConsoleNext]_consoleVars => ConsoleIInv'
<1> SUFFICES ASSUME ConsoleIInv, [ConsoleNext]_consoleVars PROVE ConsoleIInv'
  OBVIOUS
<1>1. CASE UNCHANGED consoleVars
  <2>1. Fits(page') /\ Same(page', page) /\ Quiet({})
    BY <1>1 DEF consoleVars, ConsoleIInv, ConsoleTypes, Fits, Same, Quiet
  <2>2. server' = server /\ typed' = typed /\ calls' \subseteq calls \cup {}
    BY <1>1 DEF consoleVars
  <2> QED BY <2>1, <2>2, QuietKeeps
<1>2. ASSUME NEW c \in Chats, Choose(c) \/ CustomerWrites(c) \/ ColleagueClaims(c)
      PROVE  ConsoleIInv'
  BY <1>2, ChooseKeeps, OthersKeep
<1>3. ASSUME NEW call \in calls, Serve(call) \/ Arrives(call) \/ Lose(call)
      PROVE  ConsoleIInv'
  BY <1>3, ServeKeeps, SendArrivesKeeps, AnswerKeeps DEF Arrives
<1> QED BY <1>1, <1>2, <1>3, TypeKeeps, SendKeeps, PageKeeps DEF ConsoleNext

THEOREM ConsoleInvariance == ConsoleSpec => []ConsoleIInv
<1> QED BY ConsoleInitially, ConsoleConsecution, PTL DEF ConsoleSpec

\* A reply reaches no chat but the one it was typed in, and that one once,
\* however often it was sent.
THEOREM RepliesAreOfTheirChat == ConsoleSpec => []RepliesGoWhereTyped
<1>1. ConsoleIInv => RepliesGoWhereTyped
  <2> SUFFICES ASSUME ConsoleIInv, NEW text \in DOMAIN typed, NEW c \in Chats
               PROVE  Cardinality(Mentions(c, text)) <= (IF c = typed[text] THEN 1 ELSE 0)
    BY DEF RepliesGoWhereTyped
  <2>1. text # 0 /\ FromOthers.text = 0
    BY DEF ConsoleIInv, ConsoleTypes, FromOthers
  <2>2. \A i \in Mentions(c, text) :
            i \in DOMAIN server[c].said /\ server[c].said[i] \in Replies(c) /\ server[c].said[i].text = text
    BY DEF Mentions, Replies, SaidIn
  <2>3. \A i \in Mentions(c, text) : c = typed[text]
    BY <2>1, <2>2 DEF ConsoleIInv, RepliesInv, IsOf
  <2>4. \A i, j \in Mentions(c, text) : i = j
    BY <2>1, <2>2 DEF ConsoleIInv, RepliesInv, OneIdPerText, SaidOnce
  <2>5. CASE Mentions(c, text) = {}
    BY <2>5, FS_EmptySet
  <2>6. ASSUME NEW i \in Mentions(c, text)
        PROVE  Cardinality(Mentions(c, text)) <= (IF c = typed[text] THEN 1 ELSE 0)
    <3>1. Mentions(c, text) = {i}
      BY <2>4, <2>6
    <3>2. Cardinality(Mentions(c, text)) = 1
      BY <3>1, FS_Singleton
    <3> QED BY <2>3, <2>6, <3>2
  <2> QED BY <2>5, <2>6
<1> QED BY <1>1, ConsoleInvariance, PTL


-----------------------------------------------------------------------------
(* What was read.                                                          *)

\* The log of the open thread is its messages from the first to the cursor,
\* and what was seen and what is marked of a chat are numbers of messages.
LogIsInOrder(p) ==
    /\ p.cursor \in Nat /\ p.atLatest \in BOOLEAN
    /\ p.log = [i \in 1 .. p.cursor |-> <<p.selected, i>>]
    /\ p.marked \in [Chats -> Nat]

\* No mark is beyond what was seen, the cursor is not beyond the thread, and
\* at the end of the thread all up to the cursor was seen.
Watched(p, seen, srv) ==
    /\ \A c \in Chats : p.marked[c] <= seen[c]
    /\ p.selected \in Chats =>
        /\ p.cursor <= Len(srv[p.selected].said)
        /\ p.atLatest => p.cursor <= seen[p.selected]

IsAnswer(a) ==
    a \in [found : BOOLEAN, last : Nat, mine : {a.mine}, waiting : {a.waiting}, open : {a.open}]

\* A mark on the way, and what it would be taken back to, were seen; a thread
\* is asked for from a number it has on.
Honest(k, seen, srv) ==
    /\ k.after \in Nat /\ IsAnswer(k.answer)
    /\ k.op = "read" => k.after <= seen[k.chat] /\ k.answer.last <= seen[k.chat]
    /\ k.op = "thread" =>
        /\ k.request # 0
        /\ k.after <= Len(srv[k.chat].said)
        /\ k.answered /\ k.answer.found =>
             k.after <= k.answer.last /\ k.answer.last <= Len(srv[k.chat].said)

\* The request that the page waits for was made from its cursor.
Tied(p, ks) ==
    \A k \in ks : k.op = "thread" /\ k.chat = p.selected /\ k.request = p.request => k.after = p.cursor

OneThread(ks) ==
    \A j, k \in ks : j.op = "thread" /\ k.op = "thread" /\ j.request = k.request => j = k

ReadInv ==
    /\ shown \in [Chats -> Nat]
    /\ \A c \in Chats : server[c].read \in Nat /\ server[c].read <= shown[c]
    /\ LogIsInOrder(page) /\ Watched(page, shown, server)
    /\ IsFiniteSet(calls)
    /\ \A k \in calls : Honest(k, shown, server)
    /\ Tied(page, calls) /\ OneThread(calls)

\* A page with these types whose log, cursor and marks are right.
Right(p, seen, srv) == IsPage(p) /\ LogIsInOrder(p) /\ Watched(p, seen, srv)

SamePlace(p, q) == p.selected = q.selected /\ p.request = q.request /\ p.cursor = q.cursor

\* Calls that ask for no thread.
Marks(ks, seen, srv) ==
    IsFiniteSet(ks) /\ \A k \in ks : k.op # "thread" /\ Honest(k, seen, srv)

IsSeenUpTo(s) == s \in [Chats -> Nat]

-----------------------------------------------------------------------------
\* Of any numbers there is a least one.
LEMMA LeastNumber ==
    ASSUME NEW S, S \subseteq Nat, S # {}
    PROVE  \E i \in S : \A j \in S : i <= j
<1> DEFINE R == OpToRel(<, Nat)
<1>1. IsWellFoundedOn(R, Nat)
    BY NatLessThanWellFounded
<1>2. \A m, n \in Nat : m < n => <<m, n>> \in R
    BY DEF OpToRel
<1> HIDE DEF R
<1>3. PICK i \in S : \A j \in S : ~(<<j, i>> \in R)
    BY <1>1, WFMin
<1>4. ASSUME NEW j \in S PROVE i <= j
  <2>1. i \in Nat /\ j \in Nat /\ ~(j < i)
      BY <1>2, <1>3
  <2> QED BY <2>1
<1> QED BY <1>4

\* A function on the first numbers is a sequence.
LEMMA RowsAreASequence ==
    ASSUME NEW n \in Nat, NEW T, NEW f, f = [i \in 1 .. n |-> f[i]], \A i \in 1 .. n : f[i] \in T
    PROVE  f \in Seq(T) /\ Len(f) = n
<1>1. f \in [1 .. n -> T]
  OBVIOUS
<1> QED BY <1>1

IsLonger(t, s, x) ==
    /\ t = [i \in 1 .. Len(s) + 1 |-> t[i]]
    /\ \A i \in 1 .. Len(s) : t[i] = s[i]
    /\ t[Len(s) + 1] = x

LEMMA LongerByOne ==
    ASSUME NEW T, NEW s \in Seq(T), NEW x \in T, NEW t, IsLonger(t, s, x)
    PROVE  t = Append(s, x)
<1>0. /\ t = [i \in 1 .. Len(s) + 1 |-> t[i]]
      /\ \A i \in 1 .. Len(s) : t[i] = s[i]
      /\ t[Len(s) + 1] = x
  BY DEF IsLonger
<1>1. /\ Append(s, x) \in Seq(T) /\ Len(Append(s, x)) = Len(s) + 1
      /\ \A i \in 1 .. Len(s) : Append(s, x)[i] = s[i]
      /\ Append(s, x)[Len(s) + 1] = x
  BY AppendProperties
<1>2. Len(s) \in Nat /\ \A i \in 1 .. Len(s) : s[i] \in T
  OBVIOUS
<1>3. \A i \in 1 .. Len(s) + 1 : i \in 1 .. Len(s) \/ i = Len(s) + 1
  BY <1>2
<1>4. t \in Seq(T) /\ Len(t) = Len(s) + 1
  <2>1. \A i \in 1 .. Len(s) + 1 : t[i] \in T
    BY <1>0, <1>2, <1>3
  <2>2. Len(s) + 1 \in Nat
    BY <1>2
  <2> QED BY <1>0, <2>1, <2>2, RowsAreASequence
<1>5. \A i \in 1 .. Len(t) : t[i] = Append(s, x)[i]
  BY <1>0, <1>1, <1>3, <1>4
<1>6. Len(t) = Len(Append(s, x))
  BY <1>1, <1>4
<1> QED BY <1>1, <1>4, <1>5, <1>6, SeqEqual

\* What the recursive function of appendMessages is.
Builds(f, a, u, S, c) ==
    f = [n \in a .. u |-> IF n = a THEN <<>>
           ELSE IF n \in S THEN Append(f[n - 1], <<c, n>>) ELSE f[n - 1]]

\* Two rows built alike from the same first one are the same.
LEMMA OneWayToBuild ==
    ASSUME NEW a \in Nat, NEW u \in Nat, a <= u, NEW S, NEW c, NEW f, NEW g,
           Builds(f, a, u, S, c), Builds(g, a, u, S, c)
    PROVE  f = g
<1>a. a \in a .. u
  OBVIOUS
<1>0. /\ f = [n \in a .. u |-> f[n]] /\ g = [n \in a .. u |-> g[n]]
      /\ f[a] = g[a]
      /\ \A n \in a .. u : n # a /\ f[n - 1] = g[n - 1] => f[n] = g[n]
  BY <1>a DEF Builds
<1> DEFINE D == {n \in a .. u : f[n] # g[n]}
<1>1. ASSUME D # {} PROVE FALSE
  <2>1. D \subseteq Nat
    OBVIOUS
  <2> HIDE DEF D
  <2>2. PICK n \in D : \A j \in D : n <= j
    BY <1>1, <2>1, LeastNumber
  <2>3. n \in a .. u /\ f[n] # g[n]
    BY <2>2 DEF D
  <2>4. n # a
    BY <1>0, <2>3
  <2>5. n - 1 \in a .. u /\ n - 1 \notin D
    BY <2>2, <2>3, <2>4
  <2>6. f[n - 1] = g[n - 1]
    BY <2>5 DEF D
  <2> QED BY <1>0, <2>3, <2>4, <2>6
<1>2. \A n \in a .. u : f[n] = g[n]
  BY <1>1
<1> HIDE DEF D
<1> QED BY <1>0, <1>2

\* The rows after a number, when none of them is on the page yet.
LEMMA NewRows ==
    ASSUME NEW a \in Nat, NEW u \in Nat, a <= u, NEW S, NEW c, \A n \in a + 1 .. u : n \in S,
           NEW g, g = [n \in a .. u |-> [i \in 1 .. n - a |-> <<c, a + i>>]]
    PROVE  Builds(g, a, u, S, c)
<1>1. ASSUME NEW n \in a .. u
      PROVE  g[n] = (IF n = a THEN <<>>
                     ELSE IF n \in S THEN Append(g[n - 1], <<c, n>>) ELSE g[n - 1])
  <2>1. CASE n = a
    <3>1. g[n] = [i \in 1 .. 0 |-> <<c, a + i>>]
      BY <2>1
    <3> QED BY <2>1, <3>1
  <2>2. CASE n # a
    <3>1. n \in S /\ n - 1 \in a .. u /\ n - a \in Nat /\ n - 1 - a \in Nat /\ n - a = (n - 1 - a) + 1
      BY <2>2
    <3> DEFINE s == [i \in 1 .. n - 1 - a |-> <<c, a + i>>]
               t == [i \in 1 .. n - a |-> <<c, a + i>>]
    <3>2. g[n - 1] = s /\ g[n] = t
      BY <3>1
    <3>3. s \in Seq({c} \X Nat) /\ Len(s) = n - 1 - a
      <4>1. ASSUME NEW i \in 1 .. n - 1 - a PROVE s[i] \in {c} \X Nat
        <5>1. s[i] = <<c, a + i>> /\ a + i \in Nat
          OBVIOUS
        <5> QED BY <5>1
      <4>2. s = [i \in 1 .. n - 1 - a |-> s[i]]
        OBVIOUS
      <4> HIDE DEF s
      <4> QED BY <3>1, <4>1, <4>2, RowsAreASequence
    <3>4. \A i \in 1 .. Len(s) : t[i] = s[i]
      <4>1. ASSUME NEW i \in 1 .. n - 1 - a PROVE t[i] = s[i]
        <5>1. i \in 1 .. n - a
          BY <3>1
        <5>2. t[i] = <<c, a + i>>
          BY <5>1
        <5>3. s[i] = <<c, a + i>>
          OBVIOUS
        <5> QED BY <5>2, <5>3
      <4> QED BY <3>3, <4>1
    <3>5. t = Append(s, <<c, n>>)
      <4>1. t[n - a] = <<c, n>>
        <5>1. n - a \in 1 .. n - a /\ a + (n - a) = n
          BY <3>1, <2>2
        <5>2. t[n - a] = <<c, a + (n - a)>>
          BY <5>1
        <5> QED BY <5>1, <5>2
      <4>2. t = [i \in 1 .. n - a |-> t[i]]
        OBVIOUS
      <4>3. Len(s) + 1 = n - a
        BY <3>1, <3>3
      <4>4. <<c, n>> \in {c} \X Nat
        <5>1. n \in Nat
          BY <1>1
        <5> QED BY <5>1
      <4> HIDE DEF s, t
      <4>5. t = [i \in 1 .. Len(s) + 1 |-> t[i]] /\ t[Len(s) + 1] = <<c, n>>
        BY <4>1, <4>2, <4>3
      <4> DEFINE T == {c} \X Nat
                 row == <<c, n>>
      <4>6. s \in Seq(T) /\ row \in T /\ t[Len(s) + 1] = row
        BY <3>3, <4>4, <4>5
      <4> HIDE DEF T, row
      <4>7. t = Append(s, row)
        <5>1. IsLonger(t, s, row)
          BY <3>4, <4>5, <4>6 DEF IsLonger
        <5> QED BY <4>6, <5>1, LongerByOne
      <4> QED BY <4>7 DEF row
    <3>6. g[n] = Append(g[n - 1], <<c, n>>)
      BY <3>2, <3>5
    <3> QED BY <2>2, <3>1, <3>6
  <2> QED BY <2>1, <2>2
<1> QED BY <1>1 DEF Builds

\* appendMessages leaves the log in order, up to where the answer went.
LEMMA AppendedInOrder ==
    ASSUME NEW p, IsPage(p), LogIsInOrder(p), NEW last \in Nat, p.cursor <= last
    PROVE  \E upTo \in Nat : \E latest :
             /\ p.cursor <= upTo /\ upTo <= last
             /\ Appended(p, p.selected, p.cursor, last) =
                  [p EXCEPT !.log = [i \in 1 .. upTo |-> <<p.selected, i>>],
                            !.cursor = upTo, !.latest = latest]
<1> DEFINE a == p.cursor
           c == p.selected
           u == Least(last, a + PageSize)
           S == {n \in a + 1 .. u : <<c, n>> \notin {p.log[i] : i \in DOMAIN p.log}}
           g == [n \in a .. u |-> [i \in 1 .. n - a |-> <<c, a + i>>]]
           F == CHOOSE f : f = [n \in a .. u |-> IF n = a THEN <<>>
                  ELSE IF n \in S THEN Append(f[n - 1], <<c, n>>) ELSE f[n - 1]]
<1>1. a \in Nat /\ u \in Nat /\ a <= u /\ u <= last
  BY ConsoleAssumption DEF LogIsInOrder, Least
<1>2. \A n \in a + 1 .. u : n \in S
  <2>1. SUFFICES ASSUME NEW n \in a + 1 .. u PROVE \A i \in DOMAIN p.log : p.log[i] # <<c, n>>
    OBVIOUS
  <2>2. p.log = [i \in 1 .. a |-> <<c, i>>]
    BY DEF LogIsInOrder
  <2>3. ASSUME NEW i \in 1 .. a PROVE p.log[i] # <<c, n>>
    <3>1. i # n
      BY <1>1
    <3>2. p.log[i] = <<c, i>>
      BY <2>2
    <3> QED BY <3>1, <3>2
  <2>4. DOMAIN p.log = 1 .. a
    BY <2>2
  <2> QED BY <2>3, <2>4
<1>3. Appended(p, c, a, last) =
        [p EXCEPT !.log = p.log \o F[u], !.cursor = Most(p.cursor, u), !.latest = u - a < PageSize]
  BY DEF Appended
<1> HIDE DEF S, u
<1>4. Builds(g, a, u, S, c)
  BY <1>1, <1>2, NewRows
<1> HIDE DEF g
<1>5. Builds(F, a, u, S, c)
  BY <1>4, Zenon DEF Builds
<1> HIDE DEF F
<1>6. F = g
  BY <1>1, <1>4, <1>5, OneWayToBuild
<1>7. F[u] = [i \in 1 .. u - a |-> <<c, a + i>>]
  BY <1>1, <1>6 DEF g
<1>8. p.log \o F[u] = [i \in 1 .. u |-> <<c, i>>]
  <2> DEFINE s == p.log
             t == [i \in 1 .. u - a |-> <<c, a + i>>]
  <2>1. u - a \in Nat
    BY <1>1
  <2>2. s \in Seq({<<c, i>> : i \in Nat}) /\ Len(s) = a /\ (\A i \in 1 .. a : s[i] = <<c, i>>)
    BY <1>1 DEF LogIsInOrder
  <2>3. t \in Seq({<<c, i>> : i \in Nat}) /\ Len(t) = u - a
    BY <2>1, <1>1
  <2>4. \A i \in 1 .. u - a : t[i] = <<c, a + i>>
    OBVIOUS
  <2> HIDE DEF s, t
  <2>5. s \o t = [i \in 1 .. Len(s) + Len(t) |-> IF i <= Len(s) THEN s[i] ELSE t[i - Len(s)]]
    <3> DEFINE T == {<<c, i>> : i \in Nat}
               w == s \o t
    <3> HIDE DEF T
    <3>1. /\ w \in Seq(T) /\ Len(w) = Len(s) + Len(t)
          /\ \A i \in 1 .. Len(s) + Len(t) : w[i] = (IF i <= Len(s) THEN s[i] ELSE t[i - Len(s)])
      BY <2>2, <2>3, ConcatProperties DEF T
    <3> HIDE DEF w
    <3>2. w = [i \in 1 .. Len(s) + Len(t) |-> w[i]]
      BY <3>1, LenProperties
    <3> QED BY <3>1, <3>2 DEF w
  <2>6. 1 .. Len(s) + Len(t) = 1 .. u
    BY <1>1, <2>1, <2>2, <2>3
  <2>7. ASSUME NEW i \in 1 .. u
        PROVE  (IF i <= Len(s) THEN s[i] ELSE t[i - Len(s)]) = <<c, i>>
    <3>1. CASE i <= a
      <4>1. i \in 1 .. a
        BY <1>1, <3>1
      <4> QED BY <2>2, <3>1, <4>1
    <3>2. CASE ~(i <= a)
      <4>1. i - a \in 1 .. u - a /\ a + (i - a) = i
        BY <1>1, <3>2
      <4> QED BY <2>2, <2>4, <3>2, <4>1
    <3> QED BY <3>1, <3>2
  <2>8. s \o t = [i \in 1 .. u |-> <<c, i>>]
    BY <2>5, <2>6, <2>7
  <2> QED BY <1>7, <2>8 DEF s, t
<1>9. Most(p.cursor, u) = u
  BY <1>1 DEF Most
<1> QED BY <1>1, <1>3, <1>8, <1>9

\* So the log has as many rows of the open chat as the cursor says.
LEMMA RowsOfTheThread ==
    ASSUME NEW p, LogIsInOrder(p)
    PROVE  Cardinality({i \in DOMAIN p.log : p.log[i][1] = p.selected}) = p.cursor
<1>1. {i \in DOMAIN p.log : p.log[i][1] = p.selected} = 1 .. p.cursor
  BY DEF LogIsInOrder
<1>2. p.cursor \in Nat
  BY DEF LogIsInOrder
<1>3. Cardinality(1 .. p.cursor) = p.cursor
  BY <1>2, FS_Interval
<1> QED BY <1>1, <1>3

\* No call under way carries the number of the next request.
LEMMA NextIsFresh ==
    ASSUME IsFiniteSet(calls)
    PROVE  NextRequest # 0 /\ \A k \in calls : k.request # NextRequest
<1> DEFINE N == Cardinality(calls)
           R == {k.request : k \in calls}
           f == [k \in calls |-> k.request]
<1>1. N \in Nat
  BY FS_CardinalityType
<1>2. f \in Surjection(calls, R)
  BY DEF Surjection
<1> HIDE DEF f
<1>3. IsFiniteSet(R) /\ Cardinality(R) <= N
  BY <1>2, FS_Surjection
<1>4. \E n \in 1 .. N + 1 : n \notin R
  <2>1. SUFFICES ASSUME 1 .. N + 1 \subseteq R PROVE FALSE
    OBVIOUS
  <2> HIDE DEF R
  <2>2. IsFiniteSet(1 .. N + 1)
    BY <1>1, FS_Interval
  <2>3. Cardinality(1 .. N + 1) = N + 1
    <3>1. 1 \in Int /\ N + 1 \in Int /\ N + 1 >= 1
      BY <1>1
    <3> QED BY <3>1, <1>1, FS_Interval
  <2>4. Cardinality(1 .. N + 1) <= Cardinality(R)
    BY <1>3, <2>1, FS_Subset
  <2>5. Cardinality(R) \in Nat
    BY <1>3, FS_CardinalityType
  <2> QED BY <1>1, <1>3, <2>3, <2>4, <2>5
<1>5. \E n \in 1 .. N + 1 : \A k \in calls : k.request # n
  BY <1>4
<1>6. NextRequest \in 1 .. N + 1 /\ \A k \in calls : k.request # NextRequest
  BY <1>5 DEF NextRequest
<1> QED BY <1>1, <1>6

-----------------------------------------------------------------------------
\* What was true of a call stays so while more is seen and said.
LEMMA HonestStays ==
    ASSUME NEW k, IsCall(k), NEW seen, NEW srv, NEW seen2, NEW srv2, Honest(k, seen, srv),
           IsSeenUpTo(seen), IsSeenUpTo(seen2), \A c \in Chats : seen[c] <= seen2[c],
           \A c \in Chats : Len(srv[c].said) \in Nat /\ Len(srv2[c].said) \in Nat
                              /\ Len(srv[c].said) <= Len(srv2[c].said)
    PROVE  Honest(k, seen2, srv2)
<1>1. k.chat \in Chats
  BY DEF IsCall
<1>2. k.after \in Nat /\ k.answer.last \in Nat
  BY DEF Honest, IsAnswer
<1>3. /\ seen[k.chat] \in Nat /\ seen2[k.chat] \in Nat /\ seen[k.chat] <= seen2[k.chat]
      /\ Len(srv[k.chat].said) \in Nat /\ Len(srv2[k.chat].said) \in Nat
      /\ Len(srv[k.chat].said) <= Len(srv2[k.chat].said)
  BY <1>1 DEF IsSeenUpTo
<1>4. k.op = "read" => k.after <= seen2[k.chat] /\ k.answer.last <= seen2[k.chat]
  BY <1>2, <1>3 DEF Honest
<1>5. k.op = "thread" => k.after <= Len(srv2[k.chat].said)
  BY <1>2, <1>3 DEF Honest
<1>6. k.op = "thread" /\ k.answered /\ k.answer.found =>
        k.after <= k.answer.last /\ k.answer.last <= Len(srv2[k.chat].said)
  BY <1>2, <1>3 DEF Honest
<1> QED BY <1>4, <1>5, <1>6 DEF Honest

LEMMA UnknownIsAnswer ==
    /\ IsAnswer(Unknown) /\ Unknown.found = FALSE
    /\ \A n \in Nat : IsAnswer([Unknown EXCEPT !.last = n]) /\ [Unknown EXCEPT !.last = n].last = n
BY DEF Unknown, IsAnswer

LEMMA MarkReadIsRight ==
    ASSUME NEW p, NEW seen, NEW srv, Right(p, seen, srv), IsSeenUpTo(seen)
    PROVE  /\ Right(MarkRead(p).page, seen, srv) /\ SamePlace(MarkRead(p).page, p)
           /\ Marks(MarkRead(p).calls, seen, srv)
<1>1. CASE Readable(p)
  <2> DEFINE q == [p EXCEPT !.marked[p.selected] = p.cursor]
             k == [Call("read", p.selected, 0, p.cursor, "free")
                     EXCEPT !.answer.last = p.marked[p.selected]]
  <2>1. MarkRead(p).page = q /\ MarkRead(p).calls = {k}
    BY <1>1 DEF MarkRead
  <2>2. p.selected \in Chats /\ p.atLatest
    BY <1>1 DEF Readable
  <2>3. /\ p.cursor \in Nat /\ p.cursor <= seen[p.selected]
        /\ p.marked[p.selected] \in Nat /\ p.marked[p.selected] <= seen[p.selected]
    BY <2>2 DEF Right, Watched, LogIsInOrder
  <2>4. IsPage(q) /\ SamePlace(q, p) /\ q.log = p.log /\ q.atLatest = p.atLatest
    BY DEF Right, IsPage, SamePlace
  <2>5. q.marked = [p.marked EXCEPT ![p.selected] = p.cursor] /\ q.marked \in [Chats -> Nat]
    BY <2>3 DEF Right, IsPage, LogIsInOrder
  <2>6. \A c \in Chats : q.marked[c] <= seen[c]
    BY <2>3, <2>5 DEF Right, Watched, LogIsInOrder
  <2>7. /\ k.op = "read" /\ k.chat = p.selected /\ k.after = p.cursor
        /\ k.answer = [Unknown EXCEPT !.last = p.marked[p.selected]]
    BY DEF Call
  <2> HIDE DEF q, k
  <2>8. LogIsInOrder(q) /\ Watched(q, seen, srv)
    BY <2>4, <2>5, <2>6 DEF Right, LogIsInOrder, Watched, SamePlace
  <2>9. Honest(k, seen, srv)
    <3>1. IsAnswer(k.answer) /\ k.answer.last = p.marked[p.selected]
      BY <2>3, <2>7, UnknownIsAnswer
    <3> QED BY <2>3, <2>7, <3>1 DEF Honest
  <2>10. IsFiniteSet({k})
    BY FS_Singleton
  <2> QED BY <2>1, <2>4, <2>7, <2>8, <2>9, <2>10 DEF Right, Marks
<1>2. CASE ~Readable(p)
  <2>1. IsFiniteSet({})
    BY FS_EmptySet
  <2> QED BY <1>2, <2>1 DEF MarkRead, Marks, SamePlace
<1> QED BY <1>1, <1>2

LEMMA ReleasedIsRight ==
    ASSUME NEW p, NEW seen, NEW srv, Right(p, seen, srv), IsSeenUpTo(seen), NEW caller
    PROVE  /\ Right(Released(p, caller).page, seen, srv) /\ SamePlace(Released(p, caller).page, p)
           /\ Marks(Released(p, caller).calls, seen, srv)
<1> DEFINE q == [p EXCEPT !.busy = FALSE]
<1>1. Right(q, seen, srv) /\ SamePlace(q, p)
  BY DEF Right, IsPage, LogIsInOrder, Watched, SamePlace
<1> HIDE DEF q
<1>2. CASE caller = "busy"
  BY <1>1, <1>2, MarkReadIsRight DEF Released, q, SamePlace
<1>3. CASE caller # "busy"
  <2>1. IsFiniteSet({})
    BY FS_EmptySet
  <2> QED BY <1>3, <2>1 DEF Released, Marks, SamePlace
<1> QED BY <1>2, <1>3

\* Another chat begins with an empty log.
LEMMA OpenedIsRight ==
    ASSUME NEW p, NEW seen, NEW srv, Right(p, seen, srv), IsSeenUpTo(seen),
           \A c \in Chats : Len(srv[c].said) \in Nat,
           NEW c \in Chats \cup {Nobody}
    PROVE  /\ Right(Opened(p, c), seen, srv) /\ Opened(p, c).request = 0
           /\ Opened(p, c).selected = c
<1> DEFINE q == SavedDraft(p)
           r == [q EXCEPT !.selected = c, !.request = 0, !.cursor = 0, !.log = <<>>,
                          !.latest = FALSE, !.owned = FALSE, !.waiting = FALSE, !.open = FALSE]
<1>1. IsPage(q) /\ q.marked = p.marked /\ q.atLatest = p.atLatest
  <2>1. CASE p.selected = Nobody
    BY <2>1 DEF SavedDraft, Right
  <2>2. CASE p.selected # Nobody
    BY <2>2 DEF SavedDraft, Right, IsPage
  <2> QED BY <2>1, <2>2
<1>2. Opened(p, c) = r
  BY DEF Opened
<1> HIDE DEF q
<1>3. /\ IsPage(r) /\ r.selected = c /\ r.request = 0 /\ r.cursor = 0 /\ r.log = <<>>
      /\ r.marked = p.marked /\ r.atLatest = p.atLatest
  BY <1>1 DEF IsPage
<1> HIDE DEF r
<1>4. r.log = [i \in 1 .. r.cursor |-> <<r.selected, i>>]
  BY <1>3
<1>5. LogIsInOrder(r)
  BY <1>3, <1>4 DEF LogIsInOrder, Right
<1>6. Watched(r, seen, srv)
  <2>1. c \in Chats => seen[c] \in Nat /\ Len(srv[c].said) \in Nat
    BY DEF IsSeenUpTo
  <2> QED BY <1>3, <2>1 DEF Watched, Right
<1> QED BY <1>2, <1>3, <1>5, <1>6 DEF Right

\* A thread is asked for from the cursor, under a number no call has.
LEMMA RefreshIsRight ==
    ASSUME NEW p, NEW seen, NEW srv, Right(p, seen, srv), IsFiniteSet(calls), NEW caller
    PROVE  \/ RefreshThread(p, caller) = [page |-> p, calls |-> {}]
           \/ /\ Right(RefreshThread(p, caller).page, seen, srv)
              /\ \E k : /\ RefreshThread(p, caller).calls = {k}
                        /\ k.op = "thread" /\ Honest(k, seen, srv)
                        /\ k.request = RefreshThread(p, caller).page.request
                        /\ k.after = RefreshThread(p, caller).page.cursor
                        /\ \A j \in calls : j.request # k.request
<1>1. CASE p.selected = Nobody
  BY <1>1 DEF RefreshThread
<1>2. CASE p.selected # Nobody
  <2> DEFINE n == NextRequest
             q == [p EXCEPT !.request = n, !.refreshing = TRUE]
             k == Call("thread", p.selected, n, p.cursor, caller)
  <2>1. RefreshThread(p, caller).page = q /\ RefreshThread(p, caller).calls = {k}
    BY <1>2 DEF RefreshThread
  <2>2. n # 0 /\ \A j \in calls : j.request # n
    BY NextIsFresh
  <2>3. /\ k.op = "thread" /\ k.chat = p.selected /\ k.request = n /\ k.after = p.cursor
        /\ k.answered = FALSE /\ k.answer = Unknown
    BY DEF Call
  <2> HIDE DEF n
  <2>4. /\ IsPage(q) /\ q.request = n /\ q.cursor = p.cursor /\ q.selected = p.selected
        /\ q.log = p.log /\ q.marked = p.marked /\ q.atLatest = p.atLatest
    BY DEF Right, IsPage
  <2> HIDE DEF q, k
  <2>5. LogIsInOrder(q) /\ Watched(q, seen, srv)
    BY <2>4 DEF Right, LogIsInOrder, Watched
  <2>6. p.selected \in Chats
    BY <1>2 DEF Right, IsPage
  <2>7. Honest(k, seen, srv)
    <3>1. p.cursor \in Nat /\ p.cursor <= Len(srv[p.selected].said)
      BY <2>6 DEF Right, LogIsInOrder, Watched
    <3>2. k.request # 0 /\ k.after \in Nat /\ k.after <= Len(srv[k.chat].said)
      BY <2>2, <2>3, <3>1
    <3>3. IsAnswer(k.answer)
      BY <2>3, UnknownIsAnswer
    <3>4. k.op # "read"
      BY <2>3
    <3>5. k.answered /\ k.answer.found => FALSE
      BY <2>3, Zenon
    <3> QED BY <3>2, <3>3, <3>4, <3>5 DEF Honest
  <2> QED BY <2>1, <2>2, <2>3, <2>4, <2>5, <2>7 DEF Right
<1> QED BY <1>1, <1>2

-----------------------------------------------------------------------------
(* The steps.                                                              *)

\* The calls that are left stay honest.
LEMMA RestIsHonest ==
    ASSUME ConsoleTypes, ReadInv, NEW seen, NEW srv, IsSeenUpTo(seen),
           \A c \in Chats : shown[c] <= seen[c],
           \A c \in Chats : Len(srv[c].said) \in Nat /\ Len(server[c].said) <= Len(srv[c].said)
    PROVE  \A k \in calls : Honest(k, seen, srv)
<1>1. \A c \in Chats : Len(server[c].said) \in Nat
  BY DEF ConsoleTypes, IsRow
<1>2. IsSeenUpTo(shown)
  BY DEF ReadInv, IsSeenUpTo
<1>3. SUFFICES ASSUME NEW k \in calls PROVE Honest(k, seen, srv)
  OBVIOUS
<1>4. IsCall(k) /\ Honest(k, shown, server)
  BY DEF ConsoleTypes, ReadInv
<1> QED BY <1>1, <1>2, <1>4, HonestStays

\* The page stays at its place or leaves it, and asks for no thread.
LEMMA QuietReads ==
    ASSUME ConsoleTypes, ReadInv, IsSeenUpTo(shown'), server' = server,
           \A c \in Chats : shown[c] <= shown'[c],
           Right(page', shown', server), SamePlace(page', page) \/ page'.request = 0,
           NEW new, Marks(new, shown', server), calls' \subseteq calls \cup new
    PROVE  ReadInv'
<1>1. \A c \in Chats : Len(server[c].said) \in Nat
  BY DEF ConsoleTypes, IsRow
<1>2. \A k \in calls : Honest(k, shown', server)
  BY <1>1, RestIsHonest
<1>3. \A k \in calls' : Honest(k, shown', server) /\ (k.op = "thread" => k \in calls)
  BY <1>2 DEF Marks
<1>4. IsFiniteSet(calls')
  <2>1. IsFiniteSet(calls \cup new)
    BY FS_Union DEF ReadInv, Marks
  <2> QED BY <2>1, FS_Subset
<1>5. Tied(page', calls')
  <2>1. ASSUME NEW k \in calls', k.op = "thread", k.chat = page'.selected,
               k.request = page'.request
        PROVE  k.after = page'.cursor
    <3>1. k \in calls /\ k.request # 0
      BY <1>3, <2>1 DEF Honest
    <3> QED BY <2>1, <3>1 DEF ReadInv, Tied, SamePlace
  <2> QED BY <2>1 DEF Tied
<1>6. OneThread(calls')
  BY <1>3 DEF OneThread, ReadInv
<1>7. ASSUME NEW c \in Chats PROVE server[c].read \in Nat /\ server[c].read <= shown'[c]
  BY DEF ReadInv, IsSeenUpTo
<1> QED BY <1>3, <1>4, <1>5, <1>6, <1>7 DEF ReadInv, Right, IsSeenUpTo

\* A page at its place, or away from it, asks for a thread.
LEMMA RefreshReads ==
    ASSUME ConsoleTypes, ReadInv, shown' = shown, server' = server,
           NEW p, Right(p, shown, server), SamePlace(p, page) \/ p.request = 0,
           NEW caller, page' = RefreshThread(p, caller).page,
           calls' \subseteq calls \cup RefreshThread(p, caller).calls
    PROVE  ReadInv'
<1>1. IsFiniteSet(calls)
  BY DEF ReadInv
<1>2. IsSeenUpTo(shown') /\ \A c \in Chats : shown[c] <= shown'[c]
  BY DEF ReadInv, IsSeenUpTo
<1>3. CASE RefreshThread(p, caller) = [page |-> p, calls |-> {}]
  <2>1. Marks({}, shown', server)
    BY FS_EmptySet DEF Marks
  <2> QED BY <1>2, <1>3, <2>1, QuietReads
<1>4. CASE RefreshThread(p, caller) # [page |-> p, calls |-> {}]
  <2>1. PICK k : /\ Right(page', shown, server)
                 /\ RefreshThread(p, caller).calls = {k}
                 /\ k.op = "thread" /\ Honest(k, shown, server)
                 /\ k.request = page'.request /\ k.after = page'.cursor
                 /\ \A j \in calls : j.request # k.request
    BY <1>1, <1>4, RefreshIsRight
  <2>2. calls' \subseteq calls \cup {k}
    BY <2>1
  <2>3. IsFiniteSet(calls')
    <3>1. IsFiniteSet(calls \cup {k})
      BY <1>1, FS_Singleton, FS_Union
    <3> QED BY <2>2, <3>1, FS_Subset
  <2>4. \A j \in calls' : Honest(j, shown, server)
    BY <2>1, <2>2 DEF ReadInv
  <2>5. Tied(page', calls')
    BY <2>1, <2>2 DEF Tied
  <2>6. OneThread(calls')
    BY <2>1, <2>2 DEF OneThread, ReadInv
  <2> QED BY <2>1, <2>3, <2>4, <2>5, <2>6 DEF ReadInv, Right
<1> QED BY <1>3, <1>4

\* The end of a call.
LEMMA EndCallReads ==
    ASSUME ConsoleTypes, ReadInv, shown' = shown, server' = server, NEW call, NEW step,
           Right(step.page, shown, server),
           SamePlace(step.page, page) \/ step.page.request = 0,
           Marks(step.calls, shown, server), EndCall(call, step)
    PROVE  ReadInv'
<1> DEFINE end == Released(step.page, call.caller)
<1>1. IsSeenUpTo(shown) /\ \A c \in Chats : shown[c] <= shown'[c]
  BY DEF ReadInv, IsSeenUpTo
<1>2. /\ Right(end.page, shown, server) /\ SamePlace(end.page, step.page)
      /\ Marks(end.calls, shown, server)
  BY <1>1, ReleasedIsRight
<1>3. page' = end.page /\ calls' = Drop(call) \cup step.calls \cup end.calls
  BY DEF EndCall
<1> HIDE DEF end
<1>4. Marks(step.calls \cup end.calls, shown, server)
  <2>1. IsFiniteSet(step.calls \cup end.calls)
    BY <1>2, FS_Union DEF Marks
  <2> QED BY <1>2, <2>1 DEF Marks
<1>5. calls' \subseteq calls \cup (step.calls \cup end.calls)
  BY <1>3 DEF Drop
<1>6. SamePlace(page', page) \/ page'.request = 0
  BY <1>2, <1>3 DEF SamePlace
<1> QED BY <1>1, <1>2, <1>3, <1>4, <1>5, <1>6, QuietReads

\* A button's own call is over and the thread is read again.
LEMMA RereadReads ==
    ASSUME ConsoleTypes, ReadInv, shown' = shown, server' = server, NEW call,
           NEW p, Right(p, shown, server), SamePlace(p, page), Reread(call, p)
    PROVE  ReadInv'
<1> DEFINE step == RefreshThread(p, "busy")
<1>1. IsFiniteSet(calls)
  BY DEF ReadInv
<1>2. CASE step.calls = {}
  <2>1. EndCall(call, step)
    BY <1>2 DEF Reread
  <2>2. step = [page |-> p, calls |-> {}]
    BY <1>2 DEF RefreshThread
  <2>3. Marks({}, shown, server)
    BY FS_EmptySet DEF Marks
  <2> HIDE DEF step
  <2> QED BY <2>1, <2>2, <2>3, EndCallReads
<1>3. CASE step.calls # {}
  <2>1. page' = step.page /\ calls' = Drop(call) \cup step.calls
    BY <1>3 DEF Reread
  <2>2. calls' \subseteq calls \cup step.calls
    BY <2>1 DEF Drop
  <2> QED BY <2>1, <2>2, RefreshReads
<1> QED BY <1>2, <1>3

\* The administrator opens a chat, types, presses, scrolls, or the page polls.
LEMMA ChooseReads ==
    ASSUME ConsoleIInv, ReadInv, NEW c \in Chats, Choose(c)
    PROVE  ReadInv'
<1> DEFINE opened == Opened(page, c)
           p == [opened EXCEPT !.atLatest = TRUE]
           q == [p EXCEPT !.input = p.drafts[c]]
           step == RefreshThread(q, "free")
<1>1. Right(page, shown, server) /\ IsSeenUpTo(shown) /\ ConsoleTypes
  BY DEF ConsoleIInv, ConsoleTypes, ReadInv, Right, IsSeenUpTo
<1>2. \A b \in Chats : Len(server[b].said) \in Nat
  BY <1>1 DEF ConsoleTypes, IsRow
<1>3. Right(opened, shown, server) /\ opened.request = 0 /\ opened.selected = c
  BY <1>1, <1>2, OpenedIsRight
<1>4. opened.cursor = 0
  BY DEF Opened, SavedDraft
<1>5. page' = step.page /\ calls' = calls \cup step.calls /\ server' = server /\ shown' = shown
  BY DEF Choose, Do
<1> HIDE DEF opened
<1>6. /\ IsPage(p) /\ p.selected = c /\ p.request = 0 /\ p.cursor = 0 /\ p.log = opened.log
      /\ p.marked = opened.marked /\ p.atLatest = TRUE
  BY <1>3, <1>4 DEF Right, IsPage
<1> HIDE DEF p
<1>7. p.drafts[c] \in Nat
  BY <1>6 DEF IsPage
<1>8. /\ IsPage(q) /\ q.selected = c /\ q.request = 0 /\ q.cursor = 0 /\ q.log = opened.log
      /\ q.marked = opened.marked /\ q.atLatest = TRUE
  BY <1>6, <1>7 DEF IsPage
<1> HIDE DEF q
<1>9. LogIsInOrder(q)
  BY <1>3, <1>4, <1>8 DEF Right, LogIsInOrder
<1>10. Watched(q, shown, server)
  <2>1. shown[c] \in Nat /\ Len(server[c].said) \in Nat
    BY <1>1, <1>2 DEF IsSeenUpTo
  <2> QED BY <1>3, <1>8, <2>1 DEF Right, Watched
<1>11. Right(q, shown, server)
  BY <1>8, <1>9, <1>10 DEF Right
<1> HIDE DEF step
<1> QED BY <1>1, <1>5, <1>8, <1>11, RefreshReads DEF step

LEMMA TypeReads ==
    ASSUME ConsoleIInv, ReadInv, ConsoleIInv', Type
    PROVE  ReadInv'
<1>1. /\ page'.selected = page.selected /\ page'.request = page.request
      /\ page'.cursor = page.cursor /\ page'.log = page.log /\ page'.marked = page.marked
      /\ page'.atLatest = page.atLatest
  <2>1. IsPage(page)
    BY DEF ConsoleIInv, ConsoleTypes
  <2> DEFINE q == [page EXCEPT !.input = Len(typed) + 1]
  <2>2. /\ IsPage(q)
        /\ q.selected = page.selected /\ q.request = page.request
        /\ q.cursor = page.cursor /\ q.log = page.log /\ q.marked = page.marked
        /\ q.atLatest = page.atLatest /\ q.drafts = page.drafts
    <3>1. Len(typed) + 1 \in Nat
      BY DEF ConsoleIInv, ConsoleTypes
    <3> QED BY <2>1, <3>1 DEF IsPage
  <2>3. page' = q \/ page' = [q EXCEPT !.drafts = [q.drafts EXCEPT ![q.selected] = q.input]]
    BY DEF Type, SavedDraft
  <2> HIDE DEF q
  <2> QED BY <2>2, <2>3 DEF IsPage
<1>2. server' = server /\ calls' = calls /\ shown' = shown
  BY DEF Type
<1>3. Right(page', shown', server) /\ SamePlace(page', page)
  BY <1>1, <1>2 DEF ConsoleIInv, ConsoleTypes, ReadInv, Right, LogIsInOrder, Watched, SamePlace
<1>4. IsSeenUpTo(shown') /\ \A c \in Chats : shown[c] <= shown'[c]
  BY <1>2 DEF ReadInv, IsSeenUpTo
<1>5. Marks({}, shown', server)
  BY FS_EmptySet DEF Marks
<1> QED BY <1>2, <1>3, <1>4, <1>5, QuietReads DEF ConsoleIInv

\* A button of the page: another call and the same thread.
LEMMA PressReads ==
    ASSUME ConsoleIInv, ReadInv, ConsoleIInv',
           Send \/ \E op \in {"claim", "close", "resolve"} : PressButton(op)
    PROVE  ReadInv'
<1>1. server' = server /\ shown' = shown
  BY DEF Send, PressButton
<1>2. /\ page'.selected = page.selected /\ page'.request = page.request
      /\ page'.cursor = page.cursor /\ page'.log = page.log /\ page'.marked = page.marked
      /\ page'.atLatest = page.atLatest
  BY DEF ConsoleIInv, ConsoleTypes, IsPage, Send, PressButton
<1>3. PICK k : calls' = calls \cup {k} /\ k.op # "thread" /\ Honest(k, shown, server)
  <2> DEFINE m == Attempt(page.selected)
             k == [Call("send", page.selected, 0, 0, "busy") EXCEPT !.message = m]
  <2>1. CASE Send
    <3>1. calls' = calls \cup {k}
      BY <2>1 DEF Send
    <3> HIDE DEF m
    <3>2. /\ k.op = "send" /\ k.after = 0 /\ k.answer = Unknown
      BY DEF Call
    <3> HIDE DEF k
    <3>3. Honest(k, shown, server)
      <4>1. IsAnswer(k.answer)
        BY <3>2, UnknownIsAnswer
      <4>2. k.op # "read" /\ k.op # "thread" /\ k.after \in Nat
        BY <3>2
      <4> QED BY <4>1, <4>2 DEF Honest
    <3> QED BY <3>1, <3>2, <3>3
  <2>2. ASSUME NEW op \in {"claim", "close", "resolve"}, PressButton(op)
        PROVE  \E j : calls' = calls \cup {j} /\ j.op # "thread" /\ Honest(j, shown, server)
    <3> DEFINE j == Call(op, page.selected, 0, 0, "busy")
    <3>1. calls' = calls \cup {j}
      BY <2>2 DEF PressButton
    <3>2. /\ j.op = op /\ j.after = 0 /\ j.answer = Unknown
      BY DEF Call
    <3> HIDE DEF j
    <3>3. Honest(j, shown, server)
      <4>1. IsAnswer(j.answer)
        BY <3>2, UnknownIsAnswer
      <4>2. j.op # "read" /\ j.op # "thread" /\ j.after \in Nat
        BY <2>2, <3>2
      <4> QED BY <4>1, <4>2 DEF Honest
    <3> QED BY <2>2, <3>1, <3>2, <3>3
  <2> QED BY <2>1, <2>2
<1>4. Right(page', shown', server) /\ SamePlace(page', page)
  BY <1>1, <1>2 DEF ConsoleIInv, ConsoleTypes, ReadInv, Right, LogIsInOrder, Watched, SamePlace
<1>5. IsSeenUpTo(shown') /\ \A c \in Chats : shown[c] <= shown'[c]
  BY <1>1 DEF ReadInv, IsSeenUpTo
<1>6. Marks({k}, shown', server)
  BY <1>1, <1>3, FS_Singleton DEF Marks
<1> QED BY <1>1, <1>3, <1>4, <1>5, <1>6, QuietReads DEF ConsoleIInv

\* What the log holds of the open chat is then seen.
LEMMA WatchedIsSeen ==
    ASSUME IsSeenUpTo(shown), NEW p, LogIsInOrder(p), Watch(p)
    PROVE  /\ IsSeenUpTo(shown') /\ \A c \in Chats : shown[c] <= shown'[c]
           /\ p.atLatest /\ p.selected \in Chats => p.cursor <= shown'[p.selected]
<1> DEFINE rows(c) == {i \in DOMAIN p.log : p.log[i][1] = c}
<1>1. CASE ~p.atLatest
  BY <1>1 DEF Watch, IsSeenUpTo
<1>2. CASE p.atLatest
  <2>1. shown' = [c \in Chats |-> Most(shown[c], Cardinality(rows(c)))]
    BY <1>2 DEF Watch
  <2>2. ASSUME NEW c \in Chats
        PROVE  /\ Cardinality(rows(c)) \in Nat
               /\ shown'[c] = Most(shown[c], Cardinality(rows(c)))
    <3>1. IsFiniteSet(DOMAIN p.log)
      <4>1. DOMAIN p.log = 1 .. p.cursor /\ p.cursor \in Nat
        BY DEF LogIsInOrder
      <4> QED BY <4>1, FS_Interval
    <3>2. rows(c) \subseteq DOMAIN p.log
      OBVIOUS
    <3> HIDE DEF rows
    <3>3. Cardinality(rows(c)) \in Nat
      BY <3>1, <3>2, FS_Subset, FS_CardinalityType
    <3> QED BY <2>1, <3>3
  <2> HIDE DEF rows
  <2>3. \A c \in Chats : /\ shown[c] \in Nat /\ shown'[c] \in Nat /\ shown[c] <= shown'[c]
                         /\ Cardinality(rows(c)) <= shown'[c]
    BY <2>2 DEF Most, IsSeenUpTo
  <2>4. p.selected \in Chats => p.cursor <= shown'[p.selected]
    <3>1. Cardinality(rows(p.selected)) = p.cursor
      BY RowsOfTheThread DEF rows
    <3> QED BY <2>3, <3>1
  <2> QED BY <2>1, <2>3, <2>4 DEF IsSeenUpTo
<1> QED BY <1>1, <1>2

LEMMA ScrollReads ==
    ASSUME ConsoleIInv, ReadInv, Scroll
    PROVE  ReadInv'
<1> DEFINE p == [page EXCEPT !.atLatest = ~@]
           step == IF p.atLatest THEN MarkRead(p) ELSE [page |-> p, calls |-> {}]
<1>1. page' = step.page /\ calls' = calls \cup step.calls /\ server' = server /\ Watch(p)
  BY DEF Scroll, Do
<1>2. IsPage(p) /\ SamePlace(p, page) /\ p.log = page.log /\ p.marked = page.marked
  BY DEF ConsoleIInv, ConsoleTypes, IsPage, SamePlace
<1>3. p.atLatest \in BOOLEAN
  BY DEF ConsoleIInv, ConsoleTypes, IsPage, ReadInv, LogIsInOrder
<1> HIDE DEF p
<1>4. LogIsInOrder(p)
  BY <1>2, <1>3 DEF ReadInv, LogIsInOrder, SamePlace
<1>5. IsSeenUpTo(shown)
  BY DEF ReadInv, IsSeenUpTo
<1>6. /\ IsSeenUpTo(shown') /\ \A c \in Chats : shown[c] <= shown'[c]
      /\ p.atLatest /\ p.selected \in Chats => p.cursor <= shown'[p.selected]
  BY <1>1, <1>4, <1>5, WatchedIsSeen
<1>7. Watched(p, shown', server)
  <2>1. \A c \in Chats : /\ p.marked[c] \in Nat /\ p.marked[c] <= shown[c]
                         /\ shown[c] \in Nat /\ shown'[c] \in Nat
    BY <1>2, <1>5, <1>6 DEF ReadInv, LogIsInOrder, Watched, IsSeenUpTo
  <2>2. \A c \in Chats : p.marked[c] <= shown'[c]
    BY <1>6, <2>1
  <2> QED BY <1>2, <1>6, <2>2 DEF ReadInv, Watched, SamePlace
<1>8. Right(p, shown', server)
  BY <1>2, <1>4, <1>7 DEF Right
<1>9. Right(step.page, shown', server) /\ SamePlace(step.page, p) /\ Marks(step.calls, shown', server)
  <2>1. CASE p.atLatest
    BY <1>6, <1>8, <2>1, MarkReadIsRight
  <2>2. CASE ~p.atLatest
    BY <1>8, <2>2, FS_EmptySet DEF Marks, SamePlace
  <2> QED BY <2>1, <2>2
<1> HIDE DEF step
<1>10. SamePlace(page', page)
  BY <1>1, <1>2, <1>9 DEF SamePlace
<1> QED BY <1>1, <1>6, <1>9, <1>10, QuietReads DEF ConsoleIInv

LEMMA PollReads ==
    ASSUME ConsoleIInv, ReadInv, Poll
    PROVE  ReadInv'
<1>1. /\ page' = RefreshThread(page, "poll").page
      /\ calls' = calls \cup RefreshThread(page, "poll").calls
      /\ server' = server /\ shown' = shown
  BY DEF Poll, Do
<1>2. Right(page, shown, server) /\ SamePlace(page, page) /\ ConsoleTypes
  BY DEF ConsoleIInv, ConsoleTypes, ReadInv, Right, SamePlace
<1> QED BY <1>1, <1>2, RefreshReads

\* The read mark that a call leaves.
LEMMA AfterMarks ==
    ASSUME ConsoleIInv, ReadInv, NEW call \in calls
    PROVE  After(call).read \in Nat /\ After(call).read <= shown[call.chat]
<1> DEFINE c == call.chat
           row == server[c]
<1>1. IsCall(call) /\ Honest(call, shown, server)
  BY DEF ConsoleIInv, ConsoleTypes, ReadInv
<1>2. /\ c \in Chats
      /\ call.op \in {"thread", "requests", "read", "send", "claim", "close", "resolve"}
  BY <1>1 DEF IsCall
<1>3. IsRow(row) /\ row.read \in Nat /\ row.read <= shown[c] /\ shown[c] \in Nat
  BY <1>2 DEF ConsoleIInv, ConsoleTypes, ReadInv
<1>4. CASE call.op = "read"
  <2> DEFINE mark == Most(row.read, Least(call.after, Len(row.said)))
  <2>1. After(call).read = mark
    BY <1>3, <1>4 DEF After, IsRow
  <2>2. call.after \in Nat /\ call.after <= shown[c] /\ Len(row.said) \in Nat
    BY <1>1, <1>3, <1>4 DEF Honest, IsRow
  <2>3. mark \in Nat /\ mark <= shown[c]
    <3>1. Least(call.after, Len(row.said)) \in Nat /\ Least(call.after, Len(row.said)) <= call.after
      BY <2>2 DEF Least
    <3> QED BY <1>3, <2>2, <3>1 DEF Most
  <2> QED BY <2>1, <2>3
<1>5. CASE call.op # "read"
  <2>1. After(call).read = row.read
    <3>1. \A m : Say(row, m).read = row.read
      BY <1>3 DEF Say, IsRow
    <3>2. CASE call.op \in {"thread", "requests"}
      BY <3>2 DEF After
    <3>3. CASE call.op = "send"
      BY <3>1, <3>3 DEF After, Replied
    <3>4. CASE call.op = "claim"
      BY <1>3, <3>4 DEF After, Say, IsRow
    <3>5. CASE call.op = "close"
      BY <1>3, <3>5 DEF After, Say, IsRow
    <3>6. CASE call.op = "resolve"
      BY <1>3, <3>6 DEF After, Say, IsRow
    <3> QED BY <1>2, <1>5, <3>2, <3>3, <3>4, <3>5, <3>6
  <2> QED BY <1>3, <2>1
<1> QED BY <1>4, <1>5

\* The transcripts grow, nobody has read more than was seen, the page waits.
LEMMA GrowingReads ==
    ASSUME ConsoleIInv, ReadInv, ConsoleIInv', page' = page, shown' = shown,
           \A c \in Chats : /\ Len(server[c].said) <= Len(server'[c].said)
                            /\ server'[c].read \in Nat /\ server'[c].read <= shown[c],
           IsFiniteSet(calls'),
           \A k \in calls' : Honest(k, shown, server') \/ k \in calls,
           Tied(page, calls'), OneThread(calls')
    PROVE  ReadInv'
<1>1. \A c \in Chats : Len(server[c].said) \in Nat /\ Len(server'[c].said) \in Nat
  BY DEF ConsoleIInv, ConsoleTypes, IsRow
<1>2. \A k \in calls : Honest(k, shown, server')
  <2>1. IsSeenUpTo(shown) /\ \A c \in Chats : shown[c] <= shown[c]
    BY DEF ReadInv, IsSeenUpTo
  <2> QED BY <1>1, <2>1, RestIsHonest DEF ConsoleIInv
<1>3. Watched(page, shown, server')
  <2>1. LogIsInOrder(page) /\ Watched(page, shown, server)
    BY DEF ReadInv
  <2>2. page.selected \in Chats => page.cursor <= Len(server'[page.selected].said)
    BY <1>1, <2>1 DEF LogIsInOrder, Watched
  <2> QED BY <2>1, <2>2 DEF Watched
<1> QED BY <1>2, <1>3 DEF ReadInv

LEMMA ServeReads ==
    ASSUME ConsoleIInv, ReadInv, ConsoleIInv', NEW call \in calls, Serve(call)
    PROVE  ReadInv'
<1> DEFINE c == call.chat
           done == Allowed(call)
           new == IF done THEN After(call) ELSE server[c]
           answer == Answer(call, done)
           told == [call EXCEPT !.answered = TRUE, !.answer = answer]
<1>1. /\ server' = [server EXCEPT ![c] = new]
      /\ calls' = (calls \ {call}) \cup {told}
      /\ page' = page /\ shown' = shown
  BY DEF Serve
<1>2. IsCall(call) /\ Honest(call, shown, server) /\ c \in Chats
  BY DEF ConsoleIInv, ConsoleTypes, ReadInv, IsCall
<1>3. /\ told.op = call.op /\ told.chat = call.chat /\ told.request = call.request
      /\ told.after = call.after /\ told.answered = TRUE /\ told.answer = answer
  BY <1>2 DEF IsCall
<1>4. /\ Len(server[c].said) \in Nat /\ Len(server[c].said) <= Len(new.said)
      /\ Len(new.said) \in Nat /\ new.read \in Nat /\ new.read <= shown[c]
  <2>1. server[c].said \in Seq(Message) /\ server[c].read \in Nat /\ server[c].read <= shown[c]
    BY <1>2 DEF ConsoleIInv, ConsoleTypes, IsRow, ReadInv
  <2>2. CASE done
    <3>1. \/ After(call).said = server[c].said
          \/ After(call).said = Append(server[c].said, FromOthers)
          \/ After(call).said = Append(server[c].said, call.message)
      BY AfterAdds
    <3>2. call.message \in Message /\ FromOthers \in Message
      BY <1>2, FromOthersIsMessage DEF IsCall
    <3>3. Len(After(call).said) \in Nat /\ Len(server[c].said) <= Len(After(call).said)
      <4>1. \A m \in Message : Len(Append(server[c].said, m)) = Len(server[c].said) + 1
        BY <2>1
      <4>2. Len(server[c].said) \in Nat
        BY <2>1
      <4> QED BY <3>1, <3>2, <4>1, <4>2
    <3> QED BY <2>1, <2>2, <3>3, AfterMarks
  <2>3. CASE ~done
    BY <2>1, <2>3
  <2> QED BY <2>2, <2>3
<1>5. \A b \in Chats : /\ b = c => server'[b] = new
                       /\ b # c => server'[b] = server[b]
  BY <1>1 DEF ConsoleIInv, ConsoleTypes
<1> HIDE DEF new, done
<1>6. IsAnswer(call.answer) /\ done \in BOOLEAN
  <2>1. IsAnswer(call.answer)
    BY <1>2 DEF Honest
  <2>2. Allowed(call) \in BOOLEAN
    <3>1. call.op \in {"thread", "requests", "read", "send", "claim", "close", "resolve"}
      BY <1>2 DEF IsCall
    <3>2. CASE call.op \in {"thread", "requests", "read"}
      BY <3>2 DEF Allowed
    <3>3. CASE call.op \in {"send", "claim"}
      BY <3>3 DEF Allowed, Mine
    <3>4. CASE call.op \in {"close", "resolve"}
      BY <3>4 DEF Allowed, Mine
    <3> QED BY <3>1, <3>2, <3>3, <3>4
  <2> QED BY <2>1, <2>2 DEF done
<1>7. /\ IsAnswer(answer)
      /\ call.op = "read" => answer.last = call.answer.last
      /\ call.op = "thread" /\ answer.found => answer.last = Len(server[c].said)
  <2>1. CASE done /\ call.op = "thread"
    <3> DEFINE mine == Mine(c)
               waiting == server[c].status = "waiting"
               last == Len(server[c].said)
    <3>1. answer = [Unknown EXCEPT !.found = TRUE, !.last = last, !.mine = mine, !.waiting = waiting]
      BY <2>1 DEF Answer
    <3>2. last \in Nat
      BY <1>4
    <3> HIDE DEF mine, waiting, last
    <3>3. IsAnswer(answer) /\ answer.last = last
      BY <3>1, <3>2 DEF IsAnswer, Unknown
    <3> QED BY <2>1, <3>3 DEF last
  <2>2. CASE done /\ call.op = "requests"
    <3> DEFINE open == server[c].open
    <3>1. answer = [Unknown EXCEPT !.found = TRUE, !.open = open]
      BY <2>2 DEF Answer
    <3> HIDE DEF open
    <3>2. answer = [found |-> TRUE, last |-> 0, mine |-> FALSE, waiting |-> FALSE, open |-> open]
      BY <3>1 DEF Unknown
    <3>3. IsAnswer(answer)
      BY <3>2 DEF IsAnswer
    <3> QED BY <2>2, <3>3
  <2>3. CASE ~(done /\ call.op \in {"thread", "requests"})
    <3>1. answer = [call.answer EXCEPT !.found = done]
      BY <2>3 DEF Answer
    <3>2. IsAnswer(answer) /\ answer.found = done /\ answer.last = call.answer.last
      BY <1>6, <3>1 DEF IsAnswer
    <3> QED BY <2>3, <3>2
  <2> QED BY <2>1, <2>2, <2>3
<1>8. call.op = "thread" /\ answer.found => answer.last = Len(server[c].said)
  BY <1>7
<1>9. Honest(told, shown, server')
  <2>1. told.op = "read" => told.after <= shown[told.chat] /\ told.answer.last <= shown[told.chat]
    BY <1>2, <1>3, <1>7 DEF Honest
  <2>2. told.op = "thread" => told.request # 0 /\ told.after <= Len(server'[told.chat].said)
    <3>1. call.op = "thread" => call.after <= Len(server[c].said) /\ call.request # 0 /\ call.after \in Nat
      BY <1>2 DEF Honest
    <3> QED BY <1>2, <1>3, <1>4, <1>5, <3>1
  <2>3. told.op = "thread" /\ told.answered /\ told.answer.found =>
          told.after <= told.answer.last /\ told.answer.last <= Len(server'[told.chat].said)
    <3>1. call.op = "thread" => call.after <= Len(server[c].said)
      BY <1>2 DEF Honest
    <3> QED BY <1>2, <1>3, <1>4, <1>5, <1>8, <3>1
  <2>4. told.after \in Nat /\ IsAnswer(told.answer)
    BY <1>2, <1>3, <1>7 DEF Honest
  <2> QED BY <2>1, <2>2, <2>3, <2>4 DEF Honest
<1> HIDE DEF told
<1>10. \A b \in Chats : /\ Len(server[b].said) <= Len(server'[b].said)
                        /\ server'[b].read \in Nat /\ server'[b].read <= shown[b]
  <2>1. \A b \in Chats : Len(server[b].said) \in Nat /\ server[b].read \in Nat /\ server[b].read <= shown[b]
    BY DEF ConsoleIInv, ConsoleTypes, IsRow, ReadInv
  <2> QED BY <1>4, <1>5, <2>1
<1>11. IsFiniteSet(calls')
  <2>1. IsFiniteSet(calls \cup {told})
    BY FS_Singleton, FS_Union DEF ReadInv
  <2>2. calls' \subseteq calls \cup {told}
    BY <1>1
  <2> QED BY <2>1, <2>2, FS_Subset
<1>12. Tied(page, calls')
  BY <1>1, <1>3 DEF ReadInv, Tied
<1>13. OneThread(calls')
  <2>1. OneThread(calls)
    BY DEF ReadInv
  <2> QED BY <1>1, <1>3, <2>1 DEF OneThread
<1>14. \A k \in calls' : Honest(k, shown, server') \/ k \in calls
  BY <1>1, <1>9
<1> QED BY <1>1, <1>10, <1>11, <1>12, <1>13, <1>14, GrowingReads

LEMMA OthersRead ==
    ASSUME ConsoleIInv, ReadInv, ConsoleIInv', NEW c \in Chats, CustomerWrites(c) \/ ColleagueClaims(c)
    PROVE  ReadInv'
<1>1. IsRow(server[c]) /\ server[c].said \in Seq(Message)
  BY DEF ConsoleIInv, ConsoleTypes, IsRow
<1>2. page' = page /\ calls' = calls /\ shown' = shown
  BY DEF CustomerWrites, ColleagueClaims
<1>3. \E new : /\ server' = [server EXCEPT ![c] = new]
              /\ new.read = server[c].read /\ new.said = Append(server[c].said, FromOthers)
  <2>1. CASE CustomerWrites(c)
    <3> DEFINE row == Say(server[c], FromOthers)
    <3>1. PICK asks \in BOOLEAN :
            server' = [server EXCEPT ![c] =
                [row EXCEPT !.open = row.open \/ asks,
                            !.status = IF asks /\ row.status = "ai" THEN "waiting" ELSE row.status]]
      BY <2>1 DEF CustomerWrites
    <3> DEFINE open == row.open \/ asks
               status == IF asks /\ row.status = "ai" THEN "waiting" ELSE row.status
               new == [row EXCEPT !.open = open, !.status = status]
    <3>2. server' = [server EXCEPT ![c] = new]
      BY <3>1
    <3> HIDE DEF open, status
    <3>3. new.read = server[c].read /\ new.said = Append(server[c].said, FromOthers)
      BY <1>1 DEF Say, IsRow
    <3> QED BY <3>2, <3>3
  <2>2. CASE ColleagueClaims(c)
    <3> DEFINE new == [Say(server[c], FromOthers) EXCEPT !.status = "human", !.operator = Other]
    <3>1. server' = [server EXCEPT ![c] = new]
      BY <2>2 DEF ColleagueClaims
    <3>2. new.read = server[c].read /\ new.said = Append(server[c].said, FromOthers)
      BY <1>1 DEF Say, IsRow
    <3> QED BY <3>1, <3>2
  <2> QED BY <2>1, <2>2
<1>4. \A b \in Chats : /\ Len(server[b].said) <= Len(server'[b].said)
                       /\ server'[b].read \in Nat /\ server'[b].read <= shown[b]
  <2>1. \A b \in Chats : Len(server[b].said) \in Nat /\ server[b].read \in Nat /\ server[b].read <= shown[b]
    BY DEF ConsoleIInv, ConsoleTypes, IsRow, ReadInv
  <2>2. PICK new : /\ server' = [server EXCEPT ![c] = new]
                   /\ new.read = server[c].read /\ new.said = Append(server[c].said, FromOthers)
    BY <1>3
  <2>3. Len(new.said) = Len(server[c].said) + 1
    BY <1>1, <2>2, FromOthersIsMessage
  <2>4. \A b \in Chats : /\ b = c => server'[b] = new
                         /\ b # c => server'[b] = server[b]
    BY <2>2 DEF ConsoleIInv, ConsoleTypes
  <2> QED BY <2>1, <2>2, <2>3, <2>4
<1>5. IsFiniteSet(calls') /\ Tied(page, calls') /\ OneThread(calls')
  BY <1>2 DEF ReadInv
<1> QED BY <1>2, <1>4, <1>5, GrowingReads

\* The answer of a thread, late or not, or the news that there is none.
LEMMA ThreadArrivesReads ==
    ASSUME ConsoleIInv, ReadInv, NEW call \in calls, ThreadArrives(call)
    PROVE  ReadInv'
<1>1. Right(page, shown, server) /\ IsSeenUpTo(shown) /\ ConsoleTypes
  BY DEF ConsoleIInv, ConsoleTypes, ReadInv, Right, IsSeenUpTo
<1>2. IsCall(call) /\ Honest(call, shown, server) /\ call.op = "thread" /\ call.answered
  BY DEF ConsoleIInv, ConsoleTypes, ReadInv, ThreadArrives
<1>3. server' = server
  BY DEF ThreadArrives
<1>4. Marks({}, shown, server) /\ SamePlace(page, page)
  BY FS_EmptySet DEF Marks, SamePlace
<1>5. CASE ~Current(call)
  <2> DEFINE step == [page |-> page, calls |-> {}]
  <2>1. EndCall(call, step) /\ shown' = shown
    BY <1>5 DEF ThreadArrives
  <2> HIDE DEF step
  <2>2. Right(step.page, shown, server) /\ SamePlace(step.page, page) /\ Marks(step.calls, shown, server)
    BY <1>1, <1>4 DEF step
  <2> QED BY <1>1, <1>3, <2>1, <2>2, EndCallReads
<1>6. CASE Current(call) /\ ~call.answer.found
  <2> DEFINE step == [page |-> ClearThread(page), calls |-> {}]
             opened == Opened(page, Nobody)
  <2>1. EndCall(call, step) /\ shown' = shown
    BY <1>6 DEF ThreadArrives
  <2>2. Right(opened, shown, server) /\ opened.request = 0
    <3>1. \A c \in Chats : Len(server[c].said) \in Nat
      BY <1>1 DEF ConsoleTypes, IsRow
    <3> QED BY <1>1, <3>1, OpenedIsRight
  <2>3. ClearThread(page) = [opened EXCEPT !.refreshing = FALSE]
    BY DEF ClearThread
  <2> HIDE DEF opened
  <2>4. Right(ClearThread(page), shown, server) /\ ClearThread(page).request = 0
    BY <2>2, <2>3 DEF Right, IsPage, LogIsInOrder, Watched
  <2>5. Right(step.page, shown, server) /\ step.page.request = 0 /\ Marks(step.calls, shown, server)
    BY <1>4, <2>4
  <2> HIDE DEF step
  <2> QED BY <1>1, <1>3, <2>1, <2>5, EndCallReads
<1>7. CASE Current(call) /\ call.answer.found
  <2> DEFINE c == page.selected
             read == Appended(page, call.chat, call.after, call.answer.last)
             p == [read EXCEPT !.owned = call.answer.mine, !.waiting = call.answer.waiting]
             k == Call("requests", call.chat, call.request, 0, call.caller)
  <2>1. page' = p /\ calls' = Drop(call) \cup {k} /\ Watch(p)
    BY <1>7 DEF ThreadArrives
  <2>2. call.chat = c /\ call.request = page.request /\ c \in Chats
    BY <1>2, <1>7 DEF Current, IsCall
  <2>3. call.after = page.cursor
    BY <1>2, <2>2 DEF ReadInv, Tied
  <2>4. /\ call.answer.last \in Nat /\ page.cursor <= call.answer.last
        /\ call.answer.last <= Len(server[c].said)
    BY <1>2, <1>7, <2>2, <2>3 DEF Honest, IsAnswer
  <2>5. PICK upTo \in Nat :
          /\ page.cursor <= upTo /\ upTo <= call.answer.last
          /\ \E latest :
               read = [page EXCEPT !.log = [i \in 1 .. upTo |-> <<c, i>>],
                                   !.cursor = upTo, !.latest = latest]
    <3>1. read = Appended(page, page.selected, page.cursor, call.answer.last)
      BY <2>2, <2>3
    <3>2. IsPage(page) /\ LogIsInOrder(page)
      BY <1>1 DEF Right
    <3> HIDE DEF read
    <3>3. \E upTo \in Nat : \E latest :
            /\ page.cursor <= upTo /\ upTo <= call.answer.last
            /\ Appended(page, page.selected, page.cursor, call.answer.last) =
                 [page EXCEPT !.log = [i \in 1 .. upTo |-> <<page.selected, i>>],
                              !.cursor = upTo, !.latest = latest]
      BY <2>4, <3>2, AppendedInOrder
    <3> QED BY <3>1, <3>3
  <2>6. /\ k.op = "requests" /\ k.after = 0 /\ k.answer = Unknown
    BY DEF Call
  <2> HIDE DEF read, k
  <2>7. /\ IsPage(read) /\ read.selected = c /\ read.request = page.request /\ read.cursor = upTo
        /\ read.log = [i \in 1 .. upTo |-> <<c, i>>]
        /\ read.marked = page.marked /\ read.atLatest = page.atLatest
    BY <1>1, <2>5 DEF Right, IsPage
  <2>8. /\ IsPage(p) /\ p.selected = c /\ p.request = page.request /\ p.cursor = upTo
        /\ p.log = [i \in 1 .. upTo |-> <<c, i>>]
        /\ p.marked = page.marked /\ p.atLatest = page.atLatest
    BY <2>7 DEF IsPage
  <2> HIDE DEF p
  <2>9. LogIsInOrder(p)
    BY <1>1, <2>8 DEF Right, LogIsInOrder
  <2>10. /\ IsSeenUpTo(shown') /\ \A b \in Chats : shown[b] <= shown'[b]
         /\ p.atLatest => p.cursor <= shown'[c]
    BY <1>1, <2>1, <2>2, <2>8, <2>9, WatchedIsSeen
  <2>11. Watched(p, shown', server)
    <3>1. \A b \in Chats : /\ p.marked[b] \in Nat /\ p.marked[b] <= shown[b]
                           /\ shown[b] \in Nat /\ shown'[b] \in Nat
      BY <1>1, <2>8, <2>10 DEF Right, LogIsInOrder, Watched, IsSeenUpTo
    <3>2. \A b \in Chats : p.marked[b] <= shown'[b]
      BY <2>10, <3>1
    <3>3. Len(server[c].said) \in Nat
      BY <1>1, <2>2 DEF ConsoleTypes, IsRow
    <3>4. p.cursor <= Len(server[c].said)
      BY <2>4, <2>5, <2>8, <3>3
    <3> QED BY <2>8, <2>10, <3>2, <3>4 DEF Watched
  <2>12. Honest(k, shown', server)
    <3>1. IsAnswer(k.answer)
      BY <2>6, UnknownIsAnswer
    <3>2. k.op # "read" /\ k.op # "thread" /\ k.after \in Nat
      BY <2>6
    <3> QED BY <3>1, <3>2 DEF Honest
  <2>13. \A j \in calls : Honest(j, shown', server)
    <3>1. \A b \in Chats : Len(server[b].said) \in Nat
      BY <1>1 DEF ConsoleTypes, IsRow
    <3> QED BY <1>1, <2>10, <3>1, RestIsHonest
  <2>14. IsFiniteSet(calls')
    <3>1. IsFiniteSet(calls \cup {k})
      BY FS_Singleton, FS_Union DEF ReadInv
    <3>2. calls' \subseteq calls \cup {k}
      BY <2>1 DEF Drop
    <3> QED BY <3>1, <3>2, FS_Subset
  <2>15. \A j \in calls' : j.op = "thread" => j \in calls /\ j # call
    BY <2>1, <2>6 DEF Drop
  <2>16. OneThread(calls')
    BY <2>15 DEF ReadInv, OneThread
  <2>17. Tied(p, calls')
    BY <1>2, <2>2, <2>8, <2>15 DEF ReadInv, OneThread, Tied
  <2>18. \A j \in calls' : Honest(j, shown', server)
    BY <2>1, <2>12, <2>13 DEF Drop
  <2>19. \A b \in Chats : server[b].read \in Nat /\ server[b].read <= shown'[b]
    <3>1. \A b \in Chats : /\ server[b].read \in Nat /\ server[b].read <= shown[b]
                           /\ shown[b] \in Nat /\ shown'[b] \in Nat
      BY <1>1, <2>10 DEF ReadInv, IsSeenUpTo
    <3> QED BY <2>10, <3>1
  <2> QED BY <1>3, <2>1, <2>9, <2>10, <2>11, <2>14, <2>16, <2>17, <2>18, <2>19 DEF ReadInv, IsSeenUpTo
<1> QED BY <1>5, <1>6, <1>7

\* The other answers.
LEMMA AnswersRead ==
    ASSUME ConsoleIInv, ReadInv, NEW call \in calls,
           RequestsArrive(call) \/ SendArrives(call) \/ ButtonArrives(call) \/ ReadArrives(call)
    PROVE  ReadInv'
<1>1. Right(page, shown, server) /\ IsSeenUpTo(shown) /\ ConsoleTypes
  BY DEF ConsoleIInv, ConsoleTypes, ReadInv, Right, IsSeenUpTo
<1>2. IsCall(call)
  BY DEF ConsoleIInv, ConsoleTypes
<1>3. server' = server /\ shown' = shown
  BY DEF RequestsArrive, SendArrives, ButtonArrives, ReadArrives
<1>4. Marks({}, shown, server) /\ SamePlace(page, page)
  BY FS_EmptySet DEF Marks, SamePlace
<1>5. \A q : Right(q, shown, server) => /\ Right(ClearThread(q), shown, server)
                                       /\ ClearThread(q).request = 0
  <2> SUFFICES ASSUME NEW q, Right(q, shown, server)
               PROVE  Right(ClearThread(q), shown, server) /\ ClearThread(q).request = 0
    OBVIOUS
  <2> DEFINE opened == Opened(q, Nobody)
  <2>1. Right(opened, shown, server) /\ opened.request = 0
    <3>1. \A c \in Chats : Len(server[c].said) \in Nat
      BY <1>1 DEF ConsoleTypes, IsRow
    <3> QED BY <1>1, <3>1, OpenedIsRight
  <2>2. ClearThread(q) = [opened EXCEPT !.refreshing = FALSE]
    BY DEF ClearThread
  <2> HIDE DEF opened
  <2> QED BY <2>1, <2>2 DEF Right, IsPage, LogIsInOrder, Watched
<1>6. ASSUME NEW p, Right(p, shown, server), SamePlace(p, page) \/ p.request = 0,
             EndCall(call, [page |-> p, calls |-> {}])
      PROVE  ReadInv'
  <2> DEFINE step == [page |-> p, calls |-> {}]
  <2>1. step.page = p /\ step.calls = {} /\ EndCall(call, step)
    BY <1>6
  <2> HIDE DEF step
  <2> QED BY <1>1, <1>3, <1>4, <1>6, <2>1, EndCallReads
<1>7. CASE RequestsArrive(call)
  <2> DEFINE p == IF call.chat = page.selected /\ call.answer.found
                  THEN [page EXCEPT !.open = call.answer.open] ELSE page
             still == [p EXCEPT !.refreshing = FALSE]
             step == MarkRead(still)
  <2>1. \/ EndCall(call, [page |-> p, calls |-> {}])
        \/ EndCall(call, [page |-> ClearThread(p), calls |-> {}])
        \/ EndCall(call, step)
    BY <1>7 DEF RequestsArrive
  <2>2. Right(p, shown, server) /\ SamePlace(p, page)
    BY <1>1 DEF Right, IsPage, LogIsInOrder, Watched, SamePlace
  <2> HIDE DEF p
  <2>3. Right(still, shown, server) /\ SamePlace(still, page)
    BY <2>2 DEF Right, IsPage, LogIsInOrder, Watched, SamePlace
  <2> HIDE DEF still
  <2>4. Right(step.page, shown, server) /\ SamePlace(step.page, page) /\ Marks(step.calls, shown, server)
    BY <1>1, <2>3, MarkReadIsRight DEF SamePlace
  <2> HIDE DEF step
  <2>5. CASE EndCall(call, step)
    BY <1>1, <1>3, <2>4, <2>5, EndCallReads
  <2> QED BY <1>5, <1>6, <2>1, <2>2, <2>5
<1>8. CASE SendArrives(call)
  <2>1. CASE call.answer.found
    <3>1. Reread(call, Sent(call))
      BY <1>8, <2>1 DEF SendArrives
    <3>2. Right(Sent(call), shown, server) /\ SamePlace(Sent(call), page)
      <4> DEFINE input == IF page.selected = call.chat THEN 0 ELSE page.input
      <4>1. Sent(call) = [page EXCEPT !.attempts[call.chat] = FromOthers,
                                      !.drafts[call.chat] = 0, !.input = input]
        BY DEF Sent
      <4>2. input \in Nat
        BY <1>1 DEF Right, IsPage
      <4> HIDE DEF input
      <4>3. IsPage(Sent(call))
        <5>1. IsPage(page)
          BY <1>1 DEF Right
        <5> DEFINE attempts == [page.attempts EXCEPT ![call.chat] = FromOthers]
                   drafts == [page.drafts EXCEPT ![call.chat] = 0]
        <5>2. Sent(call) = [page EXCEPT !.attempts = attempts, !.drafts = drafts, !.input = input]
          BY <4>1
        <5>3. attempts \in [Chats -> Message] /\ drafts \in [Chats -> Nat]
          BY <5>1, FromOthersIsMessage DEF IsPage
        <5> HIDE DEF attempts, drafts
        <5> QED BY <4>2, <5>1, <5>2, <5>3 DEF IsPage
      <4>4. /\ Sent(call).selected = page.selected /\ Sent(call).request = page.request
            /\ Sent(call).cursor = page.cursor /\ Sent(call).log = page.log
            /\ Sent(call).marked = page.marked /\ Sent(call).atLatest = page.atLatest
        BY <1>1, <4>1 DEF Right, IsPage
      <4> QED BY <1>1, <4>3, <4>4 DEF Right, LogIsInOrder, Watched, SamePlace
    <3> QED BY <1>1, <1>3, <3>1, <3>2, RereadReads
  <2>2. CASE ~call.answer.found
    BY <1>1, <1>4, <1>6, <1>8, <2>2 DEF SendArrives
  <2> QED BY <2>1, <2>2
<1>9. CASE ButtonArrives(call)
  <2>1. \/ EndCall(call, [page |-> ClearThread(page), calls |-> {}])
        \/ EndCall(call, [page |-> page, calls |-> {}])
        \/ Reread(call, page)
    BY <1>9 DEF ButtonArrives
  <2>2. CASE Reread(call, page)
    BY <1>1, <1>3, <1>4, <2>2, RereadReads
  <2> QED BY <1>1, <1>4, <1>5, <1>6, <2>1, <2>2
<1>10. CASE ReadArrives(call)
  <2>1. page' = page /\ calls' \subseteq calls \cup {}
    BY <1>10 DEF ReadArrives, Drop
  <2>2. \A c \in Chats : shown[c] <= shown'[c]
    BY <1>1, <1>3 DEF IsSeenUpTo
  <2> QED BY <1>1, <1>3, <1>4, <2>1, <2>2, QuietReads
<1> QED BY <1>7, <1>8, <1>9, <1>10

\* A call that is lost.
LEMMA LoseReads ==
    ASSUME ConsoleIInv, ReadInv, NEW call \in calls, Lose(call)
    PROVE  ReadInv'
<1>1. Right(page, shown, server) /\ IsSeenUpTo(shown) /\ ConsoleTypes
  BY DEF ConsoleIInv, ConsoleTypes, ReadInv, Right, IsSeenUpTo
<1>2. IsCall(call) /\ Honest(call, shown, server)
  BY DEF ConsoleIInv, ConsoleTypes, ReadInv
<1>3. server' = server /\ shown' = shown
  BY DEF Lose
<1>4. Marks({}, shown, server) /\ SamePlace(page, page) /\ \A c \in Chats : shown[c] <= shown'[c]
  BY <1>1, <1>3, FS_EmptySet DEF Marks, SamePlace, IsSeenUpTo
<1>5. ASSUME NEW p, Right(p, shown, server), SamePlace(p, page),
             EndCall(call, [page |-> p, calls |-> {}])
      PROVE  ReadInv'
  <2> DEFINE step == [page |-> p, calls |-> {}]
  <2>1. step.page = p /\ step.calls = {} /\ EndCall(call, step)
    BY <1>5
  <2> HIDE DEF step
  <2> QED BY <1>1, <1>3, <1>4, <1>5, <2>1, EndCallReads
<1>6. CASE call.op = "read"
  <2> DEFINE c == call.chat
             old == IF page.marked[c] = call.after THEN call.answer.last ELSE page.marked[c]
  <2>1. page' = [page EXCEPT !.marked[c] = old] /\ calls' \subseteq calls \cup {}
    BY <1>6 DEF Lose, MarkFails, Drop
  <2>2. c \in Chats
    BY <1>2 DEF IsCall
  <2>3. old \in Nat /\ old <= shown[c]
    BY <1>1, <1>2, <1>6, <2>2 DEF Honest, IsAnswer, Right, LogIsInOrder, Watched
  <2> HIDE DEF old
  <2>4. /\ IsPage(page') /\ SamePlace(page', page) /\ page'.log = page.log
        /\ page'.atLatest = page.atLatest
        /\ page'.marked = [page.marked EXCEPT ![c] = old]
    BY <1>1, <2>1 DEF Right, IsPage, SamePlace
  <2>5. /\ page'.marked \in [Chats -> Nat]
        /\ \A b \in Chats : page'.marked[b] <= shown[b]
    BY <1>1, <2>2, <2>3, <2>4 DEF Right, LogIsInOrder, Watched
  <2>6. Right(page', shown, server)
    BY <1>1, <2>4, <2>5 DEF Right, LogIsInOrder, Watched, SamePlace
  <2> QED BY <1>1, <1>3, <1>4, <2>1, <2>4, <2>6, QuietReads
<1>7. CASE call.op \in {"send", "resolve"}
  <2>1. EndCall(call, [page |-> page, calls |-> {}])
    BY <1>7 DEF Lose
  <2> QED BY <1>1, <1>4, <1>5, <2>1
<1>8. CASE call.op \in {"claim", "close"}
  <2>1. Reread(call, page)
    BY <1>8 DEF Lose
  <2> QED BY <1>1, <1>3, <1>4, <2>1, RereadReads
<1>9. CASE call.op \in {"thread", "requests"}
  <2> DEFINE p == IF Current(call) THEN [page EXCEPT !.refreshing = FALSE] ELSE page
  <2>1. EndCall(call, [page |-> p, calls |-> {}])
    BY <1>9 DEF Lose
  <2>2. Right(p, shown, server) /\ SamePlace(p, page)
    BY <1>1 DEF Right, IsPage, LogIsInOrder, Watched, SamePlace
  <2> HIDE DEF p
  <2> QED BY <1>5, <2>1, <2>2
<1> QED BY <1>2, <1>6, <1>7, <1>8, <1>9 DEF IsCall

-----------------------------------------------------------------------------
LEMMA ReadInitially == ConsoleInit => ReadInv
<1> SUFFICES ASSUME ConsoleInit PROVE ReadInv
  OBVIOUS
<1>1. calls = {} /\ IsFiniteSet(calls)
  BY FS_EmptySet DEF ConsoleInit
<1>2. shown \in [Chats -> Nat] /\ \A c \in Chats : shown[c] = 0
  BY DEF ConsoleInit
<1>3. \A c \in Chats : server[c].read = 0
  BY DEF ConsoleInit
<1>4. /\ page.selected = Nobody /\ page.cursor = 0 /\ page.log = <<>> /\ page.atLatest = TRUE
      /\ page.marked = [c \in Chats |-> 0]
  BY DEF ConsoleInit
<1>5. page.log = [i \in 1 .. page.cursor |-> <<page.selected, i>>]
  BY <1>4
<1>6. LogIsInOrder(page) /\ Watched(page, shown, server)
  <2>1. page.marked \in [Chats -> Nat] /\ \A c \in Chats : page.marked[c] <= shown[c]
    BY <1>2, <1>4
  <2>2. page.cursor \in Nat /\ page.atLatest \in BOOLEAN /\ page.selected \notin Chats
    <3>1. page.cursor \in Nat
      BY <1>4
    <3>2. page.atLatest \in BOOLEAN
      BY <1>4, Zenon
    <3>3. page.selected \notin Chats
      BY <1>4, ConsoleAssumption
    <3> QED BY <3>1, <3>2, <3>3
  <2> QED BY <1>5, <2>1, <2>2 DEF LogIsInOrder, Watched
<1> QED BY <1>1, <1>2, <1>3, <1>6 DEF ReadInv, Tied, OneThread

LEMMA ReadConsecution ==
    ConsoleIInv /\ ReadInv /\ ConsoleIInv' /\ [ConsoleNext]_consoleVars => ReadInv'
<1> SUFFICES ASSUME ConsoleIInv, ReadInv, ConsoleIInv', [ConsoleNext]_consoleVars PROVE ReadInv'
  OBVIOUS
<1>1. CASE UNCHANGED consoleVars
  BY <1>1 DEF consoleVars, ReadInv, LogIsInOrder, Watched, Honest, Tied, OneThread
<1>2. ASSUME NEW c \in Chats, Choose(c) \/ CustomerWrites(c) \/ ColleagueClaims(c)
      PROVE  ReadInv'
  BY <1>2, ChooseReads, OthersRead
<1>3. ASSUME NEW call \in calls, Serve(call) \/ Arrives(call) \/ Lose(call)
      PROVE  ReadInv'
  BY <1>3, ServeReads, ThreadArrivesReads, AnswersRead, LoseReads DEF Arrives
<1> QED BY <1>1, <1>2, <1>3, TypeReads, PressReads, ScrollReads, PollReads DEF ConsoleNext

\* Nothing counts as read, on the page or on the server, that was not on the
\* administrator's screen, however late the threads, marks and failures come.
THEOREM ReadIsWhatWasShown == ConsoleSpec => []ReadWasShown
<1>1. ConsoleInit => ReadInv
  BY ReadInitially
<1>2. ReadInv => ReadWasShown
  BY DEF ReadInv, Watched, ReadWasShown
<1> QED BY <1>1, <1>2, ReadConsecution, ConsoleInvariance, PTL DEF ConsoleSpec

-----------------------------------------------------------------------------
(* TokenBudget: sums.                                                      *)

\* What holds of a finite set if it holds of those with one element less.
LEMMA OneMore ==
    ASSUME NEW S, IsFiniteSet(S), NEW P,
           \A T \in SUBSET S : (\A x \in T : T \ {x} \in P) => T \in P
    PROVE  SUBSET S \subseteq P
<1> DEFINE Bad == {Cardinality(T) : T \in (SUBSET S) \ P}
<1>1. \A T \in SUBSET S : IsFiniteSet(T) /\ Cardinality(T) \in Nat
    BY FS_Subset, FS_CardinalityType
<1>2. Bad \subseteq Nat
    BY <1>1
<1>3. ASSUME Bad # {} PROVE FALSE
  <2>1. PICK i \in Bad : \A j \in Bad : i <= j
      BY <1>2, <1>3, LeastNumber
  <2>2. PICK T \in (SUBSET S) \ P : i = Cardinality(T)
      OBVIOUS
  <2>3. PICK x \in T : T \ {x} \notin P
    <3>1. T \in SUBSET S /\ T \notin P
        BY <2>2
    <3> QED BY <3>1
  <2>4. Cardinality(T \ {x}) = Cardinality(T) - 1
      BY <1>1, FS_RemoveElement
  <2>5. T \ {x} \in SUBSET S /\ Cardinality(T \ {x}) \in Bad
      BY <2>3
  <2>6. i <= Cardinality(T \ {x})
      BY <2>1, <2>5
  <2> QED BY <1>1, <2>2, <2>4, <2>6
<1>4. ASSUME NEW T \in SUBSET S, T \notin P PROVE FALSE
  <2>1. Cardinality(T) \in Bad
      BY <1>4
  <2> QED BY <2>1, <1>3
<1> QED BY <1>4

First(T) == CHOOSE x \in T : TRUE

\* The function that MapThenSumSet defines: sums over the subsets of S.
Adds(g, f, D) == g = [T \in D |-> IF T = {} THEN 0 ELSE f[First(T)] + g[T \ {First(T)}]]

LEMMA FirstIsThere ==
    ASSUME NEW T, T # {}
    PROVE  First(T) \in T
BY DEF First

LEMMA AddsAt ==
    ASSUME NEW f, NEW D, NEW g, Adds(g, f, D), NEW T \in D
    PROVE  /\ T = {} => g[T] = 0
           /\ T # {} => g[T] = f[First(T)] + g[T \ {First(T)}]
BY DEF Adds

LEMMA AddsToSubsets ==
    ASSUME NEW f, NEW S, NEW g, Adds(g, f, SUBSET S), NEW T \in SUBSET S
    PROVE  /\ T = {} => g[T] = 0
           /\ T # {} => g[T] = f[First(T)] + g[T \ {First(T)}]
BY DEF Adds

LEMMA NothingAddsToZero ==
    ASSUME NEW f, NEW S, NEW g, Adds(g, f, SUBSET S)
    PROVE  g[{}] = 0
<1>1. {} \in SUBSET S
    OBVIOUS
<1> QED BY <1>1 DEF Adds

LEMMA OneWayToAdd ==
    ASSUME NEW S, IsFiniteSet(S), NEW f, NEW g, NEW h, Adds(g, f, SUBSET S), Adds(h, f, SUBSET S)
    PROVE  g = h
<1> DEFINE P == {T \in SUBSET S : g[T] = h[T]}
<1>1. ASSUME NEW T \in SUBSET S, \A x \in T : T \ {x} \in P
      PROVE  T \in P
  <2>1. CASE T = {}
    <3>1. g[T] = 0
        BY <2>1, NothingAddsToZero
    <3>2. h[T] = 0
        BY <2>1, NothingAddsToZero
    <3> QED BY <3>1, <3>2
  <2>2. CASE T # {}
    <3>1. First(T) \in T
        BY <2>2, FirstIsThere
    <3>2. g[T \ {First(T)}] = h[T \ {First(T)}]
        BY <3>1, <1>1
    <3>3. g[T] = f[First(T)] + g[T \ {First(T)}]
        BY <2>2, AddsToSubsets
    <3>4. h[T] = f[First(T)] + h[T \ {First(T)}]
        BY <2>2, AddsToSubsets
    <3> QED BY <3>2, <3>3, <3>4
  <2> QED BY <2>1, <2>2
<1>2. SUBSET S \subseteq P
  <2> HIDE DEF P
  <2> QED BY <1>1, OneMore
<1>3. g = [T \in SUBSET S |-> g[T]] /\ h = [T \in SUBSET S |-> h[T]]
    BY DEF Adds
<1> QED BY <1>2, <1>3

\* There is one, built for larger and larger subsets.
LEMMA ThereIsAWayToAdd ==
    ASSUME NEW S, IsFiniteSet(S), NEW f
    PROVE  \E g : Adds(g, f, SUBSET S)
<1> DEFINE Upto(n) == {T \in SUBSET S : Cardinality(T) <= n}
           Bad == {n \in Nat : ~ \E g : Adds(g, f, Upto(n))}
<1>1. \A T \in SUBSET S : IsFiniteSet(T) /\ Cardinality(T) \in Nat /\ Cardinality(T) <= Cardinality(S)
    BY FS_Subset, FS_CardinalityType
<1>2. ASSUME Bad # {} PROVE FALSE
  <2>1. PICK n \in Bad : \A m \in Bad : n <= m
      BY <1>2, LeastNumber
  <2>2. CASE n = 0
    <3>1. \A T \in Upto(0) : T = {}
        BY <1>1, FS_EmptySet
    <3>2. Adds([T \in Upto(0) |-> 0], f, Upto(0))
        BY <3>1 DEF Adds
    <3> QED BY <2>2, <3>2
  <2>3. CASE n # 0
    <3>1. n - 1 \in Nat /\ n - 1 \notin Bad
      <4>1. n \in Nat /\ n - 1 \in Nat /\ n - 1 < n
          BY <2>1, <2>3
      <4>2. \A m \in Bad : n <= m
          BY <2>1
      <4> HIDE DEF Bad
      <4> QED BY <4>1, <4>2
    <3>2. PICK g : Adds(g, f, Upto(n - 1))
        BY <3>1
    <3> DEFINE h == [T \in Upto(n) |-> IF T \in Upto(n - 1) THEN g[T] ELSE f[First(T)] + g[T \ {First(T)}]]
    <3>3. ASSUME NEW T \in Upto(n), T # {}
          PROVE  T \ {First(T)} \in Upto(n - 1) /\ T \ {First(T)} \in Upto(n)
      <4>1. First(T) \in T
          BY <3>3, FirstIsThere
      <4>2. Cardinality(T \ {First(T)}) = Cardinality(T) - 1
          BY <1>1, <4>1, FS_RemoveElement
      <4> QED BY <1>1, <4>2, <3>1
    <3>4. \A T \in Upto(n - 1) : h[T] = g[T] /\ T \in Upto(n)
        BY <1>1, <3>1
    <3>5. ASSUME NEW T \in Upto(n)
          PROVE  h[T] = IF T = {} THEN 0 ELSE f[First(T)] + h[T \ {First(T)}]
      <4>1. CASE T \in Upto(n - 1)
        <5>1. h[T] = IF T = {} THEN 0 ELSE f[First(T)] + g[T \ {First(T)}]
            BY <4>1, <3>2, <3>4, AddsAt
        <5> QED BY <5>1, <3>3, <3>4
      <4>2. CASE T \notin Upto(n - 1)
        <5>1. T # {}
          <6>1. Cardinality({}) = 0
              BY FS_EmptySet
          <6> QED BY <6>1, <4>2, <3>1
        <5>2. h[T] = f[First(T)] + g[T \ {First(T)}]
            BY <4>2
        <5>3. h[T \ {First(T)}] = g[T \ {First(T)}]
            BY <5>1, <3>3, <3>4
        <5> QED BY <5>1, <5>2, <5>3
      <4> QED BY <4>1, <4>2
    <3>6. h = [T \in Upto(n) |-> h[T]]
        OBVIOUS
    <3>7. Adds(h, f, Upto(n))
      <4> HIDE DEF h
      <4> QED BY <3>5, <3>6 DEF Adds
    <3> QED BY <3>7
  <2> QED BY <2>2, <2>3
<1>3. Cardinality(S) \in Nat /\ Upto(Cardinality(S)) = SUBSET S
    BY <1>1, FS_CardinalityType
<1> QED BY <1>2, <1>3

\* So the sum is the value of any function that adds in this way.
LEMMA SumIsAdded ==
    ASSUME NEW f, IsFiniteSet(DOMAIN f)
    PROVE  \E g : Adds(g, f, SUBSET DOMAIN f) /\ Sum(f) = g[DOMAIN f]
<1>1. PICK g : Adds(g, f, SUBSET DOMAIN f)
    BY ThereIsAWayToAdd
<1>2. Sum(f) = (CHOOSE h : Adds(h, f, SUBSET DOMAIN f))[DOMAIN f]
    BY DEF Sum, MapThenSumSet, MapThenFoldSet, Adds, First
<1>3. (CHOOSE h : Adds(h, f, SUBSET DOMAIN f)) = g
    BY <1>1, OneWayToAdd
<1> QED BY <1>1, <1>2, <1>3

LEMMA PartsAreNatural ==
    ASSUME NEW S, IsFiniteSet(S), NEW f \in [S -> Nat], NEW g, Adds(g, f, SUBSET S)
    PROVE  \A T \in SUBSET S : g[T] \in Nat
<1> DEFINE P == {T \in SUBSET S : g[T] \in Nat}
<1>1. ASSUME NEW T \in SUBSET S, \A x \in T : T \ {x} \in P
      PROVE  T \in P
  <2>1. CASE T = {}
    <3>1. g[T] = 0
        BY <2>1, NothingAddsToZero
    <3> QED BY <3>1
  <2>2. CASE T # {}
    <3>1. First(T) \in T /\ f[First(T)] \in Nat
        BY <2>2, FirstIsThere
    <3>2. g[T] = f[First(T)] + g[T \ {First(T)}]
        BY <2>2, AddsToSubsets
    <3> QED BY <1>1, <3>1, <3>2
  <2> QED BY <2>1, <2>2
<1>2. SUBSET S \subseteq P
  <2> HIDE DEF P
  <2> QED BY <1>1, OneMore
<1> QED BY <1>2

\* Whichever element is taken first.
AddsInAnyOrder(g, f, S) == \A T \in SUBSET S : \A x \in T : g[T] = f[x] + g[T \ {x}]

LEMMA InAnyOrder ==
    ASSUME NEW S, IsFiniteSet(S), NEW f \in [S -> Nat], NEW g, Adds(g, f, SUBSET S)
    PROVE  AddsInAnyOrder(g, f, S)
<1> DEFINE P == {T \in SUBSET S : \A x \in T : g[T] = f[x] + g[T \ {x}]}
<1>1. ASSUME NEW T \in SUBSET S, \A x \in T : T \ {x} \in P, NEW x \in T
      PROVE  g[T] = f[x] + g[T \ {x}]
  <2> DEFINE y == First(T)
  <2>1. y \in T
      BY FirstIsThere
  <2>2. g[T] = f[y] + g[T \ {y}]
      BY AddsToSubsets
  <2>3. CASE x = y
      BY <2>2, <2>3
  <2>4. CASE x # y
    <3> HIDE DEF y
    <3>1. x \in T \ {y} /\ y \in T \ {x}
        BY <2>1, <2>4
    <3>2. g[T \ {y}] = f[x] + g[(T \ {y}) \ {x}]
        BY <1>1, <2>1, <3>1
    <3>3. g[T \ {x}] = f[y] + g[(T \ {x}) \ {y}]
        BY <1>1, <3>1
    <3>4. (T \ {y}) \ {x} = (T \ {x}) \ {y}
        OBVIOUS
    <3>5. f[x] \in Nat /\ f[y] \in Nat /\ g[(T \ {x}) \ {y}] \in Nat
      <4>1. (T \ {x}) \ {y} \in SUBSET S
          OBVIOUS
      <4> QED BY <4>1, <2>1, PartsAreNatural
    <3> DEFINE left == g[(T \ {x}) \ {y}]
    <3>6. f[x] \in Nat /\ f[y] \in Nat /\ left \in Nat /\ g[T \ {y}] = f[x] + left /\ g[T \ {x}] = f[y] + left
        BY <3>2, <3>3, <3>4, <3>5
    <3> HIDE DEF left
    <3> QED BY <2>2, <3>6
  <2> QED BY <2>3, <2>4
<1>2. SUBSET S \subseteq P
  <2>1. \A T \in SUBSET S : (\A x \in T : T \ {x} \in P) => T \in P
      BY <1>1
  <2> HIDE DEF P
  <2> QED BY <2>1, OneMore
<1> QED BY <1>2 DEF AddsInAnyOrder

\* Of smaller values there is a smaller sum.
LEMMA AddsMonotonically ==
    ASSUME NEW S, IsFiniteSet(S), NEW f \in [S -> Nat], NEW e \in [S -> Nat],
           NEW g, Adds(g, f, SUBSET S), NEW h, Adds(h, e, SUBSET S),
           NEW U \in SUBSET S, \A x \in U : f[x] <= e[x]
    PROVE  g[U] <= h[U]
<1> DEFINE P == {T \in SUBSET U : g[T] <= h[T]}
<1>1. ASSUME NEW T \in SUBSET U, \A x \in T : T \ {x} \in P
      PROVE  T \in P
  <2>1. T \in SUBSET S
      OBVIOUS
  <2>2. CASE T = {}
    <3>1. g[T] = 0
        BY <2>2, NothingAddsToZero
    <3>2. h[T] = 0
        BY <2>2, NothingAddsToZero
    <3> QED BY <3>1, <3>2
  <2>3. CASE T # {}
    <3>1. PICK x \in T : TRUE
        BY <2>3
    <3>2. g[T] = f[x] + g[T \ {x}]
        BY <2>1, InAnyOrder DEF AddsInAnyOrder
    <3>3. h[T] = e[x] + h[T \ {x}]
        BY <2>1, InAnyOrder DEF AddsInAnyOrder
    <3>4. g[T \ {x}] \in Nat
        BY <2>1, PartsAreNatural
    <3>5. h[T \ {x}] \in Nat
        BY <2>1, PartsAreNatural
    <3>6. f[x] \in Nat /\ e[x] \in Nat /\ f[x] <= e[x] /\ g[T \ {x}] <= h[T \ {x}]
        BY <1>1, <2>1
    <3> QED BY <3>2, <3>3, <3>4, <3>5, <3>6
  <2> QED BY <2>2, <2>3
<1>2. SUBSET U \subseteq P
  <2> HIDE DEF P
  <2> QED BY <1>1, OneMore, FS_Subset
<1> QED BY <1>2

LEMMA SumIsNatural ==
    ASSUME NEW S, IsFiniteSet(S), NEW f \in [S -> Nat]
    PROVE  Sum(f) \in Nat
<1>1. PICK g : Adds(g, f, SUBSET S) /\ Sum(f) = g[S]
    BY SumIsAdded
<1> QED BY <1>1, PartsAreNatural

LEMMA SumIsMonotone ==
    ASSUME NEW S, IsFiniteSet(S), NEW f \in [S -> Nat], NEW e \in [S -> Nat], \A x \in S : f[x] <= e[x]
    PROVE  Sum(f) <= Sum(e)
<1>1. PICK g : Adds(g, f, SUBSET S) /\ Sum(f) = g[S]
    BY SumIsAdded
<1>2. PICK h : Adds(h, e, SUBSET S) /\ Sum(e) = h[S]
    BY SumIsAdded
<1> QED BY <1>1, <1>2, AddsMonotonically

\* A change of one value changes the sum by as much.
Changes(e, f, c, n) == e = [f EXCEPT ![c] = n]

LEMMA SumOfChange ==
    ASSUME NEW S, IsFiniteSet(S), NEW f \in [S -> Nat], NEW c \in S, NEW n \in Nat,
           NEW e, Changes(e, f, c, n)
    PROVE  Sum(e) + f[c] = Sum(f) + n
<1>1. e \in [S -> Nat] /\ e[c] = n /\ f[c] \in Nat /\ \A x \in S \ {c} : e[x] = f[x] /\ f[x] \in Nat
    BY DEF Changes
<1>2. PICK g : Adds(g, f, SUBSET S) /\ Sum(f) = g[S]
    BY SumIsAdded
<1>3. PICK h : Adds(h, e, SUBSET S) /\ Sum(e) = h[S]
    BY <1>1, SumIsAdded
<1>4. g[S] = f[c] + g[S \ {c}]
  <2>1. AddsInAnyOrder(g, f, S)
      BY <1>2, InAnyOrder
  <2> QED BY <2>1 DEF AddsInAnyOrder
<1>5. h[S] = n + h[S \ {c}]
  <2>1. AddsInAnyOrder(h, e, S)
      BY <1>1, <1>3, InAnyOrder
  <2> QED BY <2>1, <1>1 DEF AddsInAnyOrder
<1>6. g[S \ {c}] \in Nat
    BY <1>2, PartsAreNatural
<1>7. h[S \ {c}] \in Nat
    BY <1>1, <1>3, PartsAreNatural
<1> S \ {c} \in SUBSET S
    OBVIOUS
<1>8. g[S \ {c}] <= h[S \ {c}]
  <2>1. \A x \in S \ {c} : f[x] <= e[x]
      BY <1>1
  <2> QED BY <2>1, <1>1, <1>2, <1>3, AddsMonotonically
<1>9. h[S \ {c}] <= g[S \ {c}]
  <2>1. \A x \in S \ {c} : e[x] <= f[x]
      BY <1>1
  <2> QED BY <2>1, <1>1, <1>2, <1>3, AddsMonotonically
<1> QED BY <1>1, <1>2, <1>3, <1>4, <1>5, <1>6, <1>7, <1>8, <1>9

\* What is nowhere more than k sums up to no more than k for each.
LEMMA SumIsBounded ==
    ASSUME NEW S, IsFiniteSet(S), NEW k \in Nat, NEW f \in [S -> Nat], \A x \in S : f[x] <= k
    PROVE  Sum(f) <= k * Cardinality(S)
<1> DEFINE e == [x \in S |-> k]
<1>1. e \in [S -> Nat] /\ \A x \in S : e[x] = k
    OBVIOUS
<1> HIDE DEF e
<1>2. PICK h : Adds(h, e, SUBSET S) /\ Sum(e) = h[S]
    BY <1>1, SumIsAdded
<1> DEFINE P == {T \in SUBSET S : h[T] = k * Cardinality(T)}
<1>3. ASSUME NEW T \in SUBSET S, \A x \in T : T \ {x} \in P
      PROVE  T \in P
  <2>1. CASE T = {}
    <3>1. h[T] = 0
        BY <2>1, <1>2, NothingAddsToZero
    <3>2. Cardinality(T) = 0
        BY <2>1, FS_EmptySet
    <3> QED BY <3>1, <3>2
  <2>2. CASE T # {}
    <3>1. PICK x \in T : TRUE
        BY <2>2
    <3>2. h[T] = k + h[T \ {x}]
      <4>1. AddsInAnyOrder(h, e, S)
          BY <1>1, <1>2, InAnyOrder
      <4> QED BY <4>1, <1>1 DEF AddsInAnyOrder
    <3>3. IsFiniteSet(T) /\ Cardinality(T) \in Nat /\ Cardinality(T \ {x}) = Cardinality(T) - 1
        BY FS_Subset, FS_CardinalityType, FS_RemoveElement
    <3>4. h[T \ {x}] = k * (Cardinality(T) - 1)
        BY <1>3, <3>3
    <3>5. k + k * (Cardinality(T) - 1) = k * Cardinality(T)
        BY <3>3
    <3> QED BY <3>2, <3>4, <3>5
  <2> QED BY <2>1, <2>2
<1>4. SUBSET S \subseteq P
  <2> HIDE DEF P
  <2> QED BY <1>3, OneMore
<1>5. Sum(e) = k * Cardinality(S)
    BY <1>2, <1>4
<1>6. Sum(f) <= Sum(e)
    BY <1>1, SumIsMonotone
<1> QED BY <1>5, <1>6

-----------------------------------------------------------------------------
(* TokenBudget: the invariant.                                             *)

RequestRow == [at : {"idle", "asked", "calling", "answered"}, question : SUBSET Questions,
             tries : Nat, tokens : Nat, answers : SUBSET Questions, warned : BOOLEAN]
LoopRow == [at : {"idle", "calling", "answered"}, round : 0 .. Rounds, tokens : 0 .. MaxCost]

TokenTypes ==
    /\ spent \in Nat
    /\ client \in [Clients -> RequestRow]
    /\ agent \in [Agents -> LoopRow]

\* A request pays for no more than one answer to each of its two questions.
PaidFor(r) ==
    /\ IsFiniteSet(r.question)
    /\ r.at = "idle" => r.tokens = 0
    /\ r.at \in {"asked", "calling"} =>
        r.tokens <= MaxCost /\ (Cardinality(r.question) = 1 => r.tokens = 0)
    /\ r.at = "answered" =>
        r.tokens <= 2 * MaxCost /\ (Cardinality(r.question) = 1 => r.tokens <= MaxCost)

TwoAnswersEach == \A c \in Clients : PaidFor(client[c])

\* What a request and a run may still add to the day's tokens, with what they
\* have not committed.
OfRequest(r) == r.tokens + (IF r.at = "calling" THEN MaxCost ELSE 0)
OfLoop(r) ==
    CASE r.at = "idle" -> 0
      [] r.at = "calling" -> MaxCost * (Rounds - r.round + 1)
      [] r.at = "answered" -> r.tokens + MaxCost * (Rounds - r.round)

OfRequests == [c \in Clients |-> OfRequest(client[c])]
OfLoops == [a \in Agents |-> OfLoop(agent[a])]

TokenLimit == Budget - 1 + (2 * MaxCost) * Cardinality(Clients) + (MaxCost * (Rounds + 1)) * Cardinality(Agents)

Foreseen == spent + Sum(OfRequests) + Sum(OfLoops) <= TokenLimit

TokenInv == TokenTypes /\ TwoAnswersEach /\ Foreseen

LEMMA TokenNumbers ==
    /\ MaxCost \in Nat /\ MaxCost >= 1 /\ Budget \in Nat /\ Rounds \in Nat
    /\ Cardinality(Clients) \in Nat /\ Cardinality(Agents) \in Nat
    /\ 2 * MaxCost \in Nat /\ MaxCost * (Rounds + 1) \in Nat
    /\ (2 * MaxCost) * Cardinality(Clients) \in Nat
    /\ (MaxCost * (Rounds + 1)) * Cardinality(Agents) \in Nat
<1>1. /\ MaxCost \in Nat /\ MaxCost >= 1 /\ Budget \in Nat /\ Rounds \in Nat
      /\ Cardinality(Clients) \in Nat /\ Cardinality(Agents) \in Nat
    BY TokenAssumption, FS_CardinalityType
<1>2. 2 * MaxCost \in Nat /\ MaxCost * (Rounds + 1) \in Nat
    BY <1>1
<1>3. \A m, n \in Nat : m * n \in Nat
    OBVIOUS
<1> QED BY <1>1, <1>2, <1>3

LEMMA RoundsCost ==
    ASSUME NEW r \in 0 .. Rounds
    PROVE  /\ MaxCost * (Rounds - r) \in Nat
           /\ MaxCost * (Rounds - r + 1) \in Nat
           /\ MaxCost * (Rounds - r + 1) = MaxCost + MaxCost * (Rounds - r)
           /\ MaxCost * (Rounds - r + 1) <= MaxCost * (Rounds + 1)
<1>1. MaxCost \in Nat /\ Rounds - r \in Nat /\ r \in Nat /\ Rounds = (Rounds - r) + r
    BY TokenNumbers
<1>2. \A m, n, k \in Nat : /\ m * n \in Nat /\ m * (n + 1) \in Nat /\ m * (n + 1) = m + m * n
                           /\ m * (n + 1) <= m * ((n + k) + 1)
  <2> SUFFICES ASSUME NEW m \in Nat, NEW n \in Nat, NEW k \in Nat
               PROVE  /\ m * n \in Nat /\ m * (n + 1) \in Nat /\ m * (n + 1) = m + m * n
                      /\ m * (n + 1) <= m * ((n + k) + 1)
      OBVIOUS
  <2>1. m * n \in Nat /\ m * k \in Nat
      OBVIOUS
  <2>2. m * (n + 1) = m + m * n /\ m * ((n + k) + 1) = m + m * n + m * k
      OBVIOUS
  <2> QED BY <2>1, <2>2
<1> QED BY <1>1, <1>2

LEMMA RequestCost ==
    ASSUME NEW r \in RequestRow, PaidFor(r)
    PROVE  OfRequest(r) \in Nat /\ OfRequest(r) <= 2 * MaxCost
<1>1. r.tokens \in Nat /\ r.at \in {"idle", "asked", "calling", "answered"}
    BY DEF RequestRow
<1>2. /\ r.at = "idle" => r.tokens = 0
      /\ r.at \in {"asked", "calling"} => r.tokens <= MaxCost
      /\ r.at = "answered" => r.tokens <= 2 * MaxCost
    BY DEF PaidFor
<1> QED BY <1>1, <1>2, TokenNumbers DEF OfRequest

LEMMA LoopCost ==
    ASSUME NEW r \in LoopRow
    PROVE  OfLoop(r) \in Nat /\ OfLoop(r) <= MaxCost * (Rounds + 1)
<1>1. r.tokens \in 0 .. MaxCost /\ r.round \in 0 .. Rounds /\ r.at \in {"idle", "calling", "answered"}
    BY DEF LoopRow
<1> QED BY <1>1, RoundsCost, TokenNumbers DEF OfLoop

LEMMA WhatMayBeAdded ==
    ASSUME TokenTypes, TwoAnswersEach
    PROVE  /\ OfRequests \in [Clients -> Nat]
           /\ \A c \in Clients : OfRequests[c] <= 2 * MaxCost
           /\ OfLoops \in [Agents -> Nat]
           /\ \A a \in Agents : OfLoops[a] <= MaxCost * (Rounds + 1)
<1>1. \A c \in Clients : OfRequest(client[c]) \in Nat /\ OfRequest(client[c]) <= 2 * MaxCost
    BY RequestCost DEF TokenTypes, TwoAnswersEach
<1>2. \A a \in Agents : OfLoop(agent[a]) \in Nat /\ OfLoop(agent[a]) <= MaxCost * (Rounds + 1)
    BY LoopCost DEF TokenTypes
<1>3. OfRequests \in [Clients -> Nat] /\ \A c \in Clients : OfRequests[c] = OfRequest(client[c])
    BY <1>1 DEF OfRequests
<1>4. OfLoops \in [Agents -> Nat] /\ \A a \in Agents : OfLoops[a] = OfLoop(agent[a])
    BY <1>2 DEF OfLoops
<1> QED BY <1>1, <1>2, <1>3, <1>4

LEMMA SumsAreBounded ==
    ASSUME TokenTypes, TwoAnswersEach
    PROVE  /\ Sum(OfRequests) \in Nat /\ Sum(OfRequests) <= (2 * MaxCost) * Cardinality(Clients)
           /\ Sum(OfLoops) \in Nat /\ Sum(OfLoops) <= (MaxCost * (Rounds + 1)) * Cardinality(Agents)
<1>1. IsFiniteSet(Clients) /\ IsFiniteSet(Agents)
    BY TokenAssumption
<1>2. Sum(OfRequests) \in Nat
    BY <1>1, WhatMayBeAdded, SumIsNatural
<1>3. Sum(OfLoops) \in Nat
    BY <1>1, WhatMayBeAdded, SumIsNatural
<1>4. Sum(OfRequests) <= (2 * MaxCost) * Cardinality(Clients)
    BY <1>1, WhatMayBeAdded, TokenNumbers, SumIsBounded
<1>5. Sum(OfLoops) <= (MaxCost * (Rounds + 1)) * Cardinality(Agents)
    BY <1>1, WhatMayBeAdded, TokenNumbers, SumIsBounded
<1> QED BY <1>2, <1>3, <1>4, <1>5

\* The one at work may add what its answer costs; all others their most.
LEMMA OneAmongMany ==
    ASSUME NEW S, IsFiniteSet(S), NEW k \in Nat, NEW f \in [S -> Nat], NEW c \in S, \A x \in S : f[x] <= k
    PROVE  Sum(f) + k <= k * Cardinality(S) + f[c]
<1> DEFINE e == [f EXCEPT ![c] = k]
<1>1. e \in [S -> Nat] /\ Changes(e, f, c, k) /\ \A x \in S : e[x] <= k
    BY DEF Changes
<1> HIDE DEF e
<1>2. Sum(e) + f[c] = Sum(f) + k
    BY <1>1, SumOfChange
<1>3. Sum(e) <= k * Cardinality(S)
    BY <1>1, SumIsBounded
<1>4. Sum(e) \in Nat /\ Sum(f) \in Nat /\ f[c] \in Nat /\ k * Cardinality(S) \in Nat
  <2>1. Sum(e) \in Nat
      BY <1>1, SumIsNatural
  <2>2. Sum(f) \in Nat
      BY SumIsNatural
  <2>3. Cardinality(S) \in Nat /\ \A m, n \in Nat : m * n \in Nat
      BY FS_CardinalityType
  <2> QED BY <2>1, <2>2, <2>3
<1> QED BY <1>2, <1>3, <1>4

\* A step of one request.
LEMMA RequestMoves ==
    ASSUME TokenInv, NEW c \in Clients, NEW r \in RequestRow, PaidFor(r),
           client' = [client EXCEPT ![c] = r], UNCHANGED agent, spent' \in Nat,
           \/ spent' + OfRequest(r) <= spent + OfRequest(client[c])
           \/ spent' = spent /\ spent + OfRequest(r) <= Budget - 1 + MaxCost
    PROVE  TokenInv'
<1> USE DEF TokenInv
<1>1. TokenTypes' /\ TwoAnswersEach'
  <2>1. client' \in [Clients -> RequestRow]
      BY DEF TokenTypes
  <2>2. client'[c] = r /\ \A d \in Clients \ {c} : client'[d] = client[d]
      BY DEF TokenTypes
  <2> QED BY <2>1, <2>2 DEF TokenTypes, TwoAnswersEach
<1>2. OfRequests' = [OfRequests EXCEPT ![c] = OfRequest(r)] /\ OfLoops' = OfLoops
    BY DEF OfRequests, OfLoops, TokenTypes
<1>3. /\ OfRequests \in [Clients -> Nat] /\ OfRequests[c] = OfRequest(client[c])
      /\ OfRequests' \in [Clients -> Nat] /\ OfRequests'[c] = OfRequest(r)
      /\ \A d \in Clients : OfRequests'[d] <= 2 * MaxCost
  <2>1. OfRequests \in [Clients -> Nat] /\ OfRequests[c] = OfRequest(client[c])
      BY WhatMayBeAdded DEF OfRequests
  <2>2. OfRequest(r) \in Nat /\ OfRequest(r) <= 2 * MaxCost
      BY RequestCost
  <2>3. \A d \in Clients : OfRequests[d] <= 2 * MaxCost
      BY WhatMayBeAdded
  <2> QED BY <2>1, <2>2, <2>3, <1>2
<1>4. /\ Sum(OfRequests) \in Nat
      /\ Sum(OfLoops) \in Nat /\ Sum(OfLoops) <= (MaxCost * (Rounds + 1)) * Cardinality(Agents)
    BY SumsAreBounded
<1>5. Sum(OfRequests') \in Nat /\ Sum(OfLoops') = Sum(OfLoops)
    BY <1>2, <1>3, TokenAssumption, SumIsNatural
<1>6. Sum(OfRequests') + OfRequest(client[c]) = Sum(OfRequests) + OfRequest(r)
  <2>1. Changes(OfRequests', OfRequests, c, OfRequest(r)) /\ OfRequest(r) \in Nat
      BY <1>2, <1>3 DEF Changes
  <2> QED BY <2>1, <1>3, TokenAssumption, SumOfChange
<1>7. Sum(OfRequests') + 2 * MaxCost <= (2 * MaxCost) * Cardinality(Clients) + OfRequest(r)
    BY <1>3, TokenNumbers, TokenAssumption, OneAmongMany
<1>8. spent \in Nat /\ OfRequest(r) \in Nat /\ OfRequest(client[c]) \in Nat
    BY <1>3 DEF TokenTypes
<1>9. spent' + Sum(OfRequests') + Sum(OfLoops') <= TokenLimit
  <2>1. spent + Sum(OfRequests) + Sum(OfLoops) <= TokenLimit
      BY DEF Foreseen
  <2>2. CASE spent' + OfRequest(r) <= spent + OfRequest(client[c])
      BY <2>1, <2>2, <1>4, <1>5, <1>6, <1>8, TokenNumbers DEF TokenLimit
  <2>3. CASE spent' = spent /\ spent + OfRequest(r) <= Budget - 1 + MaxCost
      BY <2>3, <1>4, <1>5, <1>7, <1>8, TokenNumbers DEF TokenLimit
  <2> QED BY <2>2, <2>3
<1>10. TokenLimit' = TokenLimit
    BY DEF TokenLimit
<1> QED BY <1>1, <1>9, <1>10 DEF Foreseen

\* A step of one run.
LEMMA LoopMoves ==
    ASSUME TokenInv, NEW a \in Agents, NEW r \in LoopRow,
           agent' = [agent EXCEPT ![a] = r], UNCHANGED client, spent' \in Nat,
           \/ spent' + OfLoop(r) <= spent + OfLoop(agent[a])
           \/ spent' = spent /\ spent <= Budget - 1
    PROVE  TokenInv'
<1> USE DEF TokenInv
<1>1. TokenTypes' /\ TwoAnswersEach'
  <2>1. agent' \in [Agents -> LoopRow]
      BY DEF TokenTypes
  <2> QED BY <2>1 DEF TokenTypes, TwoAnswersEach
<1>2. OfLoops' = [OfLoops EXCEPT ![a] = OfLoop(r)] /\ OfRequests' = OfRequests
    BY DEF OfRequests, OfLoops, TokenTypes
<1>3. /\ OfLoops \in [Agents -> Nat] /\ OfLoops[a] = OfLoop(agent[a])
      /\ OfLoops' \in [Agents -> Nat] /\ OfLoops'[a] = OfLoop(r)
      /\ OfLoop(r) <= MaxCost * (Rounds + 1)
      /\ \A b \in Agents : OfLoops'[b] <= MaxCost * (Rounds + 1)
  <2>1. OfLoops \in [Agents -> Nat] /\ OfLoops[a] = OfLoop(agent[a])
      BY WhatMayBeAdded DEF OfLoops
  <2>2. OfLoop(r) \in Nat /\ OfLoop(r) <= MaxCost * (Rounds + 1)
      BY LoopCost
  <2>3. \A b \in Agents : OfLoops[b] <= MaxCost * (Rounds + 1)
      BY WhatMayBeAdded
  <2> QED BY <2>1, <2>2, <2>3, <1>2
<1>4. /\ Sum(OfLoops) \in Nat
      /\ Sum(OfRequests) \in Nat /\ Sum(OfRequests) <= (2 * MaxCost) * Cardinality(Clients)
    BY SumsAreBounded
<1>5. Sum(OfLoops') \in Nat /\ Sum(OfRequests') = Sum(OfRequests)
    BY <1>2, <1>3, TokenAssumption, SumIsNatural
<1>6. Sum(OfLoops') + OfLoop(agent[a]) = Sum(OfLoops) + OfLoop(r)
  <2>1. Changes(OfLoops', OfLoops, a, OfLoop(r)) /\ OfLoop(r) \in Nat
      BY <1>2, <1>3 DEF Changes
  <2> QED BY <2>1, <1>3, TokenAssumption, SumOfChange
<1>7. Sum(OfLoops') <= (MaxCost * (Rounds + 1)) * Cardinality(Agents)
    BY <1>3, TokenNumbers, TokenAssumption, SumIsBounded
<1>8. spent \in Nat /\ OfLoop(r) \in Nat /\ OfLoop(agent[a]) \in Nat
    BY <1>3 DEF TokenTypes
<1>9. spent' + Sum(OfRequests') + Sum(OfLoops') <= TokenLimit
  <2>1. spent + Sum(OfRequests) + Sum(OfLoops) <= TokenLimit
      BY DEF Foreseen
  <2>2. CASE spent' + OfLoop(r) <= spent + OfLoop(agent[a])
      BY <2>1, <2>2, <1>4, <1>5, <1>6, <1>8, TokenNumbers DEF TokenLimit
  <2>3. CASE spent' = spent /\ spent <= Budget - 1
      BY <2>3, <1>4, <1>5, <1>7, <1>8, TokenNumbers DEF TokenLimit
  <2> QED BY <2>2, <2>3
<1>10. TokenLimit' = TokenLimit
    BY DEF TokenLimit
<1> QED BY <1>1, <1>9, <1>10 DEF Foreseen

LEMMA RowsOfRequests ==
    ASSUME TokenInv, NEW c \in Clients
    PROVE  /\ client[c] \in RequestRow /\ PaidFor(client[c]) /\ spent \in Nat
           /\ client[c].at \in {"idle", "asked", "calling", "answered"}
           /\ client[c].tokens \in Nat /\ client[c].tries \in Nat
           /\ client[c].question \subseteq Questions /\ client[c].answers \subseteq Questions
           /\ client[c].warned \in BOOLEAN
<1>1. client[c] \in RequestRow /\ PaidFor(client[c]) /\ spent \in Nat
    BY DEF TokenInv, TokenTypes, TwoAnswersEach
<1> QED BY <1>1 DEF RequestRow

LEMMA RowsOfLoops ==
    ASSUME TokenInv, NEW a \in Agents
    PROVE  /\ agent[a] \in LoopRow /\ spent \in Nat
           /\ agent[a].at \in {"idle", "calling", "answered"}
           /\ agent[a].round \in 0 .. Rounds /\ agent[a].tokens \in 0 .. MaxCost
BY DEF TokenInv, TokenTypes, LoopRow

LEMMA TokenStarts ==
    ASSUME TokenInit
    PROVE  TokenInv
<1>1. IdleClient \in RequestRow /\ PaidFor(IdleClient) /\ OfRequest(IdleClient) = 0
    BY FS_EmptySet DEF IdleClient, RequestRow, PaidFor, OfRequest
<1>2. IdleAgent \in LoopRow /\ OfLoop(IdleAgent) = 0
    BY TokenNumbers DEF IdleAgent, LoopRow, OfLoop
<1>3. TokenTypes
    BY <1>1, <1>2 DEF TokenInit, TokenTypes
<1>4. TwoAnswersEach
    BY <1>1 DEF TokenInit, TwoAnswersEach
<1>5. OfRequests \in [Clients -> Nat] /\ \A c \in Clients : OfRequests[c] <= 0
    BY <1>1 DEF TokenInit, OfRequests
<1>6. OfLoops \in [Agents -> Nat] /\ \A a \in Agents : OfLoops[a] <= 0
    BY <1>2 DEF TokenInit, OfLoops
<1>7. Sum(OfRequests) <= 0 * Cardinality(Clients)
    BY <1>5, TokenAssumption, SumIsBounded
<1>8. Sum(OfLoops) <= 0 * Cardinality(Agents)
    BY <1>6, TokenAssumption, SumIsBounded
<1>9. Sum(OfRequests) \in Nat /\ Sum(OfLoops) \in Nat
    BY <1>3, <1>4, SumsAreBounded
<1>10. Cardinality(Clients) >= 1
  <2>1. Cardinality(Clients) # 0
      BY TokenAssumption, FS_EmptySet
  <2> QED BY <2>1, TokenNumbers
<1>11. (2 * MaxCost) * Cardinality(Clients) >= 2
  <2>1. \A m, n \in Nat : m >= 1 /\ n >= 1 => (2 * m) * n >= 2
    <3> SUFFICES ASSUME NEW m \in Nat, NEW n \in Nat, m >= 1, n >= 1
                 PROVE  (2 * m) * n >= 2
        OBVIOUS
    <3>1. PICK k \in Nat, l \in Nat : m = k + 1 /\ n = l + 1
      <4>1. m - 1 \in Nat /\ n - 1 \in Nat /\ m = (m - 1) + 1 /\ n = (n - 1) + 1
          OBVIOUS
      <4> QED BY <4>1
    <3>2. k * l \in Nat
        OBVIOUS
    <3>3. (2 * m) * n = 2 * (k * l) + 2 * k + 2 * l + 2
        BY <3>1
    <3> QED BY <3>2, <3>3
  <2> QED BY <2>1, <1>10, TokenNumbers
<1>12. Foreseen
  <2>1. spent = 0
      BY DEF TokenInit
  <2> QED BY <2>1, <1>7, <1>8, <1>9, <1>11, TokenNumbers DEF Foreseen, TokenLimit
<1> QED BY <1>3, <1>4, <1>12 DEF TokenInv

LEMMA TokenStep ==
    ASSUME TokenInv, [TokenNext]_tokenVars
    PROVE  TokenInv'
<1>1. ASSUME NEW c \in Clients, NEW q \in Questions, Request(c, q)
      PROVE  TokenInv'
  <2> DEFINE r == [client[c] EXCEPT !.at = "asked", !.question = {q}]
  <2>1. /\ client' = [client EXCEPT ![c] = r] /\ client[c].at = "idle"
        /\ spent' = spent /\ UNCHANGED agent
      BY <1>1 DEF Request
  <2>2. r \in RequestRow /\ r.at = "asked" /\ r.question = {q} /\ r.tokens = client[c].tokens
      BY RowsOfRequests DEF RequestRow
  <2>3. client[c].tokens = 0 /\ OfRequest(r) = OfRequest(client[c])
      BY <2>1, <2>2, RowsOfRequests DEF PaidFor, OfRequest
  <2>4. PaidFor(r)
    <3>1. IsFiniteSet({q})
        BY FS_Singleton
    <3> HIDE DEF r
    <3> QED BY <3>1, <2>2, <2>3, TokenNumbers DEF PaidFor
  <2>5. OfRequest(r) \in Nat
      BY <2>2, <2>4, RequestCost
  <2> HIDE DEF r
  <2>6. spent' \in Nat /\ spent' + OfRequest(r) <= spent + OfRequest(client[c])
      BY <2>1, <2>3, <2>5, RowsOfRequests
  <2> QED BY <2>1, <2>2, <2>4, <2>6, RequestMoves
<1>2. ASSUME NEW c \in Clients, NEW q \in Questions, AskAgain(c, q)
      PROVE  TokenInv'
  <2> DEFINE r == [client[c] EXCEPT !.at = "asked", !.question = @ \cup {q}]
  <2>1. /\ client' = [client EXCEPT ![c] = r] /\ client[c].at = "answered"
        /\ q \notin client[c].question /\ Cardinality(client[c].question) = 1
        /\ spent' = spent /\ UNCHANGED agent
    <3>1. client' = [client EXCEPT ![c] = r]
        BY <1>2 DEF AskAgain
    <3> QED BY <3>1, <1>2 DEF AskAgain
  <2>2. /\ r \in RequestRow /\ r.at = "asked" /\ r.question = client[c].question \cup {q}
        /\ r.tokens = client[c].tokens
      BY RowsOfRequests DEF RequestRow
  <2>3. client[c].tokens <= MaxCost /\ IsFiniteSet(client[c].question)
      BY <2>1, RowsOfRequests DEF PaidFor
  <2>4. IsFiniteSet(r.question) /\ Cardinality(r.question) = 2
      BY <2>1, <2>2, <2>3, FS_AddElement
  <2>5. PaidFor(r)
      BY <2>2, <2>3, <2>4 DEF PaidFor
  <2>6. OfRequest(r) = OfRequest(client[c])
      BY <2>1, <2>2, RowsOfRequests DEF OfRequest
  <2>7. OfRequest(r) \in Nat
      BY <2>2, <2>5, RequestCost
  <2> HIDE DEF r
  <2>8. spent' \in Nat /\ spent' + OfRequest(r) <= spent + OfRequest(client[c])
      BY <2>1, <2>6, <2>7, RowsOfRequests
  <2> QED BY <2>1, <2>2, <2>5, <2>8, RequestMoves
<1>3. ASSUME NEW c \in Clients, Replay(c)
      PROVE  TokenInv'
  <2> DEFINE r == [client[c] EXCEPT !.at = "answered"]
  <2>1. /\ client' = [client EXCEPT ![c] = r] /\ client[c].at = "asked"
        /\ spent' = spent /\ UNCHANGED agent
      BY <1>3 DEF Replay
  <2>2. /\ r \in RequestRow /\ r.at = "answered" /\ r.question = client[c].question
        /\ r.tokens = client[c].tokens
      BY RowsOfRequests DEF RequestRow
  <2>3. PaidFor(r)
      BY <2>1, <2>2, RowsOfRequests, TokenNumbers DEF PaidFor
  <2>4. OfRequest(r) = OfRequest(client[c])
      BY <2>1, <2>2, RowsOfRequests DEF OfRequest
  <2>5. OfRequest(r) \in Nat
      BY <2>2, <2>3, RequestCost
  <2> HIDE DEF r
  <2>6. spent' \in Nat /\ spent' + OfRequest(r) <= spent + OfRequest(client[c])
      BY <2>1, <2>4, <2>5, RowsOfRequests
  <2> QED BY <2>1, <2>2, <2>3, <2>6, RequestMoves
<1>4. ASSUME NEW c \in Clients, CheckBudget(c)
      PROVE  TokenInv'
  <2> DEFINE r == [client[c] EXCEPT !.at = IF HasBudget(Seen(c)) THEN "calling" ELSE "answered",
                                    !.tries = 0, !.warned = @ \/ Warns(c)]
  <2>1. /\ client' = [client EXCEPT ![c] = r] /\ client[c].at = "asked"
        /\ spent' = spent /\ UNCHANGED agent
    <3>1. client' = [client EXCEPT ![c] = r]
        BY <1>4 DEF CheckBudget
    <3> HIDE DEF r
    <3> QED BY <3>1, <1>4 DEF CheckBudget
  <2>2. /\ r \in RequestRow /\ r.question = client[c].question /\ r.tokens = client[c].tokens
        /\ r.at = IF HasBudget(Seen(c)) THEN "calling" ELSE "answered"
      BY RowsOfRequests DEF RequestRow
  <2>3. PaidFor(r)
      BY <2>1, <2>2, RowsOfRequests, TokenNumbers DEF PaidFor
  <2> HIDE DEF r
  <2>4. CASE HasBudget(Seen(c))
    <3>1. OfRequest(r) = client[c].tokens + MaxCost
        BY <2>2, <2>4 DEF OfRequest
    <3>2. spent + client[c].tokens < Budget
        BY <2>4 DEF HasBudget, Seen
    <3>3. spent + OfRequest(r) <= Budget - 1 + MaxCost
        BY <3>1, <3>2, RowsOfRequests, TokenNumbers
    <3> QED BY <3>3, <2>1, <2>2, <2>3, RowsOfRequests, RequestMoves
  <2>5. CASE ~HasBudget(Seen(c))
    <3>1. OfRequest(r) = OfRequest(client[c]) /\ OfRequest(r) \in Nat
        BY <2>1, <2>2, <2>5, RowsOfRequests DEF OfRequest
    <3>2. spent' \in Nat /\ spent' + OfRequest(r) <= spent + OfRequest(client[c])
        BY <2>1, <3>1, RowsOfRequests
    <3> QED BY <3>2, <2>1, <2>2, <2>3, RequestMoves
  <2> QED BY <2>4, <2>5
<1>5. ASSUME NEW c \in Clients, CallModel(c)
      PROVE  TokenInv'
  <2>1. client[c].at = "calling" /\ spent' = spent /\ UNCHANGED agent
      BY <1>5 DEF CallModel
  <2>2. /\ client[c].tokens \in Nat /\ client[c].tokens <= MaxCost /\ IsFiniteSet(client[c].question)
        /\ Cardinality(client[c].question) = 1 => client[c].tokens = 0
        /\ OfRequest(client[c]) = client[c].tokens + MaxCost
      BY <2>1, RowsOfRequests DEF PaidFor, OfRequest
  <2>3. ASSUME NEW cost \in 0 .. MaxCost, NEW r \in RequestRow, client' = [client EXCEPT ![c] = r],
               r.at = "answered", r.question = client[c].question, r.tokens = client[c].tokens + cost
        PROVE  TokenInv'
    <3>1. PaidFor(r)
        BY <2>2, <2>3, TokenNumbers DEF PaidFor
    <3>2. OfRequest(r) = client[c].tokens + cost
        BY <2>2, <2>3, TokenNumbers DEF OfRequest
    <3>3. spent' + OfRequest(r) <= spent + OfRequest(client[c])
        BY <2>1, <2>2, <3>2, RowsOfRequests, TokenNumbers
    <3> QED BY <2>1, <2>3, <3>1, <3>3, RowsOfRequests, RequestMoves
  <2>4. ASSUME NEW cost \in 1 .. MaxCost,
               client' = [client EXCEPT ![c] = [[client[c] EXCEPT !.at = "answered"]
                            EXCEPT !.tokens = @ + cost, !.answers = @ \cup client[c].question]]
        PROVE  TokenInv'
    <3> DEFINE r == [[client[c] EXCEPT !.at = "answered"]
                      EXCEPT !.tokens = @ + cost, !.answers = @ \cup client[c].question]
    <3>1. /\ r \in RequestRow /\ r.at = "answered" /\ r.question = client[c].question
          /\ r.tokens = client[c].tokens + cost
      <4>1. client[c].tokens + cost \in Nat /\ client[c].answers \cup client[c].question \in SUBSET Questions
          BY RowsOfRequests, TokenNumbers
      <4>2. client[c] \in RequestRow
          BY RowsOfRequests
      <4> QED BY <4>1, <4>2 DEF RequestRow
    <3>2. client' = [client EXCEPT ![c] = r] /\ cost \in 0 .. MaxCost
        BY <2>4, TokenNumbers
    <3> HIDE DEF r
    <3> QED BY <2>3, <3>1, <3>2
  <2>5. ASSUME NEW cost \in 1 .. MaxCost,
               client' = [client EXCEPT ![c] = [[client[c] EXCEPT !.at = "answered"] EXCEPT !.tokens = @ + cost]]
        PROVE  TokenInv'
    <3> DEFINE r == [[client[c] EXCEPT !.at = "answered"] EXCEPT !.tokens = @ + cost]
    <3>1. /\ r \in RequestRow /\ r.at = "answered" /\ r.question = client[c].question
          /\ r.tokens = client[c].tokens + cost
      <4>1. client[c].tokens + cost \in Nat /\ client[c].answers \cup client[c].question \in SUBSET Questions
          BY RowsOfRequests, TokenNumbers
      <4>2. client[c] \in RequestRow
          BY RowsOfRequests
      <4> QED BY <4>1, <4>2 DEF RequestRow
    <3>2. client' = [client EXCEPT ![c] = r] /\ cost \in 0 .. MaxCost
        BY <2>5, TokenNumbers
    <3> HIDE DEF r
    <3> QED BY <2>3, <3>1, <3>2
  <2>6. ASSUME client' = [client EXCEPT ![c] = [client[c] EXCEPT !.at = "answered"]]
        PROVE  TokenInv'
    <3> DEFINE r == [client[c] EXCEPT !.at = "answered"]
    <3>1. /\ r \in RequestRow /\ r.at = "answered" /\ r.question = client[c].question
          /\ r.tokens = client[c].tokens + 0
        BY RowsOfRequests DEF RequestRow
    <3>2. client' = [client EXCEPT ![c] = r] /\ 0 \in 0 .. MaxCost
        BY <2>6, TokenNumbers
    <3> HIDE DEF r
    <3> QED BY <2>3, <3>1, <3>2
  <2>7. ASSUME client' = [client EXCEPT ![c] = [client[c] EXCEPT !.tries = @ + 1]]
        PROVE  TokenInv'
    <3> DEFINE r == [client[c] EXCEPT !.tries = @ + 1]
    <3>1. /\ r \in RequestRow /\ r.at = client[c].at /\ r.question = client[c].question
          /\ r.tokens = client[c].tokens
        BY RowsOfRequests DEF RequestRow
    <3>2. PaidFor(r) /\ OfRequest(r) = OfRequest(client[c])
        BY <3>1, RowsOfRequests DEF PaidFor, OfRequest
    <3>3. OfRequest(r) \in Nat
        BY <3>1, <3>2, RequestCost
    <3>4. client' = [client EXCEPT ![c] = r]
        BY <2>7
    <3> HIDE DEF r
    <3>5. spent' \in Nat /\ spent' + OfRequest(r) <= spent + OfRequest(client[c])
        BY <2>1, <3>2, <3>3, RowsOfRequests
    <3> QED BY <2>1, <3>1, <3>2, <3>4, <3>5, RequestMoves
  <2> QED BY <1>5, <2>4, <2>5, <2>6, <2>7 DEF CallModel
<1>6. ASSUME NEW c \in Clients, CommitRequest(c) \/ RollBack(c)
      PROVE  TokenInv'
  <2>1. /\ client' = [client EXCEPT ![c] = IdleClient] /\ client[c].at = "answered"
        /\ spent' = spent + client[c].tokens \/ spent' = spent
        /\ UNCHANGED agent
      BY <1>6 DEF CommitRequest, RollBack
  <2>2. IdleClient \in RequestRow /\ PaidFor(IdleClient) /\ OfRequest(IdleClient) = 0
      BY FS_EmptySet DEF IdleClient, RequestRow, PaidFor, OfRequest
  <2>3. OfRequest(client[c]) = client[c].tokens
      BY <2>1, RowsOfRequests DEF OfRequest
  <2>4. spent' \in Nat /\ spent' + OfRequest(IdleClient) <= spent + OfRequest(client[c])
      BY <2>1, <2>2, <2>3, RowsOfRequests
  <2> QED BY <2>1, <2>2, <2>4, RequestMoves
<1>7. ASSUME NEW a \in Agents, StartAgent(a)
      PROVE  TokenInv'
  <2> DEFINE r == [IdleAgent EXCEPT !.at = "calling"]
  <2>1. agent' = [agent EXCEPT ![a] = r] /\ spent < Budget /\ spent' = spent /\ UNCHANGED client
      BY <1>7 DEF StartAgent, HasBudget
  <2>2. r \in LoopRow
      BY TokenNumbers DEF IdleAgent, LoopRow
  <2>3. spent <= Budget - 1
      BY <2>1, RowsOfLoops, TokenNumbers
  <2> HIDE DEF r
  <2> QED BY <2>1, <2>2, <2>3, RowsOfLoops, LoopMoves
<1>8. ASSUME NEW a \in Agents, CallAgent(a)
      PROVE  TokenInv'
  <2>1. agent[a].at = "calling" /\ spent' = spent /\ UNCHANGED client
      BY <1>8 DEF CallAgent
  <2>2. OfLoop(agent[a]) = MaxCost * (Rounds - agent[a].round + 1)
      BY <2>1 DEF OfLoop
  <2>3. ASSUME NEW cost \in 1 .. MaxCost,
               agent' = [agent EXCEPT ![a] = [@ EXCEPT !.at = "answered", !.tokens = cost]]
        PROVE  TokenInv'
    <3> DEFINE r == [agent[a] EXCEPT !.at = "answered", !.tokens = cost]
    <3>1. r \in LoopRow /\ r.at = "answered" /\ r.tokens = cost /\ r.round = agent[a].round
      <4>1. cost \in 0 .. MaxCost /\ agent[a] \in LoopRow
          BY RowsOfLoops, TokenNumbers
      <4> QED BY <4>1 DEF LoopRow
    <3>2. OfLoop(r) = cost + MaxCost * (Rounds - agent[a].round)
        BY <3>1 DEF OfLoop
    <3>3. spent' + OfLoop(r) <= spent + OfLoop(agent[a])
        BY <2>1, <2>2, <3>2, RowsOfLoops, RoundsCost, TokenNumbers
    <3>4. agent' = [agent EXCEPT ![a] = r]
        BY <2>3
    <3> HIDE DEF r
    <3> QED BY <2>1, <3>1, <3>3, <3>4, RowsOfLoops, LoopMoves
  <2>4. ASSUME agent' = [agent EXCEPT ![a] = IdleAgent]
        PROVE  TokenInv'
    <3>1. IdleAgent \in LoopRow /\ OfLoop(IdleAgent) = 0
        BY TokenNumbers DEF IdleAgent, LoopRow, OfLoop
    <3>2. spent' + OfLoop(IdleAgent) <= spent + OfLoop(agent[a])
        BY <2>1, <2>2, <3>1, RowsOfLoops, RoundsCost
    <3> QED BY <2>1, <2>4, <3>1, <3>2, RowsOfLoops, LoopMoves
  <2> QED BY <1>8, <2>3, <2>4 DEF CallAgent
<1>9. ASSUME NEW a \in Agents, RecordAgent(a)
      PROVE  TokenInv'
  <2>1. agent[a].at = "answered" /\ spent' = spent + agent[a].tokens /\ UNCHANGED client
      BY <1>9 DEF RecordAgent
  <2>2. OfLoop(agent[a]) = agent[a].tokens + MaxCost * (Rounds - agent[a].round)
      BY <2>1 DEF OfLoop
  <2>3. spent' \in Nat
      BY <2>1, RowsOfLoops
  <2>4. ASSUME agent' = [agent EXCEPT ![a] = IdleAgent]
        PROVE  TokenInv'
    <3>1. IdleAgent \in LoopRow /\ OfLoop(IdleAgent) = 0
        BY TokenNumbers DEF IdleAgent, LoopRow, OfLoop
    <3>2. spent' + OfLoop(IdleAgent) <= spent + OfLoop(agent[a])
        BY <2>1, <2>2, <3>1, RowsOfLoops, RoundsCost
    <3> QED BY <2>1, <2>3, <2>4, <3>1, <3>2, LoopMoves
  <2>5. ASSUME RoundsLeft(a),
               agent' = [agent EXCEPT ![a] = [at |-> "calling", round |-> @.round + 1, tokens |-> 0]]
        PROVE  TokenInv'
    <3> DEFINE r == [at |-> "calling", round |-> agent[a].round + 1, tokens |-> 0]
    <3>1. agent[a].round + 1 \in 0 .. Rounds
        BY <2>5, RowsOfLoops, TokenNumbers DEF RoundsLeft
    <3>2. r \in LoopRow /\ r.at = "calling" /\ r.round = agent[a].round + 1
        BY <3>1, TokenNumbers DEF LoopRow
    <3>3. OfLoop(r) = MaxCost * (Rounds - agent[a].round)
      <4>1. OfLoop(r) = MaxCost * (Rounds - (agent[a].round + 1) + 1)
          BY <3>2 DEF OfLoop
      <4>2. Rounds - (agent[a].round + 1) + 1 = Rounds - agent[a].round
          BY RowsOfLoops, TokenNumbers
      <4> QED BY <4>1, <4>2
    <3>4. spent' + OfLoop(r) <= spent + OfLoop(agent[a])
        BY <2>1, <2>2, <3>3, RowsOfLoops, RoundsCost
    <3>5. agent' = [agent EXCEPT ![a] = r]
        BY <2>5
    <3> HIDE DEF r
    <3> QED BY <2>1, <2>3, <3>2, <3>4, <3>5, LoopMoves
  <2> QED BY <1>9, <2>4, <2>5 DEF RecordAgent
<1>10. ASSUME DayEnds \/ UNCHANGED tokenVars
       PROVE  TokenInv'
  <2>1. UNCHANGED <<client, agent>> /\ (spent' = 0 \/ spent' = spent) /\ spent \in Nat
      BY <1>10 DEF DayEnds, tokenVars, TokenInv, TokenTypes
  <2>2. OfRequests' = OfRequests /\ OfLoops' = OfLoops /\ TokenLimit' = TokenLimit
      BY <2>1 DEF OfRequests, OfLoops, TokenLimit
  <2>3. TokenTypes' /\ TwoAnswersEach'
      BY <2>1 DEF TokenInv, TokenTypes, TwoAnswersEach
  <2>4. Sum(OfRequests) \in Nat /\ Sum(OfLoops) \in Nat
      BY SumsAreBounded DEF TokenInv
  <2>5. TokenLimit \in Int /\ spent + Sum(OfRequests) + Sum(OfLoops) <= TokenLimit
      BY TokenNumbers DEF TokenLimit, TokenInv, Foreseen
  <2>6. spent' + Sum(OfRequests') + Sum(OfLoops') <= TokenLimit'
      BY <2>1, <2>2, <2>4, <2>5
  <2> QED BY <2>3, <2>6 DEF TokenInv, Foreseen
<1> QED BY <1>1, <1>2, <1>3, <1>4, <1>5, <1>6, <1>7, <1>8, <1>9, <1>10 DEF TokenNext

\* The tokens a day costs, committed or about to be, pass the budget by no more
\* than what everybody at work may add after a check that let them call.
THEOREM SpendingIsBounded == TokenSpec => []OverspendIsBounded
<1>1. TokenInit => TokenInv
    BY TokenStarts
<1>2. TokenInv /\ [TokenNext]_tokenVars => TokenInv'
    BY TokenStep
<1>3. TokenInv => OverspendIsBounded
  <2> SUFFICES ASSUME TokenInv PROVE OverspendIsBounded
      OBVIOUS
  <2> DEFINE kept == [c \in Clients |-> client[c].tokens]
  <2>1. kept \in [Clients -> Nat] /\ \A c \in Clients : kept[c] <= OfRequests[c]
      BY RowsOfRequests, TokenNumbers DEF OfRequests, OfRequest
  <2>2. OfRequests \in [Clients -> Nat]
      BY WhatMayBeAdded DEF TokenInv
  <2> HIDE DEF kept
  <2>3. Sum(kept) <= Sum(OfRequests)
      BY <2>1, <2>2, TokenAssumption, SumIsMonotone
  <2>4. Sum(kept) \in Nat
      BY <2>1, TokenAssumption, SumIsNatural
  <2>5. spent \in Nat /\ Sum(OfRequests) \in Nat /\ Sum(OfLoops) \in Nat
      BY SumsAreBounded DEF TokenInv, TokenTypes
  <2>6. spent + Sum(OfRequests) + Sum(OfLoops) <= TokenLimit
      BY DEF TokenInv, Foreseen
  <2>7. TokenLimit = Budget - 1 + MaxCost * (2 * Cardinality(Clients) + (Rounds + 1) * Cardinality(Agents))
    <3>1. \A m, r, x, y \in Nat : m * (2 * x + (r + 1) * y) = (2 * m) * x + (m * (r + 1)) * y
        OBVIOUS
    <3> QED BY <3>1, TokenNumbers DEF TokenLimit
  <2>8. TokenLimit \in Int
      BY TokenNumbers DEF TokenLimit
  <2>9. spent + Sum(kept) <= TokenLimit
      BY <2>3, <2>4, <2>5, <2>6, <2>8
  <2> QED BY <2>7, <2>9 DEF OverspendIsBounded, kept
<1> QED BY <1>1, <1>2, <1>3, PTL DEF TokenSpec
=============================================================================
