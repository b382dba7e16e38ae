----------------------------- MODULE AgentCart -----------------------------
(***************************************************************************)
(* What the assistant keeps of a basket between the messages of a chat     *)
(* (services/sales_agent.py AgentCart, saved in conversations.agent_state): *)
(* the quote it got, the order it prepared, where it goes; and the button  *)
(* that takes them to a confirmation (bot/handlers/ai_chat.py).            *)
(*                                                                         *)
(* The shared basket is the customer's own at the same time, so the copy   *)
(* is refreshed before each tool, when a job starts and when it ends, and  *)
(* its prices are dropped when the revision moved.  Each tool commits the  *)
(* copy with a receipt; a job that is started again repeats its receipts.  *)
(* Messages, leases and cancelled answers are those of Conversation, the   *)
(* confirmation itself is that of CheckoutDialogue.                        *)
(***************************************************************************)
EXTENDS Naturals, Sequences

CONSTANTS
  Districts,
  None,
  MaxRevision,   \* bound: the revisions of the basket
  MaxJobs,       \* bound: questions to the assistant
  MaxCalls,      \* bound: tool calls of one job
  MaxGeneration, \* bound: generations of the conversation
  MaxCrashes     \* bound: runs that die

VARIABLES
  basket,    \* the shared cart: its revision, and whether it has lines
  home,      \* users.district_id
  chat,      \* status and generation of the conversation
  state,     \* conversations.agent_state
  job,       \* the last question: its number, status and receipts
  run,       \* what process_conversation holds in memory for it
  reply,     \* the kind of the newest answer, "checkout" with a button under it
  card,      \* the confirmation a pressed button put into the dialogue
  crashes

vars == <<basket, home, chat, state, job, run, reply, card, crashes>>

\* Revisions are numbered from 1; 0 stands for none.
NoQuote == [basket |-> 0, district |-> None]
Empty == [quote |-> NoQuote, order |-> None, revision |-> 0, quoteRevision |-> 0, district |-> None]
Off == [on |-> FALSE, generation |-> 0, cart |-> Empty, calls |-> 0, touched |-> FALSE]
NoCard == [quote |-> NoQuote, revision |-> 0, district |-> None]

Init ==
  /\ basket \in [revision : {1}, full : BOOLEAN]
  /\ home \in Districts \cup {None}
  /\ chat = [status |-> "ai", generation |-> 1]
  /\ state = Empty
  /\ job = [id |-> 0, status |-> "completed", receipts |-> <<>>]
  /\ run = Off
  /\ reply = "none"
  /\ card = NoCard
  /\ crashes = 0

Unpriced(cart) == [cart EXCEPT !.quote = NoQuote, !.order = None]

\* Mutant of Refreshed: only a basket that is gone takes its prices with it.
RefreshedIfGone(cart, live) ==
  IF cart.revision = live.revision \/ live.full THEN [cart EXCEPT !.revision = live.revision]
  ELSE [Unpriced(cart) EXCEPT !.quoteRevision = 0, !.revision = live.revision]

\* AgentCart.refresh_from_live.  The lines are those of the revision.
Refreshed(cart, live) ==
  IF cart.revision = live.revision THEN cart
  ELSE [Unpriced(cart) EXCEPT !.quoteRevision = 0, !.revision = live.revision]

Destination(cart) == IF cart.district # None THEN cart.district ELSE home

-----------------------------------------------------------------------------
(* Tools: the copy they leave, and what they do to the basket              *)

Calls == [tool : {"set_item", "get_quote", "prepare", "submit", "other"}, district : {None}]
           \cup [tool : {"set_district"}, district : Districts]

Stateful(call) == call.tool # "other"

Changed(full) == [revision |-> basket.revision + 1, full |-> full]

Effect(cart, live) == [cart |-> cart, basket |-> live]

\* _quote: a price, nothing on offer (the order stays), or a price to be agreed.
Quotes(cart) ==
  IF ~basket.full THEN {Effect(cart, basket)}
  ELSE {Effect([cart EXCEPT !.quote = [basket |-> basket.revision, district |-> Destination(cart)],
                            !.quoteRevision = basket.revision], basket),
        Effect([cart EXCEPT !.quote = NoQuote, !.quoteRevision = basket.revision], basket),
        Effect(Unpriced(cart), basket)}

\* _set_district: an existing quote is stale the moment the destination moves.
Moved(cart, d) ==
  IF cart.district = d THEN cart ELSE [Unpriced(cart) EXCEPT !.district = d]

Prepared(cart) ==
  IF cart.quote = NoQuote \/ Destination(cart) = None THEN cart
  ELSE [cart EXCEPT !.order = Destination(cart)]

SetItem(cart, full) ==
  Effect([Unpriced(cart) EXCEPT !.revision = basket.revision + 1], Changed(full))

\* submit_sales_request empties the basket and asks for an administrator.
Submitted(cart) ==
  IF ~basket.full THEN Effect(cart, basket)
  ELSE Effect([Unpriced(cart) EXCEPT !.revision = basket.revision + 1], Changed(FALSE))

\* search_products and delivery_options read the catalogue and the copy only.
Found(cart) == Effect(cart, basket)

Effects(call, cart) ==
  CASE call.tool = "set_item" -> {SetItem(cart, full) : full \in BOOLEAN}
    [] call.tool = "get_quote" -> Quotes(cart)
    [] call.tool = "set_district" -> {Effect(Moved(cart, call.district), basket)}
    [] call.tool = "prepare" -> {Effect(Prepared(cart), basket)}
    [] call.tool = "submit" -> {Submitted(cart)}
    [] call.tool = "other" -> {Found(cart)}

-----------------------------------------------------------------------------
(* A job of the assistant: process_conversation and DurableTools.run       *)

Ask ==
  /\ job.status # "running" /\ job.id < MaxJobs
  /\ chat.status # "human"
  /\ job' = [id |-> job.id + 1, status |-> "running", receipts |-> <<>>]
  /\ UNCHANGED <<basket, home, chat, state, run, reply, card, crashes>>

Start ==
  /\ ~run.on /\ job.status = "running" /\ chat.status # "human"
  /\ LET cart == Refreshed(state, basket) IN
     /\ state' = cart
     /\ run' = [on |-> TRUE, generation |-> chat.generation, cart |-> cart, calls |-> 0,
                touched |-> FALSE]
  /\ UNCHANGED <<basket, home, chat, job, reply, card, crashes>>

Fenced == chat.status = "human" \/ chat.generation # run.generation

Called(call, cart) ==
  run' = [run EXCEPT !.cart = cart, !.calls = @ + 1, !.touched = @ \/ Stateful(call)]

CallTool(call) ==
  /\ run.on /\ ~Fenced
  /\ run.calls < MaxCalls /\ run.calls >= Len(job.receipts)
  /\ LET cart == Refreshed(run.cart, basket) IN
     \E effect \in Effects(call, cart) :
       /\ effect.basket.revision <= MaxRevision
       /\ basket' = effect.basket
       /\ state' = effect.cart
       /\ job' = [job EXCEPT !.receipts = Append(@, [call |-> call, cart |-> effect.cart])]
       /\ chat' = [chat EXCEPT !.status =
                     IF call.tool = "submit" /\ basket.full THEN "waiting" ELSE @]
       /\ Called(call, effect.cart)
  /\ UNCHANGED <<home, reply, card, crashes>>

\* The customer was faster: set_item finds another revision, nothing is recorded.
CallTooLate ==
  /\ run.on /\ ~Fenced
  /\ run.calls < MaxCalls /\ run.calls >= Len(job.receipts)
  /\ basket.revision < MaxRevision
  /\ \E full \in BOOLEAN :
       /\ basket' = Changed(full)
       /\ Called([tool |-> "set_item", district |-> None], Refreshed(run.cart, basket'))
  /\ UNCHANGED <<home, chat, state, job, reply, card, crashes>>

\* A call repeated after a restart is answered with its receipt.  The
\* destination is not taken from it.
Repeated(cart, receipt, last) ==
  IF last.cart.revision # basket.revision THEN Refreshed(cart, basket)
  ELSE [receipt.cart EXCEPT !.district = cart.district]

RepeatCall ==
  /\ run.on /\ ~Fenced
  /\ run.calls < Len(job.receipts)
  /\ LET receipt == job.receipts[run.calls + 1] IN
     Called(receipt.call, Repeated(run.cart, receipt, job.receipts[Len(job.receipts)]))
  /\ UNCHANGED <<basket, home, chat, state, job, reply, card, crashes>>

\* The receipts of a job that is over are never read again.
\* The model answers; or it fails, a tool is fenced or a repeated call differs
\* from its receipt, and the catalogue search answers instead.
Finish(answered) ==
  /\ run.on
  /\ run' = Off
  /\ IF Fenced
     THEN /\ job' = [job EXCEPT !.status = IF @ = "running" THEN "cancelled" ELSE @,
                                  !.receipts = <<>>]
          /\ UNCHANGED <<state, reply>>
     ELSE LET cart == Refreshed(IF answered THEN run.cart ELSE Unpriced(run.cart), basket) IN
          /\ state' = cart
          /\ job' = [job EXCEPT !.status = "completed", !.receipts = <<>>]
          /\ reply' = IF cart.order # None /\ cart.quote # NoQuote THEN "checkout" ELSE "ai"
  /\ UNCHANGED <<basket, home, chat, card, crashes>>

Crash ==
  /\ run.on /\ crashes < MaxCrashes
  /\ crashes' = crashes + 1
  /\ run' = Off
  /\ UNCHANGED <<basket, home, chat, state, job, reply, card>>

-----------------------------------------------------------------------------
(* The customer and the administrator                                      *)

ChangeBasket ==
  /\ basket.revision < MaxRevision
  /\ \E full \in BOOLEAN : basket' = Changed(full)
  /\ UNCHANGED <<home, chat, state, job, run, reply, card, crashes>>

\* An address made the default, or the profile page.
MoveHome(d) ==
  /\ home' = d
  /\ UNCHANGED <<basket, chat, state, job, run, reply, card, crashes>>

\* _start_reregistration: district, basket and the assistant's copy are emptied.
StartOver ==
  /\ basket.full => basket.revision < MaxRevision
  /\ basket' = IF basket.full THEN Changed(FALSE) ELSE basket
  /\ home' = None
  /\ state' = Empty
  /\ card' = NoCard
  /\ UNCHANGED <<chat, job, run, reply, crashes>>

\* Handoff, claim, close, and the way back to the assistant.
Handover ==
  /\ \/ chat.status = "ai" /\ chat' = [chat EXCEPT !.status = "waiting"]
     \/ /\ chat.status \in {"waiting", "human"} /\ chat.generation < MaxGeneration
        /\ \E status \in {"human", "ai"} \ {chat.status} :
             chat' = [status |-> status, generation |-> chat.generation + 1]
  /\ job' = IF chat'.status = "human" /\ job.status = "running"
            THEN [job EXCEPT !.status = "human", !.receipts = <<>>] ELSE job
  /\ UNCHANGED <<basket, home, state, run, reply, card, crashes>>

\* Mutant of Pressable: the quote may be one of an earlier basket.
PressableAtAnyRevision == chat.status = "ai" /\ state.order # None /\ state.quote # NoQuote

\* prepare_confirmation goes by the copy of now, whichever answer the button is under.
Pressable ==
  /\ chat.status = "ai"
  /\ state.order # None /\ state.quote # NoQuote
  /\ state.quoteRevision = basket.revision

Press ==
  /\ reply = "checkout"
  /\ Pressable
  /\ card' = [quote |-> state.quote, revision |-> basket.revision, district |-> state.order]
  /\ UNCHANGED <<basket, home, chat, state, job, run, reply, crashes>>

Next ==
  \/ Ask \/ Start \/ CallTooLate \/ RepeatCall \/ Crash
  \/ \E call \in Calls : CallTool(call)
  \/ \E answered \in BOOLEAN : Finish(answered)
  \/ ChangeBasket \/ StartOver \/ Handover \/ Press
  \/ \E d \in Districts : MoveHome(d)

Spec == Init /\ [][Next]_vars

-----------------------------------------------------------------------------
Places == Districts \cup {None}
Quote == [basket : Nat, district : Places]
Cart == [quote : Quote, order : Places, revision : Nat, quoteRevision : Nat, district : Places]
Job == [id : Nat, status : {"running", "completed", "cancelled", "human"},
        receipts : Seq([call : Calls, cart : Cart])]
Run == [on : BOOLEAN, generation : Nat, cart : Cart, calls : Nat, touched : BOOLEAN]

TypeOK ==
  /\ basket \in [revision : Nat, full : BOOLEAN]
  /\ home \in Places
  /\ chat \in [status : {"ai", "waiting", "human"}, generation : Nat]
  /\ state \in Cart
  /\ job \in Job
  /\ run \in Run
  /\ reply \in {"none", "ai", "checkout"}
  /\ card \in [quote : Quote, revision : Nat, district : Places]
  /\ crashes \in Nat

Copies == {state, run.cart} \cup {job.receipts[i].cart : i \in DOMAIN job.receipts}

\* A copy that has a price has it for the basket it stands for, whatever the
\* customer did to that basket meanwhile and however often the job was started
\* again (AgentCart.refresh_from_live, DurableTools.run).
QuoteIsOfTheBasket ==
  \A cart \in Copies : cart.quote # NoQuote =>
    cart.quote.basket = cart.revision /\ cart.quoteRevision = cart.revision

\* What a customer is asked to confirm is priced on the basket that the order
\* will be checked against (prepare_confirmation).
CardIsOfTheBasket == card.quote.basket = card.revision

\* Prices go with the basket they were asked for, in the agent's copies and on
\* the card with the button (sales_agent.py, ai_chat.py).
PricesStayWithTheBasket == QuoteIsOfTheBasket /\ CardIsOfTheBasket

=============================================================================
