------------------------------ MODULE ChatPage ------------------------------
(***************************************************************************)
(* A customer's chat page (web/storefront/static/chat.js): a transcript    *)
(* kept up to date by polling, questions sent under request ids chosen by  *)
(* the page so that a lost answer can be retried, and reloads in between.  *)
(*                                                                         *)
(* As in OperatorConsole an async function is cut at its awaits and a call *)
(* is sent, acted on by the server, and delivered or lost.  Of the server  *)
(* there is what these calls read and write; Conversation has the rest.    *)
(* An expired session, a hidden tab (both only stop the page) and the      *)
(* product cards are left out.                                             *)
(***************************************************************************)
EXTENDS Integers, Sequences, FiniteSets

CONSTANTS
  Texts,          \* questions the customer has
  NoText,
  PageSize,       \* conversation_history_limit
  MaxIds,         \* bound: request ids the page makes up
  MaxSaid,        \* bound: messages of the chat
  MaxLost,        \* bound: calls that fail
  MaxReloads      \* bound: reloads of the page

ASSUME ChatAssumption == PageSize \in Nat

VARIABLES
  server,      \* the conversation: its status, how many messages, its jobs
  page,        \* the variables of the script
  chatCalls,   \* calls under way
  overlapped,  \* two sends of this page were ever under way at once
  told,        \* the questions whose sending the page reported as done
  lost,
  reloads

chatVars == <<server, page, chatCalls, overlapped, told, lost, reloads>>

Ids == 1 .. MaxIds
NoJob == 0
Unused == [text |-> NoText, status |-> "none", job |-> NoJob]
Final == {"completed", "human", "cancelled"}

\* The page as the browser builds it, with what sessionStorage has for it.
Fresh(stored) ==
  [ready |-> FALSE, restored |-> FALSE, stored |-> stored, log |-> <<>>, cursor |-> 0,
   mode |-> "none", items |-> [i \in Ids |-> Unused], input |-> NoText, submitting |-> FALSE,
   handoff |-> FALSE, polling |-> FALSE]

ChatInit ==
  /\ server = [status |-> "ai", said |-> 0, jobs |-> <<>>]
  /\ page = Fresh([i \in Ids |-> Unused])
  /\ chatCalls = {}
  /\ overlapped = FALSE
  /\ told = {}
  /\ lost = 0
  /\ reloads = 0

ChatCall(op, id) ==
  [op |-> op, id |-> id, text |-> NoText, after |-> 0, gone |-> FALSE, answered |-> FALSE,
   accepted |-> FALSE, last |-> 0, status |-> "none", active |-> {}, jobs |-> <<>>]

Used == {i \in Ids : page.items[i].status # "none" \/ page.stored[i].status # "none"}
          \cup {server.jobs[j].id : j \in DOMAIN server.jobs} \cup {call.id : call \in chatCalls}

Least(a, b) == IF a < b THEN a ELSE b
Most(a, b) == IF a > b THEN a ELSE b

-----------------------------------------------------------------------------
(* Functions of the page                                                   *)

\* addMessages, of the page of the transcript after a sequence number.
Added(p, after, last) ==
  LET upTo == Least(last, after + PageSize)
      first == Most(after, p.cursor)
  IN [p EXCEPT !.log = @ \o [i \in 1 .. Most(upTo - first, 0) |-> first + i],
               !.cursor = Most(@, upTo)]

\* saveRequests: what a later page of this tab gets back.
Saved(items) ==
  [i \in Ids |-> CASE items[i].status \in Final -> Unused
                   [] items[i].status = "sending" -> [items[i] EXCEPT !.status = "unknown"]
                   [] OTHER -> items[i]]

\* restoreRequests, once in the life of a page.
Restored(p) ==
  IF p.restored THEN p
  ELSE [p EXCEPT !.restored = TRUE, !.items = p.stored, !.stored = [i \in Ids |-> Unused]]

ShownBy(p, i) == p.items[i].status \notin Final \cup {"none"}

-----------------------------------------------------------------------------
(* The customer                                                            *)

\* The customer asks a question until the page reports that it was sent.
Enter(text) ==
  /\ page.ready /\ page.input = NoText
  /\ text \notin told
  /\ page' = [page EXCEPT !.input = text]
  /\ UNCHANGED <<server, chatCalls, overlapped, told, lost, reloads>>

\* submitRequest up to its await.
Submitted(p, i) ==
  /\ page' = [p EXCEPT !.submitting = TRUE, !.items[i].status = "sending"]
  /\ chatCalls' = chatCalls \cup {[ChatCall("send", i) EXCEPT !.text = p.items[i].text]}
  /\ overlapped' = (overlapped \/ \E call \in chatCalls : call.op = "send" /\ ~call.gone)
  /\ UNCHANGED <<server, told, lost, reloads>>

\* Mutant of Unresolved: every press of the button is a request of its own.
NoneUnresolved(text) == {}

\* Preserve the original id of an ambiguous send.
Unresolved(text) == {i \in Ids : page.items[i].text = text /\ page.items[i].status = "unknown"}

PressSend ==
  /\ page.ready /\ ~page.submitting /\ page.input # NoText
  /\ IF Unresolved(page.input) # {}
     THEN \E i \in Unresolved(page.input) :
            /\ ~\E call \in chatCalls : call.op = "send" /\ call.id = i /\ ~call.gone
            /\ Submitted(page, i)
     ELSE \E i \in Ids \ Used :
            /\ \A k \in Ids \ Used : i <= k
            /\ Submitted([page EXCEPT !.items[i].text = page.input], i)

\* The retry button of a request whose fate is unknown.
Retry(i) ==
  /\ page.items[i].status = "unknown"
  /\ Submitted(page, i)

AskForOperator ==
  /\ page.ready /\ ~page.handoff /\ page.mode = "ai"
  /\ page' = [page EXCEPT !.handoff = TRUE]
  /\ chatCalls' = chatCalls \cup {ChatCall("handoff", 0)}
  /\ UNCHANGED <<server, overlapped, told, lost, reloads>>

\* Answers to the page that is left are nobody's; the server may yet act on a call.
Reload ==
  /\ reloads < MaxReloads
  /\ reloads' = reloads + 1
  /\ page' = Fresh(IF page.restored THEN Saved(page.items) ELSE page.stored)
  /\ chatCalls' = {[call EXCEPT !.gone = TRUE] :
                 call \in {c \in chatCalls : c.op \in {"send", "handoff"} /\ ~c.answered}}
  /\ UNCHANGED <<server, overlapped, told, lost>>

-----------------------------------------------------------------------------
(* The server                                                              *)

JobOf(id) == {j \in DOMAIN server.jobs : server.jobs[j].id = id}

\* Mutant of Submit: the request id is not looked up.
SubmitAlways(call) ==
  [server EXCEPT !.said = @ + 1,
     !.jobs = Append(@, [id |-> call.id, text |-> call.text, said |-> server.said + 1,
                         status |-> IF server.status = "human" THEN "human" ELSE "pending"])]

\* ConversationService.submit: the job of a known request id is answered again.
Submit(call) == IF JobOf(call.id) # {} THEN server ELSE SubmitAlways(call)

Statuses(of) == [j \in DOMAIN of.jobs |-> of.jobs[j].status]

\* What the page uses of an answer.
WithAnswer(call, accepted, new) ==
  LET reply == [call EXCEPT !.answered = TRUE, !.accepted = accepted] IN
  CASE call.op \in {"history", "handoff"} -> [reply EXCEPT !.last = new.said, !.status = new.status]
    [] call.op = "jobs" /\ call.active = {} -> reply
    [] OTHER -> [reply EXCEPT !.jobs = Statuses(new)]

\* What each call does, and what its answer says of the conversation by then.
ServeChat(call) ==
  /\ ~call.answered
  /\ \E accepted \in IF call.op = "send" THEN BOOLEAN ELSE {TRUE} :   \* 409, 429
     LET new == CASE call.op = "send" /\ accepted -> Submit(call)
                  [] call.op = "handoff" /\ server.status = "ai" ->
                       [server EXCEPT !.status = "waiting", !.said = @ + 1]
                  [] OTHER -> server
     IN /\ new.said <= MaxSaid
        /\ accepted \/ lost < MaxLost
        /\ lost' = IF accepted THEN lost ELSE lost + 1
        /\ server' = new
        /\ chatCalls' = (chatCalls \ {call}) \cup
             (IF call.gone THEN {}
              ELSE {WithAnswer(call, accepted, new)})
  /\ UNCHANGED <<page, overlapped, told, reloads>>

\* The assistant answers a question.
JobEnds(j) ==
  /\ server.jobs[j].status = "pending"
  /\ server.said < MaxSaid
  /\ server' = [server EXCEPT !.jobs[j].status = "completed", !.said = @ + 1]
  /\ UNCHANGED <<page, chatCalls, overlapped, told, lost, reloads>>

\* An administrator takes the conversation, with its open questions, or gives it back.
OperatorActs ==
  /\ server.said < MaxSaid
  /\ \/ /\ server.status = "waiting"
        /\ server' = [server EXCEPT !.status = "human", !.said = @ + 1,
                        !.jobs = [j \in DOMAIN server.jobs |->
                            IF server.jobs[j].status = "pending"
                            THEN [server.jobs[j] EXCEPT !.status = "human"]
                            ELSE server.jobs[j]]]
     \/ /\ server.status = "human"
        /\ server' = [server EXCEPT !.status = "ai", !.said = @ + 1]
  /\ UNCHANGED <<page, chatCalls, overlapped, told, lost, reloads>>

-----------------------------------------------------------------------------
(* Polling, and answers                                                    *)

PollChat ==
  /\ ~page.polling
  /\ page' = [page EXCEPT !.polling = TRUE]
  /\ chatCalls' = chatCalls \cup {[ChatCall("history", 0) EXCEPT !.after = page.cursor]}
  /\ UNCHANGED <<server, overlapped, told, lost, reloads>>

HistoryArrives(call) ==
  /\ call.op = "history" /\ call.answered
  /\ page' = [Restored(Added(page, call.after, call.last)) EXCEPT !.mode = call.status]
  /\ chatCalls' = (chatCalls \ {call}) \cup
       {[ChatCall("jobs", 0) EXCEPT !.active = {i \in Ids : ShownBy(page', i) /\ page'.items[i].job # NoJob}]}
  /\ UNCHANGED <<server, overlapped, told, lost, reloads>>

\* The statuses of the requests shown, read one by one and applied together.
JobsArrive(call) ==
  /\ call.op = "jobs" /\ call.answered
  /\ page' = [page EXCEPT !.ready = TRUE, !.polling = FALSE,
                !.items = [i \in Ids |-> IF i \in call.active
                             THEN [page.items[i] EXCEPT !.status = call.jobs[page.items[i].job]]
                             ELSE page.items[i]]]
  /\ chatCalls' = chatCalls \ {call}
  /\ UNCHANGED <<server, overlapped, told, lost, reloads>>

\* The end of submitRequest.
Settled(p, call, status) ==
  [p EXCEPT !.submitting = FALSE, !.items[call.id].status = status,
            !.input = IF @ = p.items[call.id].text /\ status # "unknown" THEN NoText ELSE @]

SendArrives(call) ==
  /\ call.op = "send" /\ call.answered
  /\ IF call.accepted
     THEN LET j == CHOOSE j \in JobOf(call.id) : TRUE IN
          /\ page' = [Settled(page, call, call.jobs[j]) EXCEPT !.items[call.id].job = j]
          /\ told' = told \cup {page.items[call.id].text}
     ELSE /\ page' = Settled(page, call, "unknown")
          /\ UNCHANGED told
  /\ chatCalls' = chatCalls \ {call}
  /\ UNCHANGED <<server, overlapped, lost, reloads>>

HandoffArrives(call) ==
  /\ call.op = "handoff" /\ call.answered
  /\ page' = [Added(page, 0, call.last) EXCEPT !.mode = call.status, !.handoff = FALSE]
  /\ chatCalls' = chatCalls \ {call}
  /\ UNCHANGED <<server, overlapped, told, lost, reloads>>

\* Mutant of Failed: a poll that fails is the last one.
FailedForGood(call) ==
  CASE call.op = "send" -> Settled(page, call, "unknown")
    [] call.op = "handoff" -> [page EXCEPT !.handoff = FALSE]
    [] OTHER -> page

Failed(call) ==
  CASE call.op = "send" -> Settled(page, call, "unknown")
    [] call.op = "handoff" -> [page EXCEPT !.handoff = FALSE]
    [] call.op = "history" -> [page EXCEPT !.polling = FALSE]
    [] call.op = "jobs" -> [page EXCEPT !.polling = FALSE, !.ready = TRUE]

\* A call times out or the connection breaks, before or after the server acted.
Lose(call) ==
  /\ lost < MaxLost
  /\ lost' = lost + 1
  /\ page' = IF call.gone THEN page ELSE Failed(call)
  /\ chatCalls' = chatCalls \ {call}
  /\ UNCHANGED <<server, overlapped, told, reloads>>

Arrives(call) ==
  HistoryArrives(call) \/ JobsArrive(call) \/ SendArrives(call) \/ HandoffArrives(call)

ChatNext ==
  \/ \E text \in Texts : Enter(text)
  \/ PressSend \/ AskForOperator \/ Reload \/ PollChat \/ OperatorActs
  \/ \E i \in Ids : Retry(i)
  \/ \E j \in DOMAIN server.jobs : JobEnds(j)
  \/ \E call \in chatCalls : ServeChat(call) \/ Arrives(call) \/ Lose(call)

ChatSpec == ChatInit /\ [][ChatNext]_chatVars

\* The server answers, answers arrive, and the timer of the page goes on.
FairChatSpec ==
  /\ ChatSpec
  /\ WF_chatVars(PollChat)
  /\ WF_chatVars(\E call \in chatCalls : call.op \in {"history", "jobs"} /\ ServeChat(call))
  /\ WF_chatVars(\E call \in chatCalls : HistoryArrives(call) \/ JobsArrive(call))

-----------------------------------------------------------------------------

JobsAsking(text) == {j \in DOMAIN server.jobs : server.jobs[j].text = text}

\* A question is asked once, however often its answer is lost and the page
\* reloaded ("Preserve the original ID on an ambiguous send instead of
\* duplicating it", chat.js:361), if its sends never overlapped another's.
AskedOnce == overlapped \/ \A text \in Texts : Cardinality(JobsAsking(text)) <= 1

\* The page comes to show every message, who answers, and no request as
\* waiting whose question has been dealt with (poll).
UpToDate ==
  /\ page.cursor = server.said
  /\ page.mode = server.status
  /\ \A i \in Ids : ShownBy(page, i) /\ page.items[i].job # NoJob /\ page.items[i].status # "sending" =>
       page.items[i].status \in {server.jobs[page.items[i].job].status, "unknown"}

CatchesUp == <>[]UpToDate
=============================================================================
