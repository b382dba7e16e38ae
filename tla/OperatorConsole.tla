--------------------------- MODULE OperatorConsole ---------------------------
(***************************************************************************)
(* An administrator's inbox page (web/storefront/static/operator.js): the  *)
(* thread of one chat at a time, read while a poll, a click and a reply    *)
(* each wait for an answer of the server that may be late, lost or about a *)
(* chat left long ago.                                                     *)
(*                                                                         *)
(* An async function is cut at its awaits.  A call is a record in `calls`: *)
(* sent, then answered by the server in one transaction, then delivered to *)
(* the page, or lost on either way.  The page is single-threaded, so what  *)
(* runs between two awaits is one action.                                  *)
(*                                                                         *)
(* The list of chats beside the thread, an expired session (the page just  *)
(* stops) and layout are left out.                                         *)
(***************************************************************************)
EXTENDS Naturals, Sequences, FiniteSets

CONSTANTS
  Chats,
  Nobody,
  Me, Other,      \* the administrator at this page, and a colleague
  Held,           \* bound: the chats this administrator has claimed at first
  Asking,         \* bound: the chats whose customers send requests that need a price
  PageSize,       \* TRANSCRIPT_PAGE_SIZE, and conversation_history_limit
  MaxMessages,    \* bound, per chat: its messages
  MaxTyped,       \* bound: replies typed
  MaxPending,     \* bound: calls under way at once
  MaxLost         \* bound: calls that fail

ASSUME ConsoleAssumption == Nobody \notin Chats /\ PageSize \in Nat

VARIABLES
  server,   \* per chat: its conversations row, messages, open request, read mark
  page,     \* the variables of the script
  calls,    \* calls under way
  typed,    \* the chat open while each reply was typed
  shown,    \* how many messages of each chat this administrator has seen
  lost      \* calls failed so far

consoleVars == <<server, page, calls, typed, shown, lost>>

FromOthers == [text |-> 0, id |-> 0]      \* a message this page did not send

\* What a thread reads: `mine` and `waiting` of the row, and how far it goes.
Unknown == [found |-> FALSE, last |-> 0, mine |-> FALSE, waiting |-> FALSE, open |-> FALSE]

ConsoleInit ==
  /\ server = [c \in Chats |->
                [status |-> IF c \in Held THEN "human" ELSE "waiting",
                 operator |-> IF c \in Held THEN Me ELSE Nobody,
                 said |-> <<>>, open |-> FALSE, read |-> 0]]
  /\ page = [selected |-> Nobody, request |-> 0, cursor |-> 0, log |-> <<>>,
             latest |-> FALSE, owned |-> FALSE, waiting |-> FALSE, open |-> FALSE,
             refreshing |-> FALSE, busy |-> FALSE, atLatest |-> TRUE, input |-> 0,
             drafts |-> [c \in Chats |-> 0], marked |-> [c \in Chats |-> 0],
             attempts |-> [c \in Chats |-> FromOthers], ids |-> 0]
  /\ calls = {}
  /\ typed = <<>>
  /\ shown = [c \in Chats |-> 0]
  /\ lost = 0

Call(op, c, request, after, caller) ==
  [op |-> op, chat |-> c, request |-> request, after |-> after, message |-> FromOthers,
   caller |-> caller, answered |-> FALSE, answer |-> Unknown]

\* threadRequest only ever grows and is only compared with that of a call
\* under way, so the next one is a number that no such call carries.
NextRequest == CHOOSE n \in 1 .. Cardinality(calls) + 1 : \A call \in calls : call.request # n

Least(a, b) == IF a < b THEN a ELSE b
Most(a, b) == IF a > b THEN a ELSE b

-----------------------------------------------------------------------------
(* Functions of the page: each gives the page after it and the calls made  *)

\* markReadIfAllowed: what is on the screen up to its last message.
Readable(p) ==
  /\ p.selected \in Chats
  /\ p.latest
  /\ p.atLatest
  /\ ~p.busy
  /\ ~p.refreshing
  /\ p.cursor > p.marked[p.selected]

MarkRead(p) ==
  IF Readable(p)
  THEN [page |-> [p EXCEPT !.marked[p.selected] = p.cursor],
        calls |-> {[Call("read", p.selected, 0, p.cursor, "free")
                      EXCEPT !.answer.last = p.marked[p.selected]]}]
  ELSE [page |-> p, calls |-> {}]

\* refreshThread, up to its first await.
RefreshThread(p, caller) ==
  IF p.selected = Nobody THEN [page |-> p, calls |-> {}]
  ELSE [page |-> [p EXCEPT !.request = NextRequest, !.refreshing = TRUE],
        calls |-> {Call("thread", p.selected, NextRequest, p.cursor, caller)}]

\* The end of what a button started: the page takes input again.
Released(p, caller) ==
  IF caller = "busy" THEN MarkRead([p EXCEPT !.busy = FALSE]) ELSE [page |-> p, calls |-> {}]

SavedDraft(p) ==
  IF p.selected = Nobody THEN p ELSE [p EXCEPT !.drafts[p.selected] = p.input]

\* Leaving the open chat for c, or for none.  selectedVersion changes only
\* together with threadRequest, which stands for both.
Opened(p, c) ==
  [SavedDraft(p) EXCEPT !.selected = c, !.request = 0, !.cursor = 0,
                        !.log = <<>>, !.latest = FALSE, !.owned = FALSE, !.waiting = FALSE,
                        !.open = FALSE]

ClearThread(p) == [Opened(p, Nobody) EXCEPT !.refreshing = FALSE]

\* appendMessages of the page of the chat's transcript after a sequence number.
Appended(p, c, after, last) ==
  LET upTo == Least(last, after + PageSize)
      new == {n \in after + 1 .. upTo : <<c, n>> \notin {p.log[i] : i \in DOMAIN p.log}}
      RowOf[n \in after .. upTo] ==
        IF n = after THEN <<>>
        ELSE IF n \in new THEN Append(RowOf[n - 1], <<c, n>>) ELSE RowOf[n - 1]
  IN [p EXCEPT !.log = @ \o RowOf[upTo], !.cursor = Most(@, upTo),
               !.latest = upTo - after < PageSize]

\* With the thread at its end all of its messages have been on the screen.
Watch(p) ==
  shown' = IF ~p.atLatest THEN shown
           ELSE [c \in Chats |-> Most(shown[c], Cardinality({i \in DOMAIN p.log : p.log[i][1] = c}))]

Do(step) == page' = step.page /\ calls' = calls \cup step.calls

Room == Cardinality(calls) < MaxPending

-----------------------------------------------------------------------------
(* The administrator                                                       *)

Choose(c) ==
  /\ Room
  /\ ~page.busy
  /\ LET p == [Opened(page, c) EXCEPT !.atLatest = TRUE] IN
     Do(RefreshThread([p EXCEPT !.input = p.drafts[c]], "free"))
  /\ UNCHANGED <<server, typed, shown, lost>>

\* The reply box is there for a chat that is one's own and nothing is busy with.
Type ==
  /\ page.selected # Nobody /\ page.owned /\ ~page.busy
  /\ Len(typed) < MaxTyped
  /\ typed' = Append(typed, page.selected)
  /\ page' = SavedDraft([page EXCEPT !.input = Len(typed) + 1])
  /\ UNCHANGED <<server, calls, shown, lost>>

\* Mutant of Attempt: every press of the button is a request of its own.
NewAttempt(c) == [text |-> page.input, id |-> page.ids + 1]

\* A reply that may have arrived is sent again under the same request id.
Attempt(c) ==
  IF page.attempts[c].text = page.input THEN page.attempts[c]
  ELSE [text |-> page.input, id |-> page.ids + 1]

Send ==
  /\ Room
  /\ page.selected # Nobody /\ page.owned /\ ~page.busy /\ page.input # 0
  /\ LET c == page.selected
         message == Attempt(c)
     IN /\ page' = [page EXCEPT !.attempts[c] = message, !.ids = Most(@, message.id),
                                !.busy = TRUE]
        /\ calls' = calls \cup {[Call("send", c, 0, 0, "busy") EXCEPT !.message = message]}
  /\ UNCHANGED <<server, typed, shown, lost>>

PressButton(op) ==
  /\ Room
  /\ page.selected # Nobody /\ ~page.busy
  /\ CASE op = "claim" -> page.waiting
       [] op = "close" -> page.owned /\ ~page.open
       [] op = "resolve" -> page.owned /\ page.open
  /\ page' = [page EXCEPT !.busy = TRUE]
  /\ calls' = calls \cup {Call(op, page.selected, 0, 0, "busy")}
  /\ UNCHANGED <<server, typed, shown, lost>>

Scroll ==
  /\ page.log # <<>>
  /\ Room
  /\ LET p == [page EXCEPT !.atLatest = ~@] IN
     /\ Do(IF p.atLatest THEN MarkRead(p) ELSE [page |-> p, calls |-> {}])
     /\ Watch(p)
  /\ UNCHANGED <<server, typed, lost>>

\* One poll at a time; the retry button, shown after a failure, does the same.
Poll ==
  /\ Room
  /\ page.selected # Nobody
  /\ ~\E call \in calls : call.op \in {"thread", "requests"} /\ call.caller = "poll"
  /\ Do(RefreshThread(page, "poll"))
  /\ UNCHANGED <<server, typed, shown, lost>>

-----------------------------------------------------------------------------
(* The server: one transaction under the lock of the conversation          *)

Mine(c) == server[c].status = "human" /\ server[c].operator = Me

Say(row, message) == [row EXCEPT !.said = Append(@, message)]

\* What the page uses of an answer.
Answer(call, done) ==
  LET c == call.chat IN
  CASE done /\ call.op = "thread" ->
         [Unknown EXCEPT !.found = TRUE, !.last = Len(server[c].said), !.mine = Mine(c),
                         !.waiting = server[c].status = "waiting"]
    [] done /\ call.op = "requests" -> [Unknown EXCEPT !.found = TRUE, !.open = server[c].open]
    [] OTHER -> [call.answer EXCEPT !.found = done]

\* A request id that is known is answered with the message it made.
Replied(c, message) ==
  IF message \in {server[c].said[i] : i \in DOMAIN server[c].said} THEN server[c]
  ELSE Say(server[c], message)

Allowed(call) ==
  LET row == server[call.chat] IN
  CASE call.op \in {"thread", "requests"} -> row.status # "ai"
    [] call.op = "read" -> TRUE
    [] call.op = "send" -> Mine(call.chat)
    [] call.op = "claim" -> Mine(call.chat) \/ row.status = "waiting"
    [] call.op = "close" -> Mine(call.chat) /\ ~row.open
    [] call.op = "resolve" -> Mine(call.chat) /\ row.open

After(call) ==
  LET c == call.chat
      row == server[c]
  IN
  CASE call.op \in {"thread", "requests"} -> row
    [] call.op = "read" -> [row EXCEPT !.read = Most(@, Least(call.after, Len(row.said)))]
    [] call.op = "send" -> Replied(c, call.message)
    [] call.op = "claim" -> IF Mine(c) THEN row
                            ELSE Say([row EXCEPT !.status = "human", !.operator = Me], FromOthers)
    [] call.op = "close" -> Say([row EXCEPT !.status = "ai", !.operator = Nobody], FromOthers)
    [] call.op = "resolve" -> Say([row EXCEPT !.open = FALSE], FromOthers)

Serve(call) ==
  /\ ~call.answered
  /\ LET done == Allowed(call)
         new == IF done THEN After(call) ELSE server[call.chat]
     IN /\ Len(new.said) <= MaxMessages[call.chat]
        /\ server' = [server EXCEPT ![call.chat] = new]
        /\ calls' = (calls \ {call}) \cup
             {[call EXCEPT !.answered = TRUE, !.answer = Answer(call, done)]}
  /\ UNCHANGED <<page, typed, shown, lost>>

\* The customer writes, sends a request that needs a price, or asks again for a person.
CustomerWrites(c) ==
  /\ Len(server[c].said) < MaxMessages[c]
  /\ \E asks \in BOOLEAN :
     LET row == Say(server[c], FromOthers) IN
     /\ asks => c \in Asking /\ ~row.open
     /\ server' = [server EXCEPT ![c] =
         [row EXCEPT !.open = row.open \/ asks,
                     !.status = IF asks /\ row.status = "ai" THEN "waiting" ELSE row.status]]
  /\ UNCHANGED <<page, calls, typed, shown, lost>>

ColleagueClaims(c) ==
  /\ server[c].status = "waiting"
  /\ Len(server[c].said) < MaxMessages[c]
  /\ server' = [server EXCEPT ![c] =
       [Say(@, FromOthers) EXCEPT !.status = "human", !.operator = Other]]
  /\ UNCHANGED <<page, calls, typed, shown, lost>>

-----------------------------------------------------------------------------
(* Answers come back                                                       *)

\* Mutant of Current: any answer about the chat that is open.
SameChat(call) == call.chat = page.selected

\* The answer is of the last request made for the chat that is open.
Current(call) ==
  /\ call.chat = page.selected
  /\ call.request = page.request

Drop(call) == calls \ {call}

EndCall(call, step) ==
  LET end == Released(step.page, call.caller) IN
  /\ page' = end.page
  /\ calls' = Drop(call) \cup step.calls \cup end.calls

\* refreshThread from its first await to the one on the sales requests.
ThreadArrives(call) ==
  /\ call.op = "thread" /\ call.answered
  /\ IF ~Current(call) THEN EndCall(call, [page |-> page, calls |-> {}]) /\ UNCHANGED shown
     ELSE IF ~call.answer.found
     THEN EndCall(call, [page |-> ClearThread(page), calls |-> {}]) /\ UNCHANGED shown
     ELSE LET p == [Appended(page, call.chat, call.after, call.answer.last)
                      EXCEPT !.owned = call.answer.mine, !.waiting = call.answer.waiting]
          IN /\ page' = p
             /\ calls' = Drop(call) \cup
                  {Call("requests", call.chat, call.request, 0, call.caller)}
             /\ Watch(p)
  /\ UNCHANGED <<server, typed, lost>>

\* refreshRequests asks only whether the chat is still the open one.
RequestsArrive(call) ==
  /\ call.op = "requests" /\ call.answered
  /\ LET p == IF call.chat = page.selected /\ call.answer.found
              THEN [page EXCEPT !.open = call.answer.open] ELSE page
         still == [p EXCEPT !.refreshing = FALSE]
     IN IF ~Current(call) THEN EndCall(call, [page |-> p, calls |-> {}])
        ELSE IF ~call.answer.found THEN EndCall(call, [page |-> ClearThread(p), calls |-> {}])
        ELSE EndCall(call, MarkRead(still))
  /\ UNCHANGED <<server, typed, shown, lost>>

\* After its own call a button refreshes the thread, and only then is free.
Reread(call, p) ==
  LET step == RefreshThread(p, "busy") IN
  IF step.calls = {} THEN EndCall(call, step)
  ELSE page' = step.page /\ calls' = Drop(call) \cup step.calls

Sent(call) ==
  [page EXCEPT !.attempts[call.chat] = FromOthers, !.drafts[call.chat] = 0,
               !.input = IF page.selected = call.chat THEN 0 ELSE @]

SendArrives(call) ==
  /\ call.op = "send" /\ call.answered
  /\ IF call.answer.found THEN Reread(call, Sent(call))
     ELSE EndCall(call, [page |-> page, calls |-> {}])
  /\ UNCHANGED <<server, typed, shown, lost>>

ButtonArrives(call) ==
  /\ call.op \in {"claim", "close", "resolve"} /\ call.answered
  /\ CASE call.op = "close" /\ call.answer.found ->
            EndCall(call, [page |-> ClearThread(page), calls |-> {}])
       [] call.op = "resolve" /\ ~call.answer.found ->
            EndCall(call, [page |-> page, calls |-> {}])
       [] OTHER -> Reread(call, page)
  /\ UNCHANGED <<server, typed, shown, lost>>

\* A mark that was not recorded is taken back, unless a later one was made.
MarkFails(call) ==
  [page EXCEPT !.marked[call.chat] = IF @ = call.after THEN call.answer.last ELSE @]

ReadArrives(call) ==
  /\ call.op = "read" /\ call.answered
  /\ calls' = Drop(call)
  /\ UNCHANGED <<server, page, typed, shown, lost>>

\* A call times out, before or after the server acted on it.
Lose(call) ==
  /\ lost < MaxLost
  /\ lost' = lost + 1
  /\ CASE call.op = "read" -> page' = MarkFails(call) /\ calls' = Drop(call)
       [] call.op \in {"send", "resolve"} -> EndCall(call, [page |-> page, calls |-> {}])
       [] call.op \in {"claim", "close"} -> Reread(call, page)
       [] call.op \in {"thread", "requests"} ->
            EndCall(call, [page |-> IF Current(call) THEN [page EXCEPT !.refreshing = FALSE]
                                   ELSE page, calls |-> {}])
  /\ UNCHANGED <<server, typed, shown>>

Arrives(call) ==
  ThreadArrives(call) \/ RequestsArrive(call) \/ SendArrives(call)
    \/ ButtonArrives(call) \/ ReadArrives(call)

ConsoleNext ==
  \/ \E c \in Chats : Choose(c) \/ CustomerWrites(c) \/ ColleagueClaims(c)
  \/ Type \/ Send \/ Scroll \/ Poll
  \/ \E op \in {"claim", "close", "resolve"} : PressButton(op)
  \/ \E call \in calls : Serve(call) \/ Arrives(call) \/ Lose(call)

ConsoleSpec == ConsoleInit /\ [][ConsoleNext]_consoleVars

-----------------------------------------------------------------------------

\* Nothing counts as read, here or on the server, that this administrator has
\* not had on the screen (markReadIfAllowed).
ReadWasShown == \A c \in Chats : server[c].read <= shown[c] /\ page.marked[c] <= shown[c]

Mentions(c, text) == {i \in DOMAIN server[c].said : server[c].said[i].text = text}

\* A reply is in no chat but the one it was typed in, and there once, however
\* often its sending failed and the thread was left meanwhile (the submit
\* handler, messageRequests and drafts).
RepliesGoWhereTyped ==
  \A text \in DOMAIN typed : \A c \in Chats :
    Cardinality(Mentions(c, text)) <= (IF c = typed[text] THEN 1 ELSE 0)

=============================================================================
