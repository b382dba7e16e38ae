------------------------------ MODULE MCPages ------------------------------
(***************************************************************************)
(* The scripts of two pages, one of them in each behaviour: the login page *)
(* with the challenge it shares with the bot (BotLogin), where a page asks *)
(* again while the server still works on a call it gave up and two         *)
(* accounts open the link; and the customer's chat page (ChatPage).        *)
(***************************************************************************)
EXTENDS BotLogin, ChatPage

VARIABLE alive

PagesInit == alive \in {"login", "chat"} /\ Init /\ ChatInit

PagesNext ==
    /\ UNCHANGED alive
    /\ \/ alive = "login" /\ Next /\ UNCHANGED chatVars
       \/ alive = "chat" /\ ChatNext /\ UNCHANGED vars

\* The fairness of each page, as its module states it, while it is the one alive.
PagesFairness ==
    /\ \A t \in Tabs :
        /\ WF_vars(alive = "login" /\ StopWaiting(t))
        /\ \A kind \in Kinds : WF_vars(alive = "login" /\ CallEnds(t, kind))
        /\ WF_vars(alive = "login" /\ \E call \in calls :
                      call.tab = t /\ call.kind = "complete" /\ Serve(call))
    /\ WF_chatVars(alive = "chat" /\ PollChat)
    /\ WF_chatVars(alive = "chat" /\ \E call \in chatCalls :
                      call.op \in {"history", "jobs"} /\ ServeChat(call))
    /\ WF_chatVars(alive = "chat" /\ \E call \in chatCalls :
                      HistoryArrives(call) \/ JobsArrive(call))

PagesSpec == PagesInit /\ [][PagesNext]_<<alive, vars, chatVars>> /\ PagesFairness

-----------------------------------------------------------------------------
\* The chat page comes to show every message, who answers, and no request as
\* waiting whose question has been dealt with (poll, chat.js), if it is alive.
PageCatchesUp == alive = "chat" => CatchesUp
=============================================================================
