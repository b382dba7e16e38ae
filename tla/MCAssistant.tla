---------------------------- MODULE MCAssistant ----------------------------
(***************************************************************************)
(* The two who answer in a chat, one of them in each behaviour: the        *)
(* assistant with its copy of the basket (AgentCart), or an administrator  *)
(* at the page of chats (OperatorConsole).  The page's two chats have two  *)
(* messages and one, so the first is longer than a page of the transcript. *)
(***************************************************************************)
EXTENDS AgentCart, OperatorConsole, TLC

CONSTANTS c1, c2

VARIABLE alive

Lengths == c1 :> 2 @@ c2 :> 1

AssistantInit == alive \in {"assistant", "console"} /\ Init /\ ConsoleInit
                   /\ (alive = "console" => ~basket.full /\ home = None)

AssistantNext ==
    /\ UNCHANGED alive
    /\ \/ alive = "assistant" /\ Next /\ UNCHANGED consoleVars
       \/ alive = "console" /\ ConsoleNext /\ UNCHANGED vars

AssistantSpec == AssistantInit /\ [][AssistantNext]_<<alive, vars, consoleVars>>
=============================================================================
