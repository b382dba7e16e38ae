---------------------------- MODULE TokenBudget ----------------------------
(***************************************************************************)
(* The tokens of one day: who may still call the model, what it costs, and *)
(* who tells the administrators (app/llm/client.py, the loop of            *)
(* app/services/sales_agent.py as DurableAgent runs it,                    *)
(* services/llm_budget_alert.py).                                          *)
(*                                                                         *)
(* A client records its calls in the transaction of the request it serves; *)
(* the agent in a transaction of its own for each.  The model's answers    *)
(* are external: a call may succeed, be refused, or fail, and costs tokens *)
(* only when its answer arrives.                                           *)
(***************************************************************************)
EXTENDS Naturals, FiniteSets, FiniteSetsExt

CONSTANTS
    Clients,    \* requests that use an LLMClient
    Agents,     \* runs of the sales agent
    Questions,  \* prompts: what compute_llm_input_hash tells apart
    MaxCost,    \* tokens of the dearest call
    Budget,     \* settings.llm_daily_token_budget
    WarnAt,     \* tokens at llm_budget_warn_ratio of it
    Retries,    \* LLMClient.max_retries: at most one
    Rounds,     \* settings.agent_max_tool_rounds
    MaxRequests \* bound: requests and chat questions that one process serves

ASSUME TokenAssumption ==
    /\ IsFiniteSet(Clients) /\ Clients # {}
    /\ IsFiniteSet(Agents)
    /\ MaxCost \in Nat \ {0}
    /\ {Budget, Rounds, Retries, MaxRequests} \subseteq Nat

VARIABLES
    spent,    \* committed tokens of the last 24 hours
    answers,  \* questions with a committed, successful call of that time
    warned,   \* there is a committed warning event of that time
    client,   \* each request: what its transaction has added
    agent,    \* each run: its round of the loop
    served    \* requests begun by each client and agent

tokenVars == <<spent, answers, warned, client, agent, served>>

IdleClient == [at |-> "idle", question |-> {}, tries |-> 0, tokens |-> 0, answers |-> {}, warned |-> FALSE]
IdleAgent == [at |-> "idle", round |-> 0, tokens |-> 0]

TokenInit ==
    /\ spent = 0
    /\ answers = {}
    /\ warned = FALSE
    /\ client = [c \in Clients |-> IdleClient]
    /\ agent = [a \in Agents |-> IdleAgent]
    /\ served = [x \in Clients \cup Agents |-> 0]

-----------------------------------------------------------------------------
(* LLMClient.                                                              *)

\* A transaction sees what is committed and what it has added itself.
Seen(c) == spent + client[c].tokens

Request(c, q) ==
    /\ client[c].at = "idle"
    /\ served[c] < MaxRequests
    /\ client' = [client EXCEPT ![c] = [@ EXCEPT !.at = "asked", !.question = {q}]]
    /\ served' = [served EXCEPT ![c] = @ + 1]
    /\ UNCHANGED <<spent, answers, warned, agent>>

\* _get_cached_call: an answer of the same day, whose replay is free.
Replay(c) ==
    /\ client[c].at = "asked"
    /\ client[c].question \subseteq answers \cup client[c].answers
    /\ client' = [client EXCEPT ![c].at = "answered"]
    /\ UNCHANGED <<spent, answers, warned, agent, served>>

\* warn_admins_if_budget_low: sent at once, recorded with the request.
Warns(c) == Seen(c) >= WarnAt /\ ~warned /\ ~client[c].warned

HasBudgetLeft(tokens) == tokens <= Budget
HasBudget(tokens) == tokens < Budget

CheckBudget(c) ==
    /\ client[c].at = "asked"
    /\ ~(client[c].question \subseteq answers \cup client[c].answers)
    /\ client' = [client EXCEPT ![c] = [client[c] EXCEPT !.at = IF HasBudget(Seen(c)) THEN "calling" ELSE "answered",
                                                         !.tries = 0, !.warned = @ \/ Warns(c)]]
    /\ UNCHANGED <<spent, answers, warned, agent, served>>

\* _call_chat_completions.  An answer that is empty or not JSON costs as much
\* as a good one; only a transient failure is tried again, and none costs.
CallModel(c) ==
    LET becomes(r) == client' = [client EXCEPT ![c] = r]
        done == [client[c] EXCEPT !.at = "answered"]
    IN  /\ client[c].at = "calling"
        /\ \/ \E cost \in 1 .. MaxCost :
                becomes([done EXCEPT !.tokens = @ + cost, !.answers = @ \cup client[c].question])
           \/ \E cost \in 1 .. MaxCost : becomes([done EXCEPT !.tokens = @ + cost])
           \/ becomes(done)
           \/ client[c].tries < Retries /\ becomes([client[c] EXCEPT !.tries = @ + 1])
        /\ UNCHANGED <<spent, answers, warned, agent, served>>

\* A basket that is read line by line asks again in the same transaction.
AskAgain(c, q) ==
    /\ client[c].at = "answered"
    /\ q \notin client[c].question
    /\ Cardinality(client[c].question) = 1
    /\ client' = [client EXCEPT ![c] = [client[c] EXCEPT !.at = "asked", !.question = @ \cup {q}]]
    /\ UNCHANGED <<spent, answers, warned, agent, served>>

CommitRequest(c) ==
    /\ client[c].at = "answered"
    /\ spent' = spent + client[c].tokens
    /\ answers' = answers \cup client[c].answers
    /\ warned' = (warned \/ client[c].warned)
    /\ client' = [client EXCEPT ![c] = IdleClient]
    /\ UNCHANGED <<agent, served>>

\* The request fails later: its calls were paid for and are forgotten.
RollBack(c) ==
    /\ client[c].at = "answered"
    /\ client' = [client EXCEPT ![c] = IdleClient]
    /\ UNCHANGED <<spent, answers, warned, agent, served>>

-----------------------------------------------------------------------------
(* SalesAgent.reply, as DurableAgent records it.                           *)

\* The budget is looked at once for the whole loop, and nobody is warned.
StartAgent(a) ==
    /\ agent[a].at = "idle"
    /\ served[a] < MaxRequests
    /\ HasBudget(spent)
    /\ agent' = [agent EXCEPT ![a] = [IdleAgent EXCEPT !.at = "calling"]]
    /\ served' = [served EXCEPT ![a] = @ + 1]
    /\ UNCHANGED <<spent, answers, warned, client>>

\* An APIError ends the loop and costs nothing that is recorded.
CallAgent(a) ==
    /\ agent[a].at = "calling"
    /\ \/ \E cost \in 1 .. MaxCost : agent' = [agent EXCEPT ![a] = [@ EXCEPT !.at = "answered", !.tokens = cost]]
       \/ agent' = [agent EXCEPT ![a] = IdleAgent]
    /\ UNCHANGED <<spent, answers, warned, client, served>>

RoundsLeft(a) == agent[a].round < Rounds

\* The answer is final or a refusal, or it asks for tools and the loop goes on
\* while there are rounds.
RecordAgent(a) ==
    /\ agent[a].at = "answered"
    /\ spent' = spent + agent[a].tokens
    /\ \/ agent' = [agent EXCEPT ![a] = IdleAgent]
       \/ /\ RoundsLeft(a)
          /\ agent' = [agent EXCEPT ![a] = [at |-> "calling", round |-> @.round + 1, tokens |-> 0]]
    /\ UNCHANGED <<answers, warned, client, served>>

-----------------------------------------------------------------------------
\* The 24 hours of all that is committed are over.
DayEnds ==
    /\ spent > 0 \/ warned
    /\ spent' = 0
    /\ answers' = {}
    /\ warned' = FALSE
    /\ UNCHANGED <<client, agent, served>>

TokenNext ==
    \/ \E c \in Clients :
        \/ \E q \in Questions : Request(c, q) \/ AskAgain(c, q)
        \/ Replay(c)
        \/ CheckBudget(c)
        \/ CallModel(c)
        \/ CommitRequest(c)
        \/ RollBack(c)
    \/ \E a \in Agents : StartAgent(a) \/ CallAgent(a) \/ RecordAgent(a)
    \/ DayEnds

TokenSpec == TokenInit /\ [][TokenNext]_tokenVars

-----------------------------------------------------------------------------
TokenTypeOK ==
    /\ spent \in Nat
    /\ answers \subseteq Questions
    /\ warned \in BOOLEAN
    /\ client \in [Clients -> [at : {"idle", "asked", "calling", "answered"}, question : SUBSET Questions,
                               tries : 0 .. Retries, tokens : 0 .. 2 * MaxCost, answers : SUBSET Questions,
                               warned : BOOLEAN]]
    /\ agent \in [Agents -> [at : {"idle", "calling", "answered"}, round : 0 .. Rounds, tokens : 0 .. MaxCost]]
    /\ served \in [Clients \cup Agents -> 0 .. MaxRequests]

Sum(f) == MapThenSumSet(LAMBDA x : f[x], DOMAIN f)

\* Checks that do not see each other's calls may spend more than the budget, but
\* never more than what everybody at work can still add: two calls a request,
\* agent_max_tool_rounds + 1 a chat question.
OverspendIsBounded ==
    spent + Sum([c \in Clients |-> client[c].tokens])
        <= Budget - 1 + MaxCost * (2 * Cardinality(Clients) + (Rounds + 1) * Cardinality(Agents))

=============================================================================
