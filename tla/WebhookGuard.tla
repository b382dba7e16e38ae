---------------------------- MODULE WebhookGuard ----------------------------
(***************************************************************************)
(* Keeping Telegram pointed at the bot (app/bot/webhook_guard.py and the   *)
(* lifespan of app/main.py): containers come and go in rolling deploys,    *)
(* each registers the webhook when it starts and looks at it on a timer.   *)
(***************************************************************************)
EXTENDS Naturals

CONSTANTS
    Containers,
    Public,      \* containers whose WEBHOOK_BASE_URL is a public address: one for all
    MaxStarts,   \* bound: containers started
    MaxStrays,   \* bound: deletions by hand or by an older version
    MaxErrors    \* bound: calls that end in a TelegramAPIError

VARIABLES
    url,       \* where Telegram delivers: "bot", "elsewhere" or "nowhere"
    container, \* what each container is at
    counts     \* starts, strays, errors

vars == <<url, container, counts>>

Init ==
    /\ url = "nowhere"
    /\ container = [c \in Containers |-> "down"]
    /\ counts = [starts |-> 0, strays |-> 0, errors |-> 0]

-----------------------------------------------------------------------------
\* A container that is not public must not decide where Telegram points.
AnyUrl(c) == IF c \in Public THEN "bot" ELSE "elsewhere"
Url(c) == IF c \in Public THEN "bot" ELSE url

MayFail == /\ counts.errors < MaxErrors
           /\ counts' = [counts EXCEPT !.errors = @ + 1]

\* lifespan: registers, however that ends, and starts the watchdog.
Start(c) ==
    /\ container[c] = "down"
    /\ counts.starts < MaxStarts
    /\ container' = [container EXCEPT ![c] = "starting"]
    /\ counts' = [counts EXCEPT !.starts = @ + 1]
    /\ UNCHANGED url

Register(c) ==
    /\ container[c] = "starting"
    /\ container' = [container EXCEPT ![c] = "watching"]
    /\ \/ url' = Url(c) /\ UNCHANGED counts
       \/ MayFail /\ url' \in {url, Url(c)}

\* assert_webhook: one look, and one repair when it is not as expected.
Look(c) ==
    /\ container[c] = "watching"
    /\ Url(c) # url
    /\ \/ /\ container' = [container EXCEPT ![c] = "repairing"]
          /\ UNCHANGED counts
       \/ MayFail /\ UNCHANGED container
    /\ UNCHANGED url

Repair(c) ==
    /\ container[c] = "repairing"
    /\ container' = [container EXCEPT ![c] = "watching"]
    /\ \/ url' = Url(c) /\ UNCHANGED counts
       \/ MayFail /\ url' \in {url, Url(c)}

\* Shutdown cancels the watchdog and leaves the registration alone; the
\* platform keeps one public container running.
Stop(c) ==
    /\ container[c] # "down"
    /\ \E d \in Public \ {c} : container[d] = "watching"
    /\ container' = [container EXCEPT ![c] = "down"]
    /\ UNCHANGED <<url, counts>>

Stray ==
    /\ counts.strays < MaxStrays
    /\ counts' = [counts EXCEPT !.strays = @ + 1]
    /\ url' = "nowhere"
    /\ UNCHANGED container

Next ==
    \/ \E c \in Containers : Start(c) \/ Register(c) \/ Look(c) \/ Repair(c) \/ Stop(c)
    \/ Stray

Spec == Init /\ [][Next]_vars

\* asyncio.sleep ends; the platform starts the service.
Fairness == \A c \in Containers : /\ WF_vars(Start(c) /\ \A d \in Public : container[d] = "down")
                                  /\ WF_vars(Register(c))
                                  /\ WF_vars(Look(c))
                                  /\ WF_vars(Repair(c))

-----------------------------------------------------------------------------
TypeOK ==
    /\ url \in {"bot", "elsewhere", "nowhere"}
    /\ container \in [Containers -> {"down", "starting", "watching", "repairing"}]
    /\ counts \in [starts : 0 .. MaxStarts, strays : 0 .. MaxStrays, errors : 0 .. MaxErrors]

\* Whatever deploys, stray deletions and errors of Telegram did, the bot gets
\* its messages again and keeps getting them.
WebhookComesBack == <>[](url = "bot")
=============================================================================
