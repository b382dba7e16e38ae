------------------------------ MODULE BotLogin ------------------------------
(***************************************************************************)
(* Signing a browser in through the bot (app/services/bot_login.py, the    *)
(* /auth/bot routes of routers/auth.py, bot/handlers/bot_login.py and      *)
(* static/bot_login.js).                                                   *)
(*                                                                         *)
(* The browser makes a challenge in Redis and keeps its secret in a        *)
(* cookie that all its tabs share.  Somebody opens the link in Telegram,   *)
(* takes the challenge up and approves or denies it; a tab that polls sees *)
(* the approval and asks the server to consume it.  Challenges expire at   *)
(* any time, Redis fails before or after it did its work, answers are      *)
(* lost or come when the tab has moved on, and an administrator may block  *)
(* the account meanwhile.                                                  *)
(***************************************************************************)
EXTENDS Naturals, Sequences, FiniteSets

CONSTANTS
    Tabs,       \* login pages of one browser
    Accounts,   \* people who may open the link in Telegram
    Challenges, \* bound: challenges the browser may make
    MaxOrphans, \* bound: calls the tabs no longer wait for
    NoChallenge,
    Nobody

ASSUME BotLoginAssumption ==
    /\ NoChallenge \notin Challenges
    /\ Nobody \notin Accounts
    /\ MaxOrphans \in Nat

VARIABLES
    challenge, \* the Redis key of each challenge
    cookie,    \* the challenge whose secret the browser holds
    blocked,   \* users.is_blocked
    tab,       \* the flags of each page's script
    calls,     \* requests of the tabs the network or the server has
    holder,    \* history: who took each challenge up
    grants     \* history: whom a consumed challenge signed in

vars == <<challenge, cookie, blocked, tab, calls, holder, grants>>
serverVars == <<challenge, blocked, holder, grants>>

-----------------------------------------------------------------------------
Unmade == [status |-> "unmade", tg |-> Nobody]
Gone == [status |-> "gone", tg |-> Nobody]
Pending == [status |-> "pending", tg |-> Nobody]

Live(c) == c \in Challenges /\ challenge[c].status \notin {"unmade", "gone"}

\* What the script's flags come to: a button that starts is shown, it polls
\* (active, started), it does neither, or it has gone to its redirect.
Modes == {"ready", "waiting", "busy", "left"}

Kinds == {"start", "status", "complete", "cancel"}

\* heard: the tab still waits for the answer.  tg: the account a complete
\* has read.  cred: the challenge it is about.
Call(t, kind) ==
    [tab |-> t, kind |-> kind, cred |-> cookie, phase |-> "asked", heard |-> TRUE,
     tg |-> Nobody]

Asks(t, kind) == \E call \in calls : call.tab = t /\ call.kind = kind /\ call.heard

Init ==
    /\ challenge = [c \in Challenges |-> Unmade]
    /\ cookie = NoChallenge
    /\ blocked = {}
    /\ tab = [t \in Tabs |-> "ready"]
    /\ calls = {}
    /\ holder = [c \in Challenges |-> Nobody]
    /\ grants = <<>>

-----------------------------------------------------------------------------
(* The page's script.                                                      *)

\* startLogin: busy while a start is under way; everything else is reset,
\* but older requests of this tab stay in flight.
StartLogin(t) ==
    /\ tab[t] = "ready"
    /\ ~Asks(t, "start")
    /\ tab' = [tab EXCEPT ![t] = "busy"]
    /\ calls' = calls \cup {Call(t, "start")}
    /\ UNCHANGED <<serverVars, cookie>>

\* checkStatus, from the timer, the button, focus or the tab coming back.
Poll(t) ==
    /\ tab[t] = "waiting"
    /\ ~Asks(t, "status")
    /\ calls' = calls \cup {Call(t, "status")}
    /\ UNCHANGED <<serverVars, cookie, tab>>

\* cancelFromButton, and expireRequest at the end of the countdown, which may
\* be a little early: cancelOnServer, and a button when its answer is there.
StopWaiting(t) ==
    /\ tab[t] = "waiting"
    /\ ~Asks(t, "cancel")
    /\ tab' = [tab EXCEPT ![t] = "busy"]
    /\ calls' = calls \cup {Call(t, "cancel")}
    /\ UNCHANGED <<serverVars, cookie>>

\* The login page is loaded again; bound: with no call of the old page left.
OpenPage(t) ==
    /\ tab[t] # "ready"
    /\ ~ \E call \in calls : call.tab = t /\ call.heard
    /\ tab' = [tab EXCEPT ![t] = "ready"]
    /\ UNCHANGED <<serverVars, cookie, calls>>

\* POST /logout drops the cookie too.
Logout ==
    /\ cookie # NoChallenge
    /\ cookie' = NoChallenge
    /\ UNCHANGED <<serverVars, tab, calls>>

-----------------------------------------------------------------------------
(* The server.  Each script runs whole in Redis.                           *)

Pre == {"asked", "found", "locked"}
Answered(call) == call.phase \notin Pre

\* The call continues, or ends with an answer, which somebody may wait for.
Goes(call, next) ==
    calls' = (calls \ {call}) \cup (IF Answered(next) /\ ~next.heard THEN {} ELSE {next})
Ends(call, answer) == Goes(call, [call EXCEPT !.phase = answer])

Delete(c) == IF Live(c) THEN [challenge EXCEPT ![c] = Gone] ELSE challenge

\* start_bot_login gives out the browser's challenge again while it can still
\* end well, and makes another otherwise, unless the limit is reached.
Reusable(c) == Live(c) /\ challenge[c].status # "denied"

HandleStart(call) ==
    /\ call.kind = "start" /\ call.phase = "asked"
    /\ \/ /\ Reusable(call.cred)
          /\ Goes(call, [call EXCEPT !.phase = "again"])
          /\ UNCHANGED challenge
       \/ /\ ~Reusable(call.cred)
          /\ \E c \in Challenges :
                /\ challenge[c] = Unmade
                /\ challenge' = [Delete(call.cred) EXCEPT ![c] = Pending]
                /\ Goes(call, [call EXCEPT !.phase = "made", !.cred = c])
       \/ /\ ~Reusable(call.cred)
          /\ challenge' = Delete(call.cred)
          /\ Ends(call, "error")
    /\ UNCHANGED <<cookie, blocked, tab, holder, grants>>

HandleStatus(call) ==
    /\ call.kind = "status" /\ call.phase = "asked"
    /\ Ends(call, IF ~Live(call.cred) \/ challenge[call.cred].status = "denied" THEN "over"
                  ELSE IF challenge[call.cred].status = "approved" THEN "approved"
                  ELSE "open")
    /\ UNCHANGED <<serverVars, cookie, tab>>

HandleCancel(call) ==
    /\ call.kind = "cancel" /\ call.phase = "asked"
    /\ challenge' = Delete(call.cred)
    /\ Ends(call, "ok")
    /\ UNCHANGED <<cookie, blocked, tab, holder, grants>>

\* complete_bot_login, first what the challenge says ...
LookUp(call) ==
    /\ call.kind = "complete" /\ call.phase = "asked"
    /\ \/ /\ ~Reusable(call.cred)
          /\ Ends(call, "refused")
       \/ /\ Live(call.cred)
          /\ challenge[call.cred].status = "approved"
          /\ Goes(call, [call EXCEPT !.phase = "found", !.tg = challenge[call.cred].tg])
       \/ /\ Live(call.cred)
          /\ challenge[call.cred].status \in {"pending", "claimed"}
          /\ Ends(call, "error")
    /\ UNCHANGED <<serverVars, cookie, tab>>

RowFree(a) == ~ \E call \in calls : call.phase = "locked" /\ call.tg = a

LockUser(call) ==
    /\ call.phase = "found"
    /\ RowFree(call.tg)
    /\ \/ /\ call.tg \notin blocked
          /\ Ends(call, "locked")
          /\ UNCHANGED challenge
       \/ /\ call.tg \in blocked
          /\ challenge' = Delete(call.cred)
          /\ Ends(call, "refused")
    /\ UNCHANGED <<cookie, blocked, tab, holder, grants>>

\* ... and the approval, which only one request can take.
LeftInPlace(c) == challenge
Consumed(c) == [challenge EXCEPT ![c] = Gone]

Consume(call) ==
    /\ call.phase = "locked"
    /\ \/ /\ Live(call.cred)
          /\ challenge[call.cred].status = "approved"
          /\ challenge' = Consumed(call.cred)
          /\ grants' = Append(grants, [account |-> call.tg, challenge |-> call.cred])
          /\ Ends(call, "ok")
       \/ /\ ~Live(call.cred)
          /\ Ends(call, "refused")
          /\ UNCHANGED <<challenge, grants>>
    /\ UNCHANGED <<cookie, blocked, tab, holder>>

\* BotLoginUnavailable before Redis did its work; when it comes after, the
\* call ends like one whose answer is lost.
Fail(call) ==
    /\ ~Answered(call)
    /\ Ends(call, "error")
    /\ UNCHANGED <<serverVars, cookie, tab>>

-----------------------------------------------------------------------------
(* The answer.                                                             *)

\* Whatever challenge the cookie names by then.
Clears(call) ==
    \/ call.kind = "complete" /\ call.phase \in {"ok", "refused"}
    \/ call.kind = "cancel" /\ call.phase = "ok"

CookieAfter(call) ==
    IF call.phase = "made" THEN call.cred
    ELSE IF Clears(call) THEN NoChallenge
    ELSE cookie

\* A failed poll is repeated; anything else that fails offers the button.
AfterErrorButComplete(s, kind) == IF kind \in {"status", "complete"} THEN s ELSE "ready"
AfterError(s, kind) == IF kind = "status" THEN s ELSE "ready"

\* What the script does with an answer; it does not look at active again.
TabAfter(call, s) ==
    CASE call.phase \in {"again", "made"} -> "waiting"
      [] call.phase = "approved" -> "busy"
      [] call.phase = "open" -> s
      [] call.phase = "ok" /\ call.kind = "complete" -> "left"
      [] call.phase = "ok" /\ call.kind = "cancel" -> "ready"
      [] call.phase = "over" -> "ready"
      [] OTHER -> AfterError(s, call.kind)

\* An approval seen by a poll makes the tab ask for its completion.
Asked(call) ==
    IF call.phase = "approved" /\ tab[call.tab] # "left" THEN {Call(call.tab, "complete")} ELSE {}

Hear(call) ==
    /\ Answered(call)
    /\ call.heard
    /\ call.phase = "approved" => ~Asks(call.tab, "complete")
    /\ cookie' = CookieAfter(call)
    /\ tab' = [tab EXCEPT ![call.tab] = IF @ = "left" THEN @ ELSE TabAfter(call, @)]
    /\ calls' = (calls \ {call}) \cup Asked(call)
    /\ UNCHANGED serverVars

\* The seven seconds of api() are over, or the connection broke, before the
\* server saw the call, while it works on it, or on the answer's way.
GiveUp(call) ==
    /\ call.heard
    /\ tab' = [tab EXCEPT ![call.tab] = IF @ = "left" THEN @ ELSE AfterError(@, call.kind)]
    /\ \/ /\ Cardinality({old \in calls : ~old.heard}) < MaxOrphans
          /\ Goes(call, [call EXCEPT !.heard = FALSE])
          /\ UNCHANGED cookie
       \/ Answered(call) /\ calls' = calls \ {call} /\ cookie' = CookieAfter(call)
       \/ call.phase = "asked" /\ calls' = calls \ {call} /\ UNCHANGED cookie
    /\ UNCHANGED serverVars

-----------------------------------------------------------------------------
(* Telegram, Redis' clock and the administrator.                           *)

ClaimedBy(a) == [status |-> "claimed", tg |-> a]

Claim(c, a) ==
    /\ a \notin blocked
    /\ challenge[c].status = "pending"
    /\ challenge' = [challenge EXCEPT ![c] = ClaimedBy(a)]
    /\ holder' = [holder EXCEPT ![c] = a]
    /\ UNCHANGED <<cookie, blocked, tab, calls, grants>>

Undecided(c) == challenge[c].status = "claimed"

Decide(c, a, verdict) ==
    /\ a \notin blocked
    /\ Live(c)
    /\ challenge[c].tg = a
    /\ Undecided(c)
    /\ challenge' = [challenge EXCEPT ![c].status = verdict]
    /\ UNCHANGED <<cookie, blocked, tab, calls, holder, grants>>

Expire(c) ==
    /\ Live(c)
    /\ challenge' = [challenge EXCEPT ![c] = Gone]
    /\ UNCHANGED <<cookie, blocked, tab, calls, holder, grants>>

\* UPDATE users SET is_blocked waits for the row.
Block(a) ==
    /\ a \notin blocked
    /\ RowFree(a)
    /\ blocked' = blocked \cup {a}
    /\ UNCHANGED <<challenge, cookie, tab, calls, holder, grants>>

-----------------------------------------------------------------------------
Serve(call) ==
    \/ HandleStart(call)
    \/ HandleStatus(call)
    \/ HandleCancel(call)
    \/ LookUp(call)
    \/ LockUser(call)
    \/ Consume(call)
    \/ Fail(call)

Click(t) ==
    \/ StartLogin(t)
    \/ Poll(t)
    \/ StopWaiting(t)
    \/ OpenPage(t)

Bot(c, a) == Claim(c, a) \/ Decide(c, a, "approved") \/ Decide(c, a, "denied")

Next ==
    \/ \E t \in Tabs : Click(t)
    \/ \E call \in calls : Serve(call) \/ Hear(call) \/ GiveUp(call)
    \/ \E c \in Challenges : Expire(c) \/ \E a \in Accounts : Bot(c, a)
    \/ \E a \in Accounts : Block(a)
    \/ Logout

Spec == Init /\ [][Next]_vars

\* api() ends every call of a tab within seven seconds, Redis answers or fails
\* within one, and the countdown runs whenever the page is in front, to which
\* the customer comes back.
CallEnds(t, kind) ==
    \E call \in calls : call.tab = t /\ call.kind = kind /\ (Hear(call) \/ GiveUp(call))

Fairness ==
    \A t \in Tabs :
        /\ WF_vars(StopWaiting(t))
        /\ \A kind \in Kinds : WF_vars(CallEnds(t, kind))
        /\ WF_vars(\E call \in calls : call.tab = t /\ call.kind = "complete" /\ Serve(call))

FairSpec == Spec /\ Fairness

-----------------------------------------------------------------------------
Phases == Pre \cup {"again", "made", "open", "approved", "over", "ok", "refused", "error"}

ChallengeRow ==
    {Unmade, Gone, Pending} \cup [status : {"claimed", "approved", "denied"}, tg : Accounts]
CallRow ==
    [tab : Tabs, kind : Kinds, cred : Challenges \cup {NoChallenge}, phase : Phases,
     heard : BOOLEAN, tg : Accounts \cup {Nobody}]

TypeOK ==
    /\ challenge \in [Challenges -> ChallengeRow]
    /\ cookie \in Challenges \cup {NoChallenge}
    /\ blocked \subseteq Accounts
    /\ tab \in [Tabs -> Modes]
    /\ calls \subseteq CallRow
    /\ holder \in [Challenges -> Accounts \cup {Nobody}]
    /\ grants \in Seq([account : Accounts, challenge : Challenges])

Verdict(c) ==
    CASE challenge[c].status \in {"unmade", "pending", "claimed"} -> "open"
      [] challenge[c].status = "approved" -> "yes"
      [] challenge[c].status = "denied" -> "no"
      [] challenge[c].status = "gone" -> "over"

Promise == INSTANCE ApprovedSignIn WITH
    verdict <- [c \in Challenges |-> Verdict(c)],
    entries <- grants

\* However many tabs complete, answers are repeated or buttons pressed twice,
\* a challenge lets in only the account that first opened it, only if that
\* account's one verdict was yes, and only once (the Lua scripts).
ImplementsApprovedSignIn == Promise!Spec

\* An account that is blocked when its approval is consumed is not let in,
\* though it was free when it approved and when the approval was looked up.
BlockedStayOut ==
    [][Len(grants') > Len(grants) => grants'[Len(grants')].account \notin blocked]_vars

\* A login page never gets stuck: it comes to its redirect or offers a button
\* again, whatever answers are lost or belong to an earlier attempt.
PageNeverStuck == \A t \in Tabs : tab[t] # "ready" ~> tab[t] \in {"ready", "left"}
=============================================================================
