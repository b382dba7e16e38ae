----------------------------- MODULE PagesProofs -----------------------------
(***************************************************************************)
(* Proofs about the scripts of the two pages, each in the specification of *)
(* its own.                                                                *)
(*                                                                         *)
(* BotLogin, for any number of tabs, accounts, challenges and abandoned    *)
(* calls: it implements ApprovedSignIn, and nobody is let in who is        *)
(* blocked by then.                                                        *)
(* A completion is three steps apart from the approval it is about, and    *)
(* in between the challenge may be gone and made up for by another.  What  *)
(* it carries is still true when it is used, because nobody but the holder *)
(* of a challenge is ever written into it, and because the row of the      *)
(* account stays locked from the look at is_blocked to the answer.         *)
(*                                                                         *)
(* ChatPage, for any number of questions, request ids, messages, lost      *)
(* calls and reloads: a question is asked once.  A text has one request id *)
(* wherever it is, in the page, in what sessionStorage has of it, in a     *)
(* call under way or in a job; and a question that was not reported as     *)
(* sent is where the next press of the button finds that id.               *)
(***************************************************************************)
EXTENDS BotLogin, ChatPage, FiniteSetTheorems, TLAPS

\* Who took a challenge up is in it as long as it is there.
HoldersAgree ==
    \A c \in Challenges :
        /\ challenge[c].status \in {"unmade", "pending"} => holder[c] = Nobody
        /\ challenge[c].status \in {"claimed", "approved", "denied"} => challenge[c].tg = holder[c]

Carries(call) ==
    /\ call.cred \in Challenges
    /\ call.tg \in Accounts
    /\ call.tg = holder[call.cred]

\* A completion under way is about the account that took its challenge up.
CallsAgree == \A call \in calls : call.phase \in {"found", "locked"} => Carries(call)

\* An account whose row a completion holds is not blocked.
LockedAreFree == \A call \in calls : call.phase = "locked" => call.tg \notin blocked

\* The inductive invariant.
IInv ==
    /\ TypeOK
    /\ HoldersAgree
    /\ CallsAgree
    /\ LockedAreFree

-----------------------------------------------------------------------------
(* Types                                                                   *)

\* What a call of the server leaves among the calls: itself as it has become.
LEMMA Going ==
    ASSUME TypeOK, NEW call \in calls, NEW next \in CallRow, Goes(call, next)
    PROVE  calls' \subseteq CallRow /\ calls' \subseteq calls \cup {next}
    BY DEF TypeOK, Goes

LEMMA Ending ==
    ASSUME TypeOK, NEW call \in calls, NEW answer \in Phases, Ends(call, answer)
    PROVE  /\ calls' \subseteq CallRow
           /\ \A c \in calls' :
                 \/ c \in calls
                 \/ c.phase = answer /\ c.cred = call.cred /\ c.tg = call.tg
<1> DEFINE next == [call EXCEPT !.phase = answer]
<1>1. call \in CallRow
    BY DEF TypeOK
<1>2. next \in CallRow /\ next.phase = answer /\ next.cred = call.cred /\ next.tg = call.tg
    BY <1>1 DEF CallRow
<1>3. Goes(call, next)
    BY DEF Ends
<1> HIDE DEF next
<1> QED
    BY <1>2, <1>3, Going

LEMMA Asking ==
    ASSUME TypeOK, NEW t \in Tabs, NEW kind \in Kinds
    PROVE  /\ Call(t, kind) \in CallRow
           /\ Call(t, kind).phase = "asked"
    BY DEF TypeOK, Call, CallRow, Phases, Pre

\* A challenge is there or not, and deleting one leaves its row or none.
LEMMA Deleting ==
    ASSUME TypeOK, NEW c
    PROVE  /\ Delete(c) \in [Challenges -> ChallengeRow]
           /\ \/ Delete(c) = challenge
              \/ c \in Challenges /\ Delete(c) = [challenge EXCEPT ![c] = Gone]
    BY DEF TypeOK, Delete, Live, ChallengeRow

LEMMA ClickTypes ==
    ASSUME TypeOK, NEW t \in Tabs, Click(t)
    PROVE  /\ TypeOK'
           /\ UNCHANGED <<challenge, holder, grants, blocked>>
           /\ \A call \in calls' : call \in calls \/ call.phase = "asked"
<1>1. CASE StartLogin(t)
    <2>1. Call(t, "start") \in CallRow /\ Call(t, "start").phase = "asked"
        BY Asking DEF Kinds
    <2> QED
        BY <1>1, <2>1 DEF TypeOK, StartLogin, serverVars, Modes
<1>2. CASE Poll(t)
    <2>1. Call(t, "status") \in CallRow /\ Call(t, "status").phase = "asked"
        BY Asking DEF Kinds
    <2> QED
        BY <1>2, <2>1 DEF TypeOK, Poll, serverVars
<1>3. CASE StopWaiting(t)
    <2>1. Call(t, "cancel") \in CallRow /\ Call(t, "cancel").phase = "asked"
        BY Asking DEF Kinds
    <2> QED
        BY <1>3, <2>1 DEF TypeOK, StopWaiting, serverVars, Modes
<1>4. CASE OpenPage(t)
    BY <1>4 DEF TypeOK, OpenPage, serverVars, Modes
<1> QED
    BY <1>1, <1>2, <1>3, <1>4 DEF Click

LEMMA HearTypes ==
    ASSUME TypeOK, NEW call \in calls, Hear(call)
    PROVE  /\ TypeOK'
           /\ UNCHANGED <<challenge, holder, grants, blocked>>
           /\ \A c \in calls' : c \in calls \/ c.phase = "asked"
<1>1. call \in CallRow
    BY DEF TypeOK
<1>2. call.tab \in Tabs /\ call.cred \in Challenges \cup {NoChallenge}
    BY <1>1 DEF CallRow
<1>3. Call(call.tab, "complete") \in CallRow /\ Call(call.tab, "complete").phase = "asked"
    BY <1>2, Asking DEF Kinds
<1>4. calls' \subseteq CallRow /\ \A c \in calls' : c \in calls \/ c.phase = "asked"
    BY <1>3 DEF Hear, Asked, TypeOK
<1>5. cookie' \in Challenges \cup {NoChallenge}
    BY <1>2 DEF Hear, CookieAfter, TypeOK
<1>6. \A s \in Modes : TabAfter(call, s) \in Modes
    BY DEF TabAfter, AfterError, Modes
<1>7. tab' \in [Tabs -> Modes]
    BY <1>2, <1>6 DEF Hear, TypeOK
<1> QED
    BY <1>4, <1>5, <1>7 DEF Hear, serverVars, TypeOK

LEMMA GiveUpTypes ==
    ASSUME TypeOK, NEW call \in calls, GiveUp(call)
    PROVE  /\ TypeOK'
           /\ UNCHANGED <<challenge, holder, grants, blocked>>
           /\ \A c \in calls' :
                 \/ c \in calls
                 \/ c.phase = call.phase /\ c.cred = call.cred /\ c.tg = call.tg
<1> DEFINE next == [call EXCEPT !.heard = FALSE]
<1>1. call \in CallRow
    BY DEF TypeOK
<1>2. call.tab \in Tabs /\ call.cred \in Challenges \cup {NoChallenge}
    BY <1>1 DEF CallRow
<1>3. /\ next \in CallRow
      /\ next.phase = call.phase /\ next.cred = call.cred /\ next.tg = call.tg
    BY <1>1 DEF CallRow
<1>4. \/ Goes(call, next) /\ UNCHANGED cookie
      \/ calls' = calls \ {call} /\ cookie' \in {cookie, CookieAfter(call)}
    BY DEF GiveUp
<1> HIDE DEF next
<1>5. /\ calls' \subseteq CallRow
      /\ \A c \in calls' :
            \/ c \in calls
            \/ c.phase = call.phase /\ c.cred = call.cred /\ c.tg = call.tg
    BY <1>3, <1>4, Going DEF TypeOK
<1>6. cookie' \in Challenges \cup {NoChallenge}
    BY <1>2, <1>4 DEF CookieAfter, TypeOK
<1>7. \A s \in Modes : AfterError(s, call.kind) \in Modes
    BY DEF AfterError, Modes
<1>8. tab' \in [Tabs -> Modes]
    BY <1>2, <1>7 DEF GiveUp, TypeOK
<1> QED
    BY <1>5, <1>6, <1>8 DEF GiveUp, serverVars, TypeOK

-----------------------------------------------------------------------------
(* The invariant, and the steps ApprovedSignIn sees                        *)

Verdicts == [c \in Challenges |-> Verdict(c)]

SignInStep == [Promise!Next]_<<holder, [c \in Challenges |-> Verdict(c)], grants>>

\* A step that touches no challenge is none of ApprovedSignIn's.
LEMMA Unseen ==
    ASSUME UNCHANGED <<challenge, holder, grants>>
    PROVE  SignInStep /\ (HoldersAgree => HoldersAgree')
    BY DEF SignInStep, Verdicts, Verdict, HoldersAgree

\* The rest of the invariant, when nobody takes anything up or is blocked.
LEMMA CallsKept ==
    ASSUME IInv, TypeOK', HoldersAgree', UNCHANGED <<holder, blocked>>,
           \A c \in calls' :
               \/ c \in calls
               \/ c.phase \notin {"found", "locked"}
               \/ Carries(c) /\ (c.phase = "locked" => c.tg \notin blocked)
    PROVE  IInv'
<1>1. CallsAgree'
    BY DEF IInv, CallsAgree, Carries
<1>2. LockedAreFree'
    BY DEF IInv, LockedAreFree
<1> QED
    BY <1>1, <1>2 DEF IInv

\* A challenge that goes is dropped.
LEMMA ChallengeGoes ==
    ASSUME TypeOK, HoldersAgree, UNCHANGED holder, NEW c \in Challenges,
           challenge' = [challenge EXCEPT ![c] = Gone]
    PROVE  /\ HoldersAgree'
           /\ Verdicts' = [Verdicts EXCEPT ![c] = "over"]
           /\ UNCHANGED grants => SignInStep
<1>1. HoldersAgree'
    BY DEF TypeOK, HoldersAgree, Gone
<1>2. \A d \in Challenges : Verdict(d)' = IF d = c THEN "over" ELSE Verdict(d)
    <2>1. challenge'[c] = Gone /\ \A d \in Challenges \ {c} : challenge'[d] = challenge[d]
        BY DEF TypeOK
    <2>2. Verdict(c)' = "over"
        BY <2>1 DEF Verdict, Gone
    <2>3. \A d \in Challenges \ {c} : Verdict(d)' = Verdict(d)
        BY <2>1 DEF Verdict
    <2> QED
        BY <2>2, <2>3
<1>3. Verdicts' = [Verdicts EXCEPT ![c] = "over"]
    BY <1>2 DEF Verdicts
<1>4. UNCHANGED grants => Promise!Drop(c)
    BY <1>3 DEF Promise!Drop, Verdicts
<1> QED
    BY <1>1, <1>3, <1>4 DEF SignInStep, Promise!Next, Verdicts

LEMMA DeletionDrops ==
    ASSUME TypeOK, HoldersAgree, UNCHANGED <<holder, grants>>, NEW c, challenge' = Delete(c)
    PROVE  /\ HoldersAgree'
           /\ SignInStep
           /\ challenge' \in [Challenges -> ChallengeRow]
<1>1. CASE Delete(c) = challenge
    BY <1>1, Deleting, Unseen
<1>2. CASE c \in Challenges /\ Delete(c) = [challenge EXCEPT ![c] = Gone]
    BY <1>2, Deleting, ChallengeGoes
<1> QED
    BY <1>1, <1>2, Deleting

\* A step of a page, or time that passes for it.
LEMMA PageKeeps ==
    ASSUME IInv,
           \/ \E t \in Tabs : Click(t)
           \/ \E call \in calls : Hear(call) \/ GiveUp(call)
           \/ Logout
    PROVE  IInv' /\ SignInStep /\ UNCHANGED grants
<1>1. TypeOK /\ HoldersAgree
    BY DEF IInv
<1>2. ASSUME NEW t \in Tabs, Click(t)
      PROVE  IInv' /\ SignInStep /\ UNCHANGED grants
    <2>1. /\ TypeOK'
          /\ UNCHANGED <<challenge, holder, grants, blocked>>
          /\ \A c \in calls' : c \in calls \/ c.phase = "asked"
        BY <1>1, <1>2, ClickTypes
    <2> QED
        BY <1>1, <2>1, Unseen, CallsKept
<1>3. ASSUME NEW call \in calls, Hear(call)
      PROVE  IInv' /\ SignInStep /\ UNCHANGED grants
    <2>1. /\ TypeOK'
          /\ UNCHANGED <<challenge, holder, grants, blocked>>
          /\ \A c \in calls' : c \in calls \/ c.phase = "asked"
        BY <1>1, <1>3, HearTypes
    <2> QED
        BY <1>1, <2>1, Unseen, CallsKept
<1>4. ASSUME NEW call \in calls, GiveUp(call)
      PROVE  IInv' /\ SignInStep /\ UNCHANGED grants
    <2>1. /\ TypeOK'
          /\ UNCHANGED <<challenge, holder, grants, blocked>>
          /\ \A c \in calls' :
                \/ c \in calls
                \/ c.phase = call.phase /\ c.cred = call.cred /\ c.tg = call.tg
        BY <1>1, <1>4, GiveUpTypes
    <2>2. /\ call.phase \in {"found", "locked"} => Carries(call)
          /\ call.phase = "locked" => call.tg \notin blocked
        BY DEF IInv, CallsAgree, LockedAreFree
    <2>3. \A c \in calls' :
              \/ c \in calls
              \/ c.phase \notin {"found", "locked"}
              \/ Carries(c) /\ (c.phase = "locked" => c.tg \notin blocked)
        BY <2>1, <2>2 DEF Carries
    <2> QED
        BY <1>1, <2>1, <2>3, Unseen, CallsKept
<1>5. CASE Logout
    <2>1. TypeOK' /\ UNCHANGED <<challenge, holder, grants, blocked, calls>>
        BY <1>1, <1>5 DEF Logout, serverVars, TypeOK
    <2> QED
        BY <1>1, <2>1, Unseen, CallsKept
<1> QED
    BY <1>2, <1>3, <1>4, <1>5

-----------------------------------------------------------------------------
(* The server                                                              *)

LEMMA StartKeeps ==
    ASSUME IInv, NEW call \in calls, HandleStart(call)
    PROVE  IInv' /\ SignInStep /\ UNCHANGED grants
<1>1. TypeOK /\ HoldersAgree /\ call \in CallRow
    BY DEF IInv, TypeOK
<1>2. UNCHANGED <<cookie, blocked, tab, holder, grants>>
    BY DEF HandleStart
<1>3. CASE Goes(call, [call EXCEPT !.phase = "again"]) /\ UNCHANGED challenge
    <2> DEFINE next == [call EXCEPT !.phase = "again"]
    <2>1. next \in CallRow /\ next.phase = "again"
        BY <1>1 DEF CallRow, Phases
    <2> HIDE DEF next
    <2>2. calls' \subseteq CallRow /\ calls' \subseteq calls \cup {next}
        BY <1>1, <1>3, <2>1, Going DEF next
    <2>3. TypeOK'
        BY <1>1, <1>2, <1>3, <2>2 DEF TypeOK
    <2> QED
        BY <1>1, <1>2, <1>3, <2>1, <2>2, <2>3, Unseen, CallsKept
<1>4. ASSUME NEW c \in Challenges, ~Reusable(call.cred),
             challenge[c] = Unmade, challenge' = [Delete(call.cred) EXCEPT ![c] = Pending],
             Goes(call, [call EXCEPT !.phase = "made", !.cred = c])
      PROVE  IInv' /\ SignInStep
    <2> DEFINE next == [call EXCEPT !.phase = "made", !.cred = c]
    <2>1. next \in CallRow /\ next.phase = "made"
        BY <1>1 DEF CallRow, Phases
    <2> HIDE DEF next
    <2>2. calls' \subseteq CallRow /\ calls' \subseteq calls \cup {next}
        BY <1>1, <1>4, <2>1, Going DEF next
    <2>3. /\ Delete(call.cred) \in [Challenges -> ChallengeRow]
          /\ \/ Delete(call.cred) = challenge
             \/ /\ call.cred \in Challenges /\ challenge[call.cred].status \notin {"unmade", "gone"}
                /\ Delete(call.cred) = [challenge EXCEPT ![call.cred] = Gone]
        BY <1>1, Deleting DEF Delete, Live
    <2>4. Pending \in ChallengeRow
        BY DEF ChallengeRow
    <2>5. TypeOK'
        BY <1>1, <1>2, <1>4, <2>2, <2>3, <2>4 DEF TypeOK
    <2>6. holder[c] = Nobody /\ Verdict(c) = "open"
        BY <1>1, <1>4 DEF HoldersAgree, Unmade, Verdict
    <2>7. CASE Delete(call.cred) = challenge
        <3>1. HoldersAgree'
            BY <1>1, <1>2, <1>4, <2>6, <2>7 DEF TypeOK, HoldersAgree, Pending
        <3>2. \A d \in Challenges : Verdict(d)' = Verdict(d)
            BY <1>1, <1>4, <2>6, <2>7 DEF TypeOK, Verdict, Pending
        <3>3. SignInStep
            BY <1>2, <3>2 DEF SignInStep, Verdicts
        <3> QED
            BY <1>2, <2>1, <2>2, <2>5, <3>1, <3>3, CallsKept
    <2>8. CASE /\ call.cred \in Challenges /\ challenge[call.cred].status \notin {"unmade", "gone"}
               /\ Delete(call.cred) = [challenge EXCEPT ![call.cred] = Gone]
        <3> DEFINE old == call.cred
        <3>1. old \in Challenges /\ old # c
            BY <1>4, <2>8 DEF Unmade
        <3>2. \A d \in Challenges :
                  challenge'[d] = IF d = c THEN Pending ELSE IF d = old THEN Gone ELSE challenge[d]
            BY <1>1, <1>4, <2>8 DEF TypeOK
        <3> HIDE DEF old
        <3>3. HoldersAgree'
            BY <1>1, <1>2, <2>6, <3>2 DEF HoldersAgree, Pending, Gone
        <3>4. \A d \in Challenges : Verdict(d)' = IF d = old THEN "over" ELSE Verdict(d)
            <4>1. Verdict(c)' = "open" /\ Verdict(old)' = "over"
                BY <3>1, <3>2 DEF Verdict, Pending, Gone
            <4>2. \A d \in Challenges \ {c, old} : Verdict(d)' = Verdict(d)
                BY <3>2 DEF Verdict
            <4> QED
                BY <2>6, <3>1, <4>1, <4>2
        <3>5. Promise!Drop(old)
            BY <1>2, <3>4 DEF Promise!Drop
        <3>6. SignInStep
            BY <3>1, <3>5 DEF SignInStep, Promise!Next, Verdicts
        <3> QED
            BY <1>2, <2>1, <2>2, <2>5, <3>3, <3>6, CallsKept
    <2> QED
        BY <2>3, <2>7, <2>8
<1>5. CASE challenge' = Delete(call.cred) /\ Ends(call, "error")
    <2>1. /\ calls' \subseteq CallRow
          /\ \A c \in calls' : c \in calls \/ c.phase = "error"
        BY <1>1, <1>5, Ending DEF Phases
    <2>2. HoldersAgree' /\ SignInStep /\ challenge' \in [Challenges -> ChallengeRow]
        BY <1>1, <1>2, <1>5, DeletionDrops
    <2>3. TypeOK'
        BY <1>1, <1>2, <2>1, <2>2 DEF TypeOK
    <2> QED
        BY <1>2, <2>1, <2>2, <2>3, CallsKept
<1> QED
    BY <1>2, <1>3, <1>4, <1>5 DEF HandleStart

\* A look at the challenge, or a failure, changes none.
LEMMA LookKeeps ==
    ASSUME IInv, NEW call \in calls, HandleStatus(call) \/ Fail(call)
    PROVE  IInv' /\ SignInStep /\ UNCHANGED grants
<1>1. TypeOK /\ HoldersAgree
    BY DEF IInv
<1>2. UNCHANGED <<serverVars, cookie, tab>>
    BY DEF HandleStatus, Fail
<1>3. PICK answer \in {"over", "approved", "open", "error"} : Ends(call, answer)
    BY DEF HandleStatus, Fail
<1>4. answer \in Phases /\ answer \notin {"found", "locked"}
    BY DEF Phases
<1>5. /\ calls' \subseteq CallRow
      /\ \A c \in calls' : c \in calls \/ c.phase = answer
    BY <1>1, <1>3, <1>4, Ending
<1>6. TypeOK'
    BY <1>1, <1>2, <1>5 DEF TypeOK, serverVars
<1> QED
    BY <1>1, <1>2, <1>4, <1>5, <1>6, Unseen, CallsKept DEF serverVars

LEMMA CancelKeeps ==
    ASSUME IInv, NEW call \in calls, HandleCancel(call)
    PROVE  IInv' /\ SignInStep /\ UNCHANGED grants
<1>1. TypeOK /\ HoldersAgree
    BY DEF IInv
<1>2. UNCHANGED <<cookie, blocked, tab, holder, grants>>
    BY DEF HandleCancel
<1>3. /\ calls' \subseteq CallRow
      /\ \A c \in calls' : c \in calls \/ c.phase = "ok"
    BY <1>1, Ending DEF HandleCancel, Phases
<1>4. HoldersAgree' /\ SignInStep /\ challenge' \in [Challenges -> ChallengeRow]
    BY <1>1, <1>2, DeletionDrops DEF HandleCancel
<1>5. TypeOK'
    BY <1>1, <1>2, <1>3, <1>4 DEF TypeOK
<1> QED
    BY <1>2, <1>3, <1>4, <1>5, CallsKept

\* The account a completion finds is the one that took its challenge up.
LEMMA LookUpKeeps ==
    ASSUME IInv, NEW call \in calls, LookUp(call)
    PROVE  IInv' /\ SignInStep /\ UNCHANGED grants
<1>1. TypeOK /\ HoldersAgree /\ call \in CallRow
    BY DEF IInv, TypeOK
<1>2. UNCHANGED <<serverVars, cookie, tab>>
    BY DEF LookUp
<1>3. CASE Ends(call, "refused") \/ Ends(call, "error")
    <2>1. /\ calls' \subseteq CallRow
          /\ \A c \in calls' : c \in calls \/ c.phase \in {"refused", "error"}
        BY <1>1, <1>3, Ending DEF Phases
    <2>2. TypeOK'
        BY <1>1, <1>2, <2>1 DEF TypeOK, serverVars
    <2> QED
        BY <1>1, <1>2, <2>1, <2>2, Unseen, CallsKept DEF serverVars
<1>4. CASE /\ Live(call.cred)
           /\ challenge[call.cred].status = "approved"
           /\ Goes(call, [call EXCEPT !.phase = "found", !.tg = challenge[call.cred].tg])
    <2>1. /\ call.cred \in Challenges
          /\ challenge[call.cred].tg = holder[call.cred]
          /\ challenge[call.cred].tg \in Accounts
        BY <1>1, <1>4 DEF Live, HoldersAgree, TypeOK, ChallengeRow, Unmade, Gone, Pending
    <2>2. PICK account \in Accounts :
              /\ account = holder[call.cred]
              /\ Goes(call, [call EXCEPT !.phase = "found", !.tg = account])
        BY <1>4, <2>1
    <2> DEFINE next == [call EXCEPT !.phase = "found", !.tg = account]
    <2>3. /\ next \in CallRow
          /\ next.phase = "found" /\ next.cred = call.cred /\ next.tg = account
        BY <1>1, <2>2 DEF CallRow, Phases, Pre
    <2> HIDE DEF next
    <2>4. calls' \subseteq CallRow /\ calls' \subseteq calls \cup {next}
        BY <1>1, <2>2, <2>3, Going DEF next
    <2>5. Carries(next)
        BY <2>1, <2>2, <2>3 DEF Carries
    <2>6. TypeOK'
        BY <1>1, <1>2, <2>4 DEF TypeOK, serverVars
    <2> QED
        BY <1>1, <1>2, <2>3, <2>4, <2>5, <2>6, Unseen, CallsKept DEF serverVars
<1> QED
    BY <1>3, <1>4 DEF LookUp

\* The row is locked only of an account that is not blocked.
LEMMA LockKeeps ==
    ASSUME IInv, NEW call \in calls, LockUser(call)
    PROVE  IInv' /\ SignInStep /\ UNCHANGED grants
<1>1. TypeOK /\ HoldersAgree /\ Carries(call)
    BY DEF IInv, CallsAgree, LockUser
<1>2. UNCHANGED <<cookie, blocked, tab, holder, grants>>
    BY DEF LockUser
<1>3. CASE call.tg \notin blocked /\ Ends(call, "locked") /\ UNCHANGED challenge
    <2>1. /\ calls' \subseteq CallRow
          /\ \A c \in calls' :
                \/ c \in calls
                \/ c.phase = "locked" /\ c.cred = call.cred /\ c.tg = call.tg
        BY <1>1, <1>3, Ending DEF Phases, Pre
    <2>2. \A c \in calls' : c \in calls \/ (Carries(c) /\ c.tg \notin blocked)
        BY <1>1, <1>3, <2>1 DEF Carries
    <2>3. TypeOK'
        BY <1>1, <1>2, <1>3, <2>1 DEF TypeOK
    <2> QED
        BY <1>1, <1>2, <1>3, <2>2, <2>3, Unseen, CallsKept
<1>4. CASE challenge' = Delete(call.cred) /\ Ends(call, "refused")
    <2>1. /\ calls' \subseteq CallRow
          /\ \A c \in calls' : c \in calls \/ c.phase = "refused"
        BY <1>1, <1>4, Ending DEF Phases
    <2>2. HoldersAgree' /\ SignInStep /\ challenge' \in [Challenges -> ChallengeRow]
        BY <1>1, <1>2, <1>4, DeletionDrops
    <2>3. TypeOK'
        BY <1>1, <1>2, <2>1, <2>2 DEF TypeOK
    <2> QED
        BY <1>2, <2>1, <2>2, <2>3, CallsKept
<1> QED
    BY <1>2, <1>3, <1>4 DEF LockUser

\* What a grant is: of the account a locked completion is about, which is not
\* blocked.
Grants ==
    \/ UNCHANGED grants
    \/ \E account \in Accounts, c \in Challenges :
           /\ account \notin blocked
           /\ grants' = Append(grants, [account |-> account, challenge |-> c])

LEMMA ConsumeKeeps ==
    ASSUME IInv, NEW call \in calls, Consume(call)
    PROVE  IInv' /\ SignInStep /\ Grants
<1>1. /\ TypeOK /\ HoldersAgree
      /\ Carries(call)
      /\ call.tg \notin blocked
    BY DEF IInv, CallsAgree, LockedAreFree, Consume
<1>2. UNCHANGED <<cookie, blocked, tab, holder>>
    BY DEF Consume
<1>3. /\ calls' \subseteq CallRow
      /\ \A c \in calls' : c \in calls \/ c.phase \in {"ok", "refused"}
    BY <1>1, Ending DEF Consume, Phases
<1>4. CASE /\ Live(call.cred)
           /\ challenge[call.cred].status = "approved"
           /\ challenge' = Consumed(call.cred)
           /\ grants' = Append(grants, [account |-> call.tg, challenge |-> call.cred])
    <2> DEFINE c == call.cred
               grant == [account |-> call.tg, challenge |-> c]
    <2>1. c \in Challenges /\ call.tg = holder[c] /\ call.tg \in Accounts
        BY <1>1 DEF Carries
    <2>2. challenge' = [challenge EXCEPT ![c] = Gone] /\ Verdict(c) = "yes"
        BY <1>4 DEF Consumed, Verdict
    <2>3. HoldersAgree' /\ Verdicts' = [Verdicts EXCEPT ![c] = "over"]
        BY <1>1, <1>2, <2>1, <2>2, ChallengeGoes
    <2>4. Promise!Enter(c)
        BY <1>2, <1>4, <2>1, <2>2, <2>3 DEF Promise!Enter, Verdicts
    <2>5. SignInStep
        BY <2>1, <2>4 DEF SignInStep, Promise!Next, Verdicts
    <2>6. Grants
        BY <1>1, <1>4, <2>1 DEF Grants
    <2>7. challenge' \in [Challenges -> ChallengeRow]
        BY <1>1, <2>1, <2>2 DEF TypeOK, ChallengeRow
    <2>8. grants' \in Seq([account : Accounts, challenge : Challenges])
        <3>1. grant \in [account : Accounts, challenge : Challenges]
            BY <2>1
        <3> QED
            BY <1>1, <1>4, <3>1 DEF TypeOK
    <2>9. TypeOK'
        BY <1>1, <1>2, <1>3, <2>7, <2>8 DEF TypeOK
    <2> QED
        BY <1>2, <1>3, <2>3, <2>5, <2>6, <2>9, CallsKept
<1>5. CASE UNCHANGED <<challenge, grants>>
    <2>1. TypeOK'
        BY <1>1, <1>2, <1>3, <1>5 DEF TypeOK
    <2> QED
        BY <1>1, <1>2, <1>3, <1>5, <2>1, Unseen, CallsKept DEF Grants
<1> QED
    BY <1>4, <1>5 DEF Consume

-----------------------------------------------------------------------------
(* Telegram, Redis' clock and the administrator                            *)

LEMMA ClaimKeeps ==
    ASSUME IInv, NEW c \in Challenges, NEW a \in Accounts, Claim(c, a)
    PROVE  IInv' /\ SignInStep /\ UNCHANGED grants
<1>1. TypeOK /\ HoldersAgree /\ CallsAgree /\ LockedAreFree
    BY DEF IInv
<1>2. /\ UNCHANGED <<cookie, blocked, tab, calls, grants>>
      /\ challenge[c].status = "pending"
      /\ challenge' = [challenge EXCEPT ![c] = ClaimedBy(a)]
      /\ holder' = [holder EXCEPT ![c] = a]
    BY DEF Claim
<1>3. holder[c] = Nobody
    BY <1>1, <1>2 DEF HoldersAgree
<1>4. ClaimedBy(a) \in ChallengeRow /\ ClaimedBy(a).status = "claimed" /\ ClaimedBy(a).tg = a
    BY DEF ClaimedBy, ChallengeRow
<1>5. TypeOK'
    BY <1>1, <1>2, <1>4 DEF TypeOK
<1>6. HoldersAgree'
    BY <1>1, <1>2, <1>4 DEF TypeOK, HoldersAgree
<1>7. CallsAgree'
    BY <1>1, <1>2, <1>3, BotLoginAssumption DEF TypeOK, CallsAgree, Carries
<1>8. LockedAreFree'
    BY <1>1, <1>2 DEF LockedAreFree
<1>9. SignInStep
    <2>1. challenge'[c] = ClaimedBy(a) /\ \A d \in Challenges \ {c} : challenge'[d] = challenge[d]
        BY <1>1, <1>2 DEF TypeOK
    <2>2. Verdict(c) = "open" /\ Verdict(c)' = "open"
        BY <1>2, <1>4, <2>1 DEF Verdict
    <2>3. \A d \in Challenges \ {c} : Verdict(d)' = Verdict(d)
        BY <2>1 DEF Verdict
    <2>4. Promise!TakeUp(c, a)
        BY <1>2, <1>3, <2>2, <2>3 DEF Promise!TakeUp
    <2> QED
        BY <2>4 DEF SignInStep, Promise!Next, Verdicts
<1> QED
    BY <1>2, <1>5, <1>6, <1>7, <1>8, <1>9 DEF IInv

LEMMA DecideKeeps ==
    ASSUME IInv, NEW c \in Challenges, NEW a \in Accounts,
           NEW verdict \in {"approved", "denied"}, Decide(c, a, verdict)
    PROVE  IInv' /\ SignInStep /\ UNCHANGED grants
<1>1. TypeOK /\ HoldersAgree
    BY DEF IInv
<1>2. /\ UNCHANGED <<cookie, blocked, tab, calls, holder, grants>>
      /\ challenge[c].status = "claimed" /\ challenge[c].tg = a
      /\ challenge' = [challenge EXCEPT ![c].status = verdict]
    BY DEF Decide, Undecided
<1> DEFINE row == [challenge[c] EXCEPT !.status = verdict]
<1>3. challenge[c] \in [status : {"claimed", "approved", "denied"}, tg : Accounts]
    BY <1>1, <1>2 DEF TypeOK, ChallengeRow, Unmade, Gone, Pending
<1>4. row \in ChallengeRow /\ row.status = verdict /\ row.tg = a
    BY <1>2, <1>3 DEF ChallengeRow
<1>5. challenge' = [challenge EXCEPT ![c] = row]
    BY <1>2
<1>6. holder[c] = a
    BY <1>1, <1>2 DEF HoldersAgree
<1> HIDE DEF row
<1>7. TypeOK'
    BY <1>1, <1>2, <1>4, <1>5 DEF TypeOK
<1>8. HoldersAgree'
    BY <1>1, <1>2, <1>4, <1>5, <1>6 DEF TypeOK, HoldersAgree
<1>9. SignInStep
    <2> DEFINE word == IF verdict = "approved" THEN "yes" ELSE "no"
    <2>1. challenge'[c] = row /\ \A d \in Challenges \ {c} : challenge'[d] = challenge[d]
        BY <1>1, <1>5 DEF TypeOK
    <2>2. Verdict(c) = "open" /\ Verdict(c)' = word
        BY <1>2, <1>4, <2>1 DEF Verdict
    <2>3. \A d \in Challenges \ {c} : Verdict(d)' = Verdict(d)
        BY <2>1 DEF Verdict
    <2>4. word \in {"yes", "no"}
        OBVIOUS
    <2> HIDE DEF word
    <2>5. holder[c] # Nobody
        BY <1>6, BotLoginAssumption
    <2>6. Promise!Say(c, word)
        BY <1>2, <2>2, <2>3, <2>5 DEF Promise!Say
    <2> QED
        BY <2>4, <2>6 DEF SignInStep, Promise!Next, Verdicts
<1> QED
    BY <1>2, <1>7, <1>8, <1>9, CallsKept

LEMMA ExpireKeeps ==
    ASSUME IInv, NEW c \in Challenges, Expire(c)
    PROVE  IInv' /\ SignInStep /\ UNCHANGED grants
<1>1. TypeOK /\ HoldersAgree
    BY DEF IInv
<1>2. /\ UNCHANGED <<cookie, blocked, tab, calls, holder, grants>>
      /\ challenge' = [challenge EXCEPT ![c] = Gone]
    BY DEF Expire
<1>3. HoldersAgree' /\ SignInStep
    BY <1>1, <1>2, ChallengeGoes
<1>4. TypeOK'
    BY <1>1, <1>2 DEF TypeOK, ChallengeRow
<1> QED
    BY <1>2, <1>3, <1>4, CallsKept

\* A row that a completion holds is not blocked under it.
LEMMA BlockKeeps ==
    ASSUME IInv, NEW a \in Accounts, Block(a)
    PROVE  IInv' /\ SignInStep /\ UNCHANGED grants
<1>1. TypeOK /\ HoldersAgree /\ CallsAgree /\ LockedAreFree
    BY DEF IInv
<1>2. /\ UNCHANGED <<challenge, cookie, tab, calls, holder, grants>>
      /\ RowFree(a) /\ blocked' = blocked \cup {a}
    BY DEF Block
<1>3. TypeOK'
    BY <1>1, <1>2 DEF TypeOK
<1>4. CallsAgree'
    BY <1>1, <1>2 DEF CallsAgree, Carries
<1>5. LockedAreFree'
    BY <1>1, <1>2 DEF LockedAreFree, RowFree
<1> QED
    BY <1>1, <1>2, <1>3, <1>4, <1>5, Unseen DEF IInv

-----------------------------------------------------------------------------
LEMMA Initially == Init => IInv /\ Promise!Init
<1> SUFFICES ASSUME Init
             PROVE  IInv /\ Promise!Init
    OBVIOUS
<1>1. \A c \in Challenges : challenge[c] = Unmade /\ holder[c] = Nobody
    BY DEF Init
<1>2. TypeOK
    BY <1>1 DEF Init, TypeOK, ChallengeRow, Modes
<1>3. HoldersAgree
    BY <1>1 DEF HoldersAgree, Unmade
<1>4. CallsAgree /\ LockedAreFree
    BY DEF Init, CallsAgree, LockedAreFree
<1>5. \A c \in Challenges : Verdict(c) = "open"
    BY <1>1 DEF Verdict, Unmade
<1>6. Promise!Init
    BY <1>5 DEF Init, Promise!Init
<1> QED
    BY <1>2, <1>3, <1>4, <1>6 DEF IInv

LEMMA Consecution ==
    ASSUME IInv, [Next]_vars
    PROVE  IInv' /\ SignInStep /\ Grants
<1>1. CASE \/ \E t \in Tabs : Click(t)
           \/ \E call \in calls : Hear(call) \/ GiveUp(call)
           \/ Logout
    BY <1>1, PageKeeps DEF Grants
<1>2. ASSUME NEW call \in calls, Serve(call)
      PROVE  IInv' /\ SignInStep /\ Grants
    BY <1>2, StartKeeps, LookKeeps, CancelKeeps, LookUpKeeps, LockKeeps, ConsumeKeeps
       DEF Serve, Grants
<1>3. ASSUME NEW c \in Challenges, Expire(c)
      PROVE  IInv' /\ SignInStep /\ Grants
    BY <1>3, ExpireKeeps DEF Grants
<1>4. ASSUME NEW c \in Challenges, NEW a \in Accounts, Bot(c, a)
      PROVE  IInv' /\ SignInStep /\ Grants
    BY <1>4, ClaimKeeps, DecideKeeps DEF Bot, Grants
<1>5. ASSUME NEW a \in Accounts, Block(a)
      PROVE  IInv' /\ SignInStep /\ Grants
    BY <1>5, BlockKeeps DEF Grants
<1>6. CASE UNCHANGED vars
    <2>1. UNCHANGED <<challenge, cookie, blocked, tab, calls, holder, grants>>
        BY <1>6 DEF vars
    <2>2. TypeOK /\ HoldersAgree
        BY DEF IInv
    <2>3. TypeOK'
        BY <2>1, <2>2 DEF TypeOK
    <2> QED
        BY <2>1, <2>2, <2>3, Unseen, CallsKept DEF Grants
<1> QED
    BY <1>1, <1>2, <1>3, <1>4, <1>5, <1>6 DEF Next

LEMMA Invariance == Spec => []IInv
<1>1. IInv /\ [Next]_vars => IInv'
    BY Consecution
<1> QED
    BY <1>1, Initially, PTL DEF Spec

\* Every flag, call and challenge keeps its type (bot_login.py, bot_login.js).
THEOREM TypeCorrect == Spec => []TypeOK
<1>1. IInv => TypeOK
    BY DEF IInv
<1> QED
    BY <1>1, Invariance, PTL

\* A challenge lets in only the account that first opened it, only if that
\* account said yes, and only once, however many tabs complete it, answers are
\* repeated or challenges replaced (complete_bot_login and the Lua scripts).
THEOREM SignInIsApproved == Spec => ImplementsApprovedSignIn
<1>1. IInv /\ [Next]_vars => SignInStep
    BY Consecution
<1>2. Spec => /\ Promise!Init
              /\ [][Promise!Next]_<<holder, [c \in Challenges |-> Verdict(c)], grants>>
    BY <1>1, Initially, Invariance, PTL DEF Spec, SignInStep
<1> QED
    BY <1>2, PTL DEF ImplementsApprovedSignIn, Promise!Spec

\* Nobody is let in who is blocked by then, though he was free when he approved
\* and when his approval was looked up (complete_bot_login, FOR UPDATE).
THEOREM BlockedAreRefused == Spec => BlockedStayOut
<1> DEFINE Barred ==
             Len(grants') > Len(grants) => grants'[Len(grants')].account \notin blocked
<1>1. IInv /\ [Next]_vars => Barred
    <2> SUFFICES ASSUME IInv, [Next]_vars, Len(grants') > Len(grants)
                 PROVE  grants'[Len(grants')].account \notin blocked
        OBVIOUS
    <2>1. grants \in Seq([account : Accounts, challenge : Challenges])
        BY DEF IInv, TypeOK
    <2>2. ~(UNCHANGED grants)
        BY <2>1
    <2>3. PICK account \in Accounts, c \in Challenges :
              /\ account \notin blocked
              /\ grants' = Append(grants, [account |-> account, challenge |-> c])
        BY <2>2, Consecution DEF Grants
    <2> QED
        BY <2>1, <2>3
<1> QED
    BY <1>1, Invariance, PTL DEF Spec, BlockedStayOut

-----------------------------------------------------------------------------
(* The chat page                                                           *)

\* What tells the messages of a chat, the requests of a page and their jobs apart.
ItemStatus == {"none", "sending", "unknown", "pending", "completed", "human"}
JobStatus == {"pending", "completed", "human"}
ChatStatus == {"none", "ai", "waiting", "human"}
SomeText == Texts \cup {NoText}

ItemRow == [text : SomeText, status : ItemStatus, job : Nat]
JobRow == [id : Ids, text : Texts, said : Nat, status : JobStatus]
ServerRow == [status : ChatStatus, said : Nat, jobs : Seq(JobRow)]
PageRow ==
    [ready : BOOLEAN, restored : BOOLEAN, stored : [Ids -> ItemRow], log : Seq(Nat),
     cursor : Nat, mode : ChatStatus, items : [Ids -> ItemRow], input : SomeText,
     submitting : BOOLEAN, handoff : BOOLEAN, polling : BOOLEAN]
ChatCallRow ==
    [op : {"send", "handoff", "history", "jobs"}, id : Ids \cup {0}, text : SomeText,
     after : Nat, gone : BOOLEAN, answered : BOOLEAN, accepted : BOOLEAN, last : Nat,
     status : ChatStatus, active : SUBSET Ids, jobs : Seq(JobStatus)]

ChatTypeOK ==
    /\ server \in ServerRow
    /\ page \in PageRow
    /\ chatCalls \subseteq ChatCallRow
    /\ overlapped \in BOOLEAN
    /\ told \subseteq Texts
    /\ lost \in Nat
    /\ reloads \in Nat

\* A request id, or its row, is blank until it is given a text.
RowsAreWhole(rows) ==
    \A i \in Ids : IF rows[i].status = "none" THEN rows[i].job = NoJob
                   ELSE rows[i].text \in Texts

\* A page that was not restored shows nothing yet, and what it is restored from
\* has no send under way.
BlankBefore ==
    /\ page.ready => page.restored
    /\ ~page.restored => \A i \in Ids : page.items[i].status = "none"
    /\ RowsAreWhole(page.items)
    /\ RowsAreWhole(page.stored)
    /\ \A i \in Ids : page.stored[i].status # "sending"

JobsApart ==
    \A j, k \in DOMAIN server.jobs : server.jobs[j].id = server.jobs[k].id => j = k

\* The job of a request is one of its id.
RowsHaveJobs(rows) ==
    \A i \in Ids : rows[i].job # NoJob =>
        rows[i].job \in DOMAIN server.jobs /\ server.jobs[rows[i].job].id = i

\* The sends whose answer this page will see.
Sends == {call \in chatCalls : call.op = "send" /\ ~call.gone}

\* What a call knows of the requests and jobs it is about.
Fits(call) ==
    /\ Len(call.jobs) <= Len(server.jobs)
    /\ call.gone => call.op \in {"send", "handoff"} /\ ~call.answered
    /\ call.op = "send" => call.id \in Ids /\ call.text \in Texts
    /\ call.op = "send" /\ call.answered /\ call.accepted =>
          \E j \in DOMAIN call.jobs : server.jobs[j].id = call.id
    /\ call.op = "send" /\ ~call.gone =>
          /\ page.restored
          /\ page.items[call.id].status # "none"
          /\ page.items[call.id].text = call.text
    /\ call.op = "jobs" =>
          /\ page.restored
          /\ \A i \in call.active :
                /\ page.items[i].job # NoJob
                /\ call.answered => page.items[i].job \in DOMAIN call.jobs

CallsFit == \A call \in chatCalls : Fits(call)

\* Who has a text under which request id.
Keeps(rows, i, text) == rows[i].status # "none" /\ rows[i].text = text
AsksFor(call, i, text) == call.op = "send" /\ call.id = i /\ call.text = text
Jobs(i, text) == \E j \in DOMAIN server.jobs : server.jobs[j].id = i /\ server.jobs[j].text = text
Holds(i, text) ==
    \/ Keeps(page.items, i, text)
    \/ Keeps(page.stored, i, text)
    \/ \E call \in chatCalls : AsksFor(call, i, text)
    \/ Jobs(i, text)

OneIdPerText ==
    \A i, k \in Ids, text \in Texts : Holds(i, text) /\ Holds(k, text) => i = k

\* A question that was not reported as sent is in the page, or in what it will
\* be restored from, as one whose fate is unknown or which is being sent.
UntoldIsKept ==
    \A i \in Ids, text \in Texts \ told :
        Holds(i, text) =>
            IF page.restored
            THEN page.items[i].text = text /\ page.items[i].status \in {"unknown", "sending"}
            ELSE page.stored[i].text = text /\ page.stored[i].status = "unknown"

\* What has a job was reported as sent, and the input was not.
JobsAreTold ==
    /\ \A i \in Ids : page.items[i].job # NoJob => page.items[i].text \in told
    /\ \A i \in Ids : page.stored[i].job # NoJob => page.stored[i].text \in told
    /\ page.input = NoText \/ page.input \notin told

OneSend ==
    /\ \A a, b \in Sends : a = b
    /\ \A i \in Ids : page.items[i].status = "sending" =>
          page.submitting /\ \E call \in Sends : call.id = i

Always ==
    /\ BlankBefore
    /\ JobsApart
    /\ RowsHaveJobs(page.items)
    /\ RowsHaveJobs(page.stored)
    /\ CallsFit

InTurn ==
    /\ OneIdPerText
    /\ UntoldIsKept
    /\ JobsAreTold
    /\ OneSend

\* The inductive invariant.
ChatInv ==
    /\ ChatTypeOK
    /\ Always
    /\ overlapped \/ InTurn

-----------------------------------------------------------------------------
(* The functions of the page                                               *)

LEMMA FreshIsPage ==
    ASSUME NEW rows \in [Ids -> ItemRow]
    PROVE  /\ Fresh(rows) \in PageRow
           /\ Fresh(rows).stored = rows
           /\ ~Fresh(rows).restored /\ ~Fresh(rows).ready
           /\ Fresh(rows).input = NoText
           /\ \A i \in Ids : Fresh(rows).items[i] = Unused
<1>1. Unused \in ItemRow
    BY DEF Unused, ItemRow, SomeText, ItemStatus, NoJob
<1>2. [i \in Ids |-> Unused] \in [Ids -> ItemRow]
    BY <1>1
<1>3. <<>> \in Seq(Nat)
    OBVIOUS
<1>4. QED
    BY <1>2, <1>3 DEF Fresh, PageRow, ChatStatus, SomeText

LEMMA SomeNumbers ==
    ASSUME NEW a \in Nat, NEW b \in Nat
    PROVE  Least(a, b) \in Nat /\ Most(a, b) \in Nat
    BY DEF Least, Most

LEMMA AddedIsPage ==
    ASSUME NEW p \in PageRow, NEW after \in Nat, NEW last \in Nat
    PROVE  /\ Added(p, after, last) \in PageRow
           /\ Added(p, after, last).items = p.items
           /\ Added(p, after, last).stored = p.stored
           /\ Added(p, after, last).restored = p.restored
           /\ Added(p, after, last).ready = p.ready
           /\ Added(p, after, last).input = p.input
           /\ Added(p, after, last).submitting = p.submitting
<1> DEFINE upTo == Least(last, after + PageSize)
           first == Most(after, p.cursor)
           more == [i \in 1 .. Most(upTo - first, 0) |-> first + i]
<1>1. upTo \in Nat /\ first \in Nat /\ p.cursor \in Nat
  <2>1. p.cursor \in Nat /\ after + PageSize \in Nat
      BY ChatAssumption DEF PageRow
  <2>2. QED
      BY <2>1, SomeNumbers
<1>2. Most(upTo - first, 0) \in Nat /\ Most(p.cursor, upTo) \in Nat
    BY <1>1 DEF Most
<1>3. more \in Seq(Nat)
  <2> HIDE DEF upTo, first
  <2>1. \A i \in 1 .. Most(upTo - first, 0) : first + i \in Nat
      BY <1>1, <1>2
  <2>2. QED
      BY <1>2, <2>1
<1>4. p.log \o more \in Seq(Nat)
  <2> HIDE DEF more
  <2>1. p.log \in Seq(Nat)
      BY DEF PageRow
  <2>2. QED
      BY <1>3, <2>1
<1>5. Added(p, after, last) = [p EXCEPT !.log = p.log \o more, !.cursor = Most(p.cursor, upTo)]
    BY DEF Added
<1> HIDE DEF upTo, first, more
<1>6. QED
    BY <1>2, <1>4, <1>5 DEF PageRow

LEMMA RestoredIsPage ==
    ASSUME NEW p \in PageRow
    PROVE  /\ Restored(p) \in PageRow
           /\ Restored(p).restored
           /\ Restored(p).ready = p.ready
           /\ Restored(p).input = p.input
           /\ Restored(p).submitting = p.submitting
           /\ p.restored => Restored(p) = p
           /\ ~p.restored =>
                 /\ Restored(p).items = p.stored
                 /\ \A i \in Ids : Restored(p).stored[i] = Unused
<1>1. Unused \in ItemRow
    BY DEF Unused, ItemRow, SomeText, ItemStatus, NoJob
<1>2. [i \in Ids |-> Unused] \in [Ids -> ItemRow]
    BY <1>1
<1>3. QED
    BY <1>2 DEF Restored, PageRow

LEMMA SettledIsPage ==
    ASSUME NEW p \in PageRow, NEW call, call.id \in Ids, NEW status \in ItemStatus
    PROVE  /\ Settled(p, call, status) \in PageRow
           /\ Settled(p, call, status).items =
                 [p.items EXCEPT ![call.id] = [p.items[call.id] EXCEPT !.status = status]]
           /\ Settled(p, call, status).stored = p.stored
           /\ Settled(p, call, status).restored = p.restored
           /\ Settled(p, call, status).ready = p.ready
           /\ Settled(p, call, status).input =
                 IF p.input = p.items[call.id].text /\ status # "unknown" THEN NoText ELSE p.input
<1>1. p.items \in [Ids -> ItemRow] /\ p.input \in SomeText /\ NoText \in SomeText
    BY DEF PageRow, SomeText
<1>2. [p.items[call.id] EXCEPT !.status = status] \in ItemRow
    BY <1>1 DEF ItemRow
<1>3. [p.items EXCEPT ![call.id] = [p.items[call.id] EXCEPT !.status = status]]
         \in [Ids -> ItemRow]
    BY <1>1, <1>2
<1>4. QED
    BY <1>1, <1>3 DEF Settled, PageRow

LEMMA SavedRows ==
    ASSUME NEW items \in [Ids -> ItemRow]
    PROVE  /\ Saved(items) \in [Ids -> ItemRow]
           /\ \A i \in Ids :
                 IF items[i].status \in Final
                 THEN Saved(items)[i] = Unused
                 ELSE /\ Saved(items)[i].text = items[i].text
                      /\ Saved(items)[i].job = items[i].job
                      /\ Saved(items)[i].status =
                            IF items[i].status = "sending" THEN "unknown" ELSE items[i].status
<1>1. Unused \in ItemRow
    BY DEF Unused, ItemRow, SomeText, ItemStatus, NoJob
<1> DEFINE left(i) == [items[i] EXCEPT !.status = "unknown"]
<1>2. ASSUME NEW i \in Ids
      PROVE  /\ left(i) \in ItemRow
             /\ left(i).text = items[i].text /\ left(i).job = items[i].job
             /\ left(i).status = "unknown"
    BY DEF ItemRow, ItemStatus
<1>3. ASSUME NEW i \in Ids
      PROVE  Saved(items)[i] = IF items[i].status \in Final THEN Unused
                               ELSE IF items[i].status = "sending" THEN left(i) ELSE items[i]
    BY DEF Saved, Final
<1>4. /\ Saved(items) = [i \in DOMAIN Saved(items) |-> Saved(items)[i]]
      /\ DOMAIN Saved(items) = Ids
    BY DEF Saved
<1> HIDE DEF left
<1>5. \A i \in Ids : Saved(items)[i] \in ItemRow
    BY <1>1, <1>2, <1>3
<1>6. QED
    BY <1>2, <1>3, <1>4, <1>5

LEMMA CallIsTyped ==
    ASSUME NEW op \in {"send", "handoff", "history", "jobs"}, NEW id \in Ids \cup {0}
    PROVE  ChatCall(op, id) \in ChatCallRow
<1>1. <<>> \in Seq(JobStatus)
    OBVIOUS
<1>2. QED
    BY <1>1 DEF ChatCall, ChatCallRow, SomeText, ChatStatus

-----------------------------------------------------------------------------
(* The server's side of a call                                             *)

\* The statuses in an answer are those of the jobs there are.
LEMMA StatusesOfJobs ==
    ASSUME NEW of \in ServerRow
    PROVE  /\ Statuses(of) \in Seq(JobStatus)
           /\ DOMAIN Statuses(of) = DOMAIN of.jobs
           /\ Len(Statuses(of)) = Len(of.jobs)
<1>1. of.jobs \in Seq(JobRow)
    BY DEF ServerRow
<1>2. Len(of.jobs) \in Nat /\ DOMAIN of.jobs = 1 .. Len(of.jobs)
    BY <1>1
<1>3. \A j \in 1 .. Len(of.jobs) : of.jobs[j].status \in JobStatus
  <2>1. \A j \in 1 .. Len(of.jobs) : of.jobs[j] \in JobRow
      BY <1>1, <1>2
  <2>2. QED
      BY <2>1 DEF JobRow
<1>4. Statuses(of) = [j \in 1 .. Len(of.jobs) |-> of.jobs[j].status]
    BY <1>2 DEF Statuses
<1>5. QED
    BY <1>2, <1>3, <1>4

LEMMA AnswerIsTyped ==
    ASSUME NEW call \in ChatCallRow, NEW accepted \in BOOLEAN, NEW new \in ServerRow
    PROVE  LET answer == WithAnswer(call, accepted, new) IN
           /\ answer \in ChatCallRow
           /\ answer.op = call.op /\ answer.id = call.id /\ answer.text = call.text
           /\ answer.gone = call.gone /\ answer.active = call.active
           /\ answer.accepted = accepted
           /\ answer.jobs \in {call.jobs, Statuses(new)}
           /\ call.op = "send" => answer.jobs = Statuses(new)
           /\ call.op = "jobs" /\ call.active # {} => answer.jobs = Statuses(new)
<1> DEFINE reply == [call EXCEPT !.answered = TRUE, !.accepted = accepted]
<1>1. /\ reply \in ChatCallRow /\ reply.accepted = accepted
      /\ reply.op = call.op /\ reply.id = call.id /\ reply.text = call.text
      /\ reply.gone = call.gone /\ reply.active = call.active /\ reply.jobs = call.jobs
    BY DEF ChatCallRow
<1>2. Statuses(new) \in Seq(JobStatus)
    BY StatusesOfJobs
<1>3. new.said \in Nat /\ new.status \in ChatStatus
    BY DEF ServerRow
<1>4. call.op \in {"send", "handoff", "history", "jobs"}
    BY DEF ChatCallRow
<1>5. WithAnswer(call, accepted, new) =
        IF call.op \in {"history", "handoff"}
        THEN [reply EXCEPT !.last = new.said, !.status = new.status]
        ELSE IF call.op = "jobs" /\ call.active = {} THEN reply
        ELSE [reply EXCEPT !.jobs = Statuses(new)]
    BY <1>4 DEF WithAnswer
<1> HIDE DEF reply
<1> DEFINE heard == [reply EXCEPT !.last = new.said, !.status = new.status]
           looked == [reply EXCEPT !.jobs = Statuses(new)]
<1>6. /\ heard \in ChatCallRow /\ heard.accepted = accepted
      /\ heard.op = call.op /\ heard.id = call.id /\ heard.text = call.text
      /\ heard.gone = call.gone /\ heard.active = call.active /\ heard.jobs = call.jobs
    BY <1>1, <1>3 DEF ChatCallRow
<1>7. /\ looked \in ChatCallRow /\ looked.accepted = accepted
      /\ looked.op = call.op /\ looked.id = call.id /\ looked.text = call.text
      /\ looked.gone = call.gone /\ looked.active = call.active
      /\ looked.jobs = Statuses(new)
    BY <1>1, <1>2 DEF ChatCallRow
<1> HIDE DEF heard, looked
<1>8. WithAnswer(call, accepted, new) =
        IF call.op \in {"history", "handoff"} THEN heard
        ELSE IF call.op = "jobs" /\ call.active = {} THEN reply
        ELSE looked
    BY <1>5 DEF heard, looked
<1>9. QED
    BY <1>1, <1>6, <1>7, <1>8

\* A question makes a job of its own unless its request id has one.
LEMMA Submission ==
    ASSUME server \in ServerRow,
           NEW call, call.id \in Ids, call.text \in Texts
    PROVE  /\ Submit(call) \in ServerRow
           /\ Submit(call).status = server.status
           /\ \E j \in DOMAIN Submit(call).jobs : Submit(call).jobs[j].id = call.id
           /\ \/ /\ Submit(call) = server
                 /\ \E j \in DOMAIN server.jobs : server.jobs[j].id = call.id
              \/ /\ \A j \in DOMAIN server.jobs : server.jobs[j].id # call.id
                 /\ \E job \in JobRow : /\ job.id = call.id /\ job.text = call.text
                                        /\ Submit(call).jobs = Append(server.jobs, job)
<1>1. server.jobs \in Seq(JobRow) /\ server.said \in Nat
    BY DEF ServerRow
<1>2. CASE JobOf(call.id) # {}
    BY <1>2 DEF Submit, JobOf
<1>3. CASE JobOf(call.id) = {}
  <2> DEFINE job == [id |-> call.id, text |-> call.text, said |-> server.said + 1,
                     status |-> IF server.status = "human" THEN "human" ELSE "pending"]
  <2>1. job \in JobRow /\ job.id = call.id /\ job.text = call.text
      BY <1>1 DEF JobRow, JobStatus
  <2>2. Submit(call) = [server EXCEPT !.said = server.said + 1, !.jobs = Append(server.jobs, job)]
      BY <1>3 DEF Submit, SubmitAlways
  <2> HIDE DEF job
  <2>3. /\ Append(server.jobs, job) \in Seq(JobRow)
        /\ Append(server.jobs, job)[Len(server.jobs) + 1] = job
        /\ Len(server.jobs) + 1 \in DOMAIN Append(server.jobs, job)
      BY <1>1, <2>1
  <2> DEFINE longer == Append(server.jobs, job)
  <2> HIDE DEF longer
  <2>4. /\ Submit(call) \in ServerRow
        /\ Submit(call).jobs = longer
        /\ Submit(call).status = server.status
    <3>1. longer \in Seq(JobRow) /\ server.said + 1 \in Nat
        BY <1>1, <2>3 DEF longer
    <3>2. Submit(call) = [server EXCEPT !.said = server.said + 1, !.jobs = longer]
        BY <2>2 DEF longer
    <3>3. QED
        BY <3>1, <3>2 DEF ServerRow
  <2>5. \A j \in DOMAIN server.jobs : server.jobs[j].id # call.id
      BY <1>3 DEF JobOf
  <2>6. QED
      BY <2>1, <2>3, <2>4, <2>5 DEF longer
<1>4. QED
    BY <1>2, <1>3

-----------------------------------------------------------------------------
(* Steps that leave requests, sends and the texts of jobs as they are      *)

SameRows ==
    /\ page'.items = page.items /\ page'.stored = page.stored
    /\ page'.restored = page.restored /\ page'.submitting = page.submitting

SameJobs ==
    /\ Len(server'.jobs) = Len(server.jobs)
    /\ \A j \in DOMAIN server.jobs :
          server'.jobs[j].id = server.jobs[j].id /\ server'.jobs[j].text = server.jobs[j].text

LEMMA JobsAreNumbered ==
    ASSUME ChatTypeOK
    PROVE  /\ server.jobs \in Seq(JobRow)
           /\ Len(server.jobs) \in Nat
           /\ DOMAIN server.jobs = 1 .. Len(server.jobs)
           /\ \A j \in DOMAIN server.jobs : server.jobs[j] \in JobRow
<1>1. server.jobs \in Seq(JobRow)
    BY DEF ChatTypeOK, ServerRow
<1>2. QED
    BY <1>1

LEMMA Quiet ==
    ASSUME ChatInv, ChatTypeOK', SameRows, SameJobs,
           page'.ready => page'.restored,
           page'.input \in {NoText, page.input} \/ page'.input \notin told,
           \A call \in chatCalls' : call \in chatCalls \/ (call.op # "send" /\ Fits(call)'),
           Sends \subseteq chatCalls',
           told' = told, overlapped' = overlapped
    PROVE  ChatInv'
<1>1. DOMAIN server'.jobs = DOMAIN server.jobs
  <2>1. DOMAIN server.jobs = 1 .. Len(server.jobs)
      BY JobsAreNumbered DEF ChatInv
  <2>2. server'.jobs \in Seq(JobRow)
      BY DEF ChatTypeOK, ServerRow
  <2>3. QED
      BY <2>1, <2>2 DEF SameJobs
<1>2. Always'
  <2>1. BlankBefore'
      BY DEF ChatInv, Always, BlankBefore, SameRows, RowsAreWhole
  <2>2. JobsApart'
      BY <1>1 DEF ChatInv, Always, JobsApart, SameJobs
  <2>3. RowsHaveJobs(page.items)' /\ RowsHaveJobs(page.stored)'
      BY <1>1 DEF ChatInv, Always, RowsHaveJobs, SameJobs, SameRows
  <2>4. ASSUME NEW call \in chatCalls, call \in chatCalls'
        PROVE  Fits(call)'
    <3>1. Fits(call) /\ call.jobs \in Seq(JobStatus)
        BY DEF ChatInv, Always, CallsFit, ChatTypeOK, ChatCallRow
    <3>2. DOMAIN call.jobs \subseteq DOMAIN server.jobs
      <4>1. DOMAIN server.jobs = 1 .. Len(server.jobs) /\ Len(server.jobs) \in Nat
          BY JobsAreNumbered DEF ChatInv
      <4>2. QED
          BY <3>1, <4>1 DEF Fits
    <3>3. QED
        BY <3>1, <3>2 DEF Fits, SameJobs, SameRows
  <2>5. CallsFit'
      BY <2>4 DEF CallsFit
  <2>6. QED
      BY <2>1, <2>2, <2>3, <2>5 DEF Always
<1>3. ASSUME InTurn
      PROVE  InTurn'
  <2>1. ASSUME NEW i \in Ids, NEW text \in Texts, Holds(i, text)'
        PROVE  Holds(i, text)
    <3>1. Jobs(i, text)' => Jobs(i, text)
        BY <1>1 DEF Jobs, SameJobs
    <3>2. (\E call \in chatCalls : AsksFor(call, i, text))' => \E call \in chatCalls : AsksFor(call, i, text)
        BY DEF AsksFor
    <3>3. QED
        BY <2>1, <3>1, <3>2 DEF Holds, Keeps, SameRows
  <2>2. OneIdPerText' /\ UntoldIsKept'
      BY <1>3, <2>1 DEF InTurn, OneIdPerText, UntoldIsKept, SameRows
  <2>3. JobsAreTold'
      BY <1>3 DEF InTurn, JobsAreTold, SameRows
  <2>4. OneSend'
      BY <1>3 DEF InTurn, OneSend, SameRows, Sends
  <2>5. QED
      BY <2>2, <2>3, <2>4 DEF InTurn
<1>4. QED
    BY <1>2, <1>3 DEF ChatInv

LEMMA Entering ==
    ASSUME ChatInv, NEW text \in Texts, Enter(text)
    PROVE  ChatInv'
<1>1. page \in PageRow /\ text \in SomeText
    BY DEF ChatInv, ChatTypeOK, SomeText
<1>2. page' \in PageRow /\ SameRows /\ page'.ready = page.ready /\ page'.input = text
    BY <1>1 DEF Enter, PageRow, SameRows
<1>3. ChatTypeOK'
    BY <1>2 DEF ChatInv, ChatTypeOK, Enter
<1>4. SameJobs
    BY DEF Enter, SameJobs
<1>5. page'.ready => page'.restored
    BY <1>2 DEF ChatInv, Always, BlankBefore, SameRows
<1>6. text \notin told /\ chatCalls' = chatCalls /\ told' = told /\ overlapped' = overlapped
    BY DEF Enter
<1>7. Sends \subseteq chatCalls'
    BY <1>6 DEF Sends
<1>8. page'.input \in {NoText, page.input} \/ page'.input \notin told
    BY <1>2, <1>6
<1>9. \A call \in chatCalls' : call \in chatCalls \/ (call.op # "send" /\ Fits(call)')
    BY <1>6
<1>10. SameRows
    BY <1>2
<1>11. QED
    BY <1>10, <1>3, <1>4, <1>5, <1>6, <1>7, <1>8, <1>9, Quiet

\* A new call that is not a send disturbs nothing.
LEMMA Calling ==
    ASSUME ChatInv, SameRows, page' \in PageRow,
           page'.ready = page.ready, page'.input = page.input,
           NEW call \in ChatCallRow, call.op \in {"handoff", "history"},
           ~call.gone, call.jobs = <<>>,
           chatCalls' = chatCalls \cup {call},
           UNCHANGED <<server, overlapped, told, lost, reloads>>
    PROVE  ChatInv'
<1>1. ChatTypeOK'
    BY DEF ChatInv, ChatTypeOK
<1>2. SameJobs
    BY DEF SameJobs
<1>3. page'.ready => page'.restored
    BY DEF ChatInv, Always, BlankBefore, SameRows
<1>4. Fits(call)'
  <2>1. Len(server.jobs) \in Nat
      BY JobsAreNumbered DEF ChatInv
  <2>2. QED
      BY <2>1 DEF Fits
<1>5. Sends \subseteq chatCalls'
    BY DEF Sends
<1>6. QED
    BY <1>1, <1>2, <1>3, <1>4, <1>5, Quiet

LEMMA AskingOperator ==
    ASSUME ChatInv, AskForOperator
    PROVE  ChatInv'
<1>1. page \in PageRow
    BY DEF ChatInv, ChatTypeOK
<1>2. page' \in PageRow /\ SameRows /\ page'.ready = page.ready /\ page'.input = page.input
    BY <1>1 DEF AskForOperator, PageRow, SameRows
<1> DEFINE call == ChatCall("handoff", 0)
<1>3. call \in ChatCallRow
    BY CallIsTyped
<1>4. call.op = "handoff" /\ ~call.gone /\ call.jobs = <<>>
    BY DEF ChatCall
<1>5. chatCalls' = chatCalls \cup {call} /\ UNCHANGED <<server, overlapped, told, lost, reloads>>
    BY DEF AskForOperator
<1> HIDE DEF call
<1>6. QED
    BY <1>2, <1>3, <1>4, <1>5, Calling

LEMMA Polling ==
    ASSUME ChatInv, PollChat
    PROVE  ChatInv'
<1>1. page \in PageRow /\ page.cursor \in Nat
    BY DEF ChatInv, ChatTypeOK, PageRow
<1>2. page' \in PageRow /\ SameRows /\ page'.ready = page.ready /\ page'.input = page.input
    BY <1>1 DEF PollChat, PageRow, SameRows
<1> DEFINE call == [ChatCall("history", 0) EXCEPT !.after = page.cursor]
<1>3. call \in ChatCallRow
  <2>1. ChatCall("history", 0) \in ChatCallRow
      BY CallIsTyped
  <2>2. QED
      BY <1>1, <2>1 DEF ChatCallRow
<1>4. call.op = "history" /\ ~call.gone /\ call.jobs = <<>>
    BY DEF ChatCall
<1>5. chatCalls' = chatCalls \cup {call} /\ UNCHANGED <<server, overlapped, told, lost, reloads>>
    BY DEF PollChat
<1> HIDE DEF call
<1>6. QED
    BY <1>2, <1>3, <1>4, <1>5, Calling

\* The server's own steps.
LEMMA Working ==
    ASSUME ChatInv, server' \in ServerRow, SameJobs,
           UNCHANGED <<page, chatCalls, overlapped, told, lost, reloads>>
    PROVE  ChatInv'
<1>1. ChatTypeOK'
    BY DEF ChatInv, ChatTypeOK
<1>2. SameRows /\ Sends \subseteq chatCalls'
    BY DEF SameRows, Sends
<1>3. page'.ready => page'.restored
    BY DEF ChatInv, Always, BlankBefore
<1>4. QED
    BY <1>1, <1>2, <1>3, Quiet

LEMMA JobEnding ==
    ASSUME ChatInv, NEW j \in DOMAIN server.jobs, JobEnds(j)
    PROVE  ChatInv'
<1>1. server \in ServerRow /\ server.said \in Nat
    BY DEF ChatInv, ChatTypeOK, ServerRow
<1> DEFINE done == [server.jobs[j] EXCEPT !.status = "completed"]
           jobs == [server.jobs EXCEPT ![j] = done]
<1>2. /\ server.jobs \in Seq(JobRow)
      /\ server.jobs[j] \in JobRow
      /\ DOMAIN server.jobs = 1 .. Len(server.jobs)
    BY JobsAreNumbered DEF ChatInv
<1>3. done \in JobRow /\ done.id = server.jobs[j].id /\ done.text = server.jobs[j].text
    BY <1>2 DEF JobRow, JobStatus
<1>4. server' = [server EXCEPT !.jobs = jobs, !.said = server.said + 1]
    BY <1>1 DEF JobEnds, ServerRow
<1> HIDE DEF done
<1>5. /\ jobs \in Seq(JobRow) /\ Len(jobs) = Len(server.jobs)
      /\ \A k \in DOMAIN server.jobs : jobs[k].id = server.jobs[k].id /\ jobs[k].text = server.jobs[k].text
    BY <1>2, <1>3
<1> HIDE DEF jobs
<1>6. server' \in ServerRow /\ server'.jobs = jobs
  <2>1. server.said + 1 \in Nat
      BY <1>1
  <2>2. QED
      BY <1>1, <1>4, <1>5, <2>1 DEF ServerRow
<1>7. SameJobs
    BY <1>5, <1>6 DEF SameJobs
<1>8. QED
    BY <1>6, <1>7, Working DEF JobEnds

LEMMA OperatorActing ==
    ASSUME ChatInv, OperatorActs
    PROVE  ChatInv'
<1>1. server \in ServerRow /\ server.said + 1 \in Nat
    BY DEF ChatInv, ChatTypeOK, ServerRow
<1>2. /\ server.jobs \in Seq(JobRow) /\ Len(server.jobs) \in Nat
      /\ DOMAIN server.jobs = 1 .. Len(server.jobs)
      /\ \A j \in DOMAIN server.jobs : server.jobs[j] \in JobRow
    BY JobsAreNumbered DEF ChatInv
<1> DEFINE moved(job) == [job EXCEPT !.status = "human"]
           row(j) == IF server.jobs[j].status = "pending" THEN moved(server.jobs[j])
                     ELSE server.jobs[j]
           jobs == [j \in DOMAIN server.jobs |-> row(j)]
<1>3. ASSUME NEW j \in DOMAIN server.jobs
      PROVE  row(j) \in JobRow /\ row(j).id = server.jobs[j].id /\ row(j).text = server.jobs[j].text
    BY <1>2 DEF JobRow, JobStatus
<1>4. \/ server' = [server EXCEPT !.status = "human", !.said = server.said + 1, !.jobs = jobs]
      \/ server' = [server EXCEPT !.status = "ai", !.said = server.said + 1]
    BY DEF OperatorActs
<1> HIDE DEF row
<1>5. /\ jobs \in Seq(JobRow) /\ Len(jobs) = Len(server.jobs)
      /\ \A k \in DOMAIN server.jobs : jobs[k].id = server.jobs[k].id /\ jobs[k].text = server.jobs[k].text
    BY <1>2, <1>3
<1> HIDE DEF jobs
<1>6. server' \in ServerRow /\ server'.jobs \in {jobs, server.jobs}
    BY <1>1, <1>4, <1>5 DEF ServerRow, ChatStatus
<1>7. SameJobs
    BY <1>5, <1>6 DEF SameJobs
<1>8. QED
    BY <1>6, <1>7, Working DEF OperatorActs

LEMMA HandoffArriving ==
    ASSUME ChatInv, NEW call \in chatCalls, HandoffArrives(call)
    PROVE  ChatInv'
<1>1. page \in PageRow /\ call \in ChatCallRow
    BY DEF ChatInv, ChatTypeOK
<1> DEFINE shown == Added(page, 0, call.last)
<1>2. call.last \in Nat /\ call.status \in ChatStatus
    BY <1>1 DEF ChatCallRow
<1>3. /\ shown \in PageRow /\ shown.items = page.items /\ shown.stored = page.stored
      /\ shown.restored = page.restored /\ shown.ready = page.ready
      /\ shown.input = page.input /\ shown.submitting = page.submitting
    BY <1>1, <1>2, AddedIsPage
<1>4. page' = [shown EXCEPT !.mode = call.status, !.handoff = FALSE]
    BY DEF HandoffArrives
<1> HIDE DEF shown
<1>5. page' \in PageRow /\ SameRows /\ page'.ready = page.ready /\ page'.input = page.input
    BY <1>2, <1>3, <1>4 DEF PageRow, SameRows
<1>6. ChatTypeOK'
    BY <1>5 DEF ChatInv, ChatTypeOK, HandoffArrives
<1>7. SameJobs /\ Sends \subseteq chatCalls' /\ chatCalls' \subseteq chatCalls
    BY DEF HandoffArrives, SameJobs, Sends
<1>8. page'.ready => page'.restored
    BY <1>5 DEF ChatInv, Always, BlankBefore, SameRows
<1>9. QED
    BY <1>5, <1>6, <1>7, <1>8, Quiet DEF HandoffArrives

-----------------------------------------------------------------------------
(* The server acts on a call                                               *)

\* An answer about conversations or jobs, and the end of a call whose page left.
LEMMA AnsweringElse ==
    ASSUME ChatInv, NEW call \in chatCalls, NEW accepted \in BOOLEAN,
           server' \in ServerRow, SameJobs,
           chatCalls' = (chatCalls \ {call}) \cup
               (IF call.gone THEN {} ELSE {WithAnswer(call, accepted, server')}),
           call.op # "send",
           lost' \in Nat, UNCHANGED <<page, overlapped, told, reloads>>
    PROVE  ChatInv'
<1>1. call \in ChatCallRow /\ page \in PageRow /\ Fits(call)
    BY DEF ChatInv, ChatTypeOK, Always, CallsFit
<1>2. PICK answer \in ChatCallRow :
      /\ answer = WithAnswer(call, accepted, server')
      /\ answer.op = call.op /\ answer.gone = call.gone
      /\ answer.active = call.active
      /\ answer.jobs \in {call.jobs, Statuses(server')}
      /\ call.op = "jobs" /\ call.active # {} => answer.jobs = Statuses(server')
    BY <1>1, AnswerIsTyped
<1>3. DOMAIN server'.jobs = DOMAIN server.jobs
  <2>1. DOMAIN server.jobs = 1 .. Len(server.jobs)
      BY JobsAreNumbered DEF ChatInv
  <2>2. server'.jobs \in Seq(JobRow)
      BY DEF ServerRow
  <2>3. QED
      BY <2>1, <2>2 DEF SameJobs
<1>4. ChatTypeOK'
    BY <1>2 DEF ChatInv, ChatTypeOK
<1>5. Len(Statuses(server')) = Len(server'.jobs) /\ DOMAIN Statuses(server') = DOMAIN server'.jobs
    BY StatusesOfJobs
<1>6. Len(answer.jobs) <= Len(server'.jobs)
  <2>1. Len(call.jobs) <= Len(server'.jobs)
      BY <1>1 DEF Fits, SameJobs
  <2>2. Len(server'.jobs) <= Len(server'.jobs)
    <3>1. Len(server'.jobs) \in Nat
        BY JobsAreNumbered DEF ChatInv, SameJobs
    <3>2. QED
        BY <3>1
  <2>3. QED
      BY <1>2, <1>5, <2>1, <2>2
<1>7. ASSUME call.op = "jobs", NEW i \in call.active
      PROVE  page.items[i].job # NoJob /\ page.items[i].job \in DOMAIN answer.jobs
  <2>1. page.items[i].job # NoJob /\ i \in Ids
      BY <1>1, <1>7 DEF Fits, ChatCallRow
  <2>2. page.items[i].job \in DOMAIN server.jobs
      BY <2>1 DEF ChatInv, Always, RowsHaveJobs
  <2>3. QED
      BY <1>2, <1>3, <1>5, <1>7, <2>1, <2>2
<1>8. ~call.gone => Fits(answer)'
    BY <1>1, <1>2, <1>6, <1>7 DEF Fits
<1>9. \A c \in chatCalls' : c \in chatCalls \/ (c.op # "send" /\ Fits(c)')
    BY <1>2, <1>8
<1>10. SameRows /\ Sends \subseteq chatCalls'
    BY DEF SameRows, Sends
<1>11. page'.ready => page'.restored
    BY DEF ChatInv, Always, BlankBefore
<1>12. QED
    BY <1>4, <1>9, <1>10, <1>11, Quiet

\* The answer to a question, with its new job if it is accepted and was unknown.
LEMMA AnsweringSend ==
    ASSUME ChatInv, NEW call \in chatCalls, NEW accepted \in BOOLEAN,
           server' = (IF accepted THEN Submit(call) ELSE server),
           chatCalls' = (chatCalls \ {call}) \cup
               (IF call.gone THEN {} ELSE {WithAnswer(call, accepted, server')}),
           call.op = "send", ~call.answered,
           lost' \in Nat, UNCHANGED <<page, overlapped, told, reloads>>
    PROVE  ChatInv'
<1>1. call \in ChatCallRow /\ page \in PageRow /\ Fits(call) /\ server \in ServerRow
    BY DEF ChatInv, ChatTypeOK, Always, CallsFit
<1>2. call.id \in Ids /\ call.text \in Texts
    BY <1>1 DEF Fits
<1>3. /\ server.jobs \in Seq(JobRow) /\ Len(server.jobs) \in Nat
      /\ DOMAIN server.jobs = 1 .. Len(server.jobs)
    BY JobsAreNumbered DEF ChatInv
<1>4. /\ server' \in ServerRow
      /\ accepted => \E j \in DOMAIN server'.jobs : server'.jobs[j].id = call.id
      /\ \/ server' = server
         \/ /\ \A j \in DOMAIN server.jobs : server.jobs[j].id # call.id
            /\ \E job \in JobRow : /\ job.id = call.id /\ job.text = call.text
                                   /\ server'.jobs = Append(server.jobs, job)
    BY <1>1, <1>2, Submission
<1>5. /\ Len(server.jobs) <= Len(server'.jobs)
      /\ DOMAIN server.jobs \subseteq DOMAIN server'.jobs
      /\ \A j \in DOMAIN server.jobs : server'.jobs[j] = server.jobs[j]
      /\ \A j \in DOMAIN server'.jobs \ DOMAIN server.jobs :
            server'.jobs[j].id = call.id /\ server'.jobs[j].text = call.text
      /\ \A j, k \in DOMAIN server'.jobs \ DOMAIN server.jobs : j = k
  <2>1. CASE server' = server
      BY <1>3, <2>1
  <2>2. CASE server' # server
    <3>1. PICK job \in JobRow : /\ job.id = call.id /\ job.text = call.text
                                /\ server'.jobs = Append(server.jobs, job)
        BY <1>4, <2>2
    <3>2. QED
        BY <1>3, <3>1
  <2>3. QED
      BY <2>1, <2>2
<1>6. server'.jobs \in Seq(JobRow) /\ Len(server'.jobs) \in Nat
  <2>1. server'.jobs \in Seq(JobRow)
      BY <1>4 DEF ServerRow
  <2>2. QED
      BY <2>1
<1>7. PICK answer \in ChatCallRow :
      /\ answer = WithAnswer(call, accepted, server')
      /\ answer.op = call.op /\ answer.gone = call.gone
      /\ answer.id = call.id /\ answer.text = call.text /\ answer.accepted = accepted
      /\ answer.jobs = Statuses(server')
    BY <1>1, <1>4, AnswerIsTyped
<1>8. ChatTypeOK'
    BY <1>4, <1>7 DEF ChatInv, ChatTypeOK
<1>9. Len(Statuses(server')) = Len(server'.jobs) /\ DOMAIN Statuses(server') = DOMAIN server'.jobs
    BY <1>4, StatusesOfJobs
<1>10. ~call.gone => Fits(answer)'
  <2>1. Len(answer.jobs) <= Len(server'.jobs)
      BY <1>6, <1>7, <1>9
  <2>2. answer.accepted => \E j \in DOMAIN answer.jobs : server'.jobs[j].id = answer.id
      BY <1>4, <1>7, <1>9
  <2>3. QED
      BY <1>1, <1>7, <2>1, <2>2 DEF Fits
<1>11. ASSUME NEW c \in chatCalls
       PROVE  Fits(c)'
  <2>1. Fits(c) /\ c.jobs \in Seq(JobStatus)
      BY DEF ChatInv, Always, CallsFit, ChatTypeOK, ChatCallRow
  <2>2. DOMAIN c.jobs \subseteq DOMAIN server.jobs /\ Len(c.jobs) <= Len(server'.jobs)
      BY <1>3, <1>5, <1>6, <2>1 DEF Fits
  <2>3. QED
      BY <1>5, <2>1, <2>2 DEF Fits
<1>12. Always'
  <2>1. BlankBefore'
      BY DEF ChatInv, Always, BlankBefore, RowsAreWhole
  <2>2. JobsApart'
    <3>1. \A j \in DOMAIN server'.jobs \ DOMAIN server.jobs, k \in DOMAIN server.jobs :
            server'.jobs[j].id # server'.jobs[k].id
        BY <1>4, <1>5
    <3>2. QED
        BY <1>5, <3>1 DEF ChatInv, Always, JobsApart
  <2>3. RowsHaveJobs(page.items)' /\ RowsHaveJobs(page.stored)'
      BY <1>5 DEF ChatInv, Always, RowsHaveJobs
  <2>4. CallsFit'
      BY <1>7, <1>10, <1>11 DEF CallsFit
  <2>5. QED
      BY <2>1, <2>2, <2>3, <2>4 DEF Always
<1>13. ASSUME InTurn
       PROVE  InTurn'
  <2>1. ASSUME NEW i \in Ids, NEW text \in Texts, Holds(i, text)'
        PROVE  Holds(i, text)
    <3>1. Jobs(i, text)' => Jobs(i, text) \/ AsksFor(call, i, text)
        BY <1>5 DEF Jobs, AsksFor
    <3>2. (\E c \in chatCalls : AsksFor(c, i, text))' => \E c \in chatCalls : AsksFor(c, i, text)
        BY <1>7 DEF AsksFor
    <3>3. QED
        BY <2>1, <3>1, <3>2 DEF Holds, Keeps
  <2>2. OneIdPerText' /\ UntoldIsKept'
      BY <1>13, <2>1 DEF InTurn, OneIdPerText, UntoldIsKept
  <2>3. JobsAreTold'
      BY <1>13 DEF InTurn, JobsAreTold
  <2>4. OneSend'
    <3>1. \A c \in Sends' : c \in Sends \/ (c = answer /\ call \in Sends)
        BY <1>7 DEF Sends
    <3>2. \A c \in Sends : c \in Sends' \/ (c = call /\ answer \in Sends')
        BY <1>7 DEF Sends
    <3>3. \A c \in Sends' : c = call => call \in chatCalls'
        BY DEF Sends
    <3>4. call \in chatCalls' => answer = call
        BY <1>7
    <3>5. QED
        BY <1>7, <1>13, <3>1, <3>2, <3>3, <3>4 DEF InTurn, OneSend
  <2>5. QED
      BY <2>2, <2>3, <2>4 DEF InTurn
<1>14. QED
    BY <1>8, <1>12, <1>13 DEF ChatInv

LEMMA Serving ==
    ASSUME ChatInv, NEW call \in chatCalls, ServeChat(call)
    PROVE  ChatInv'
<1>1. call \in ChatCallRow /\ server \in ServerRow /\ lost \in Nat
    BY DEF ChatInv, ChatTypeOK
<1>2. call.op \in {"send", "handoff", "history", "jobs"}
    BY <1>1 DEF ChatCallRow
<1>3. PICK accepted \in BOOLEAN :
        /\ server' = CASE call.op = "send" /\ accepted -> Submit(call)
                       [] call.op = "handoff" /\ server.status = "ai" ->
                            [server EXCEPT !.status = "waiting", !.said = @ + 1]
                       [] OTHER -> server
        /\ lost' = IF accepted THEN lost ELSE lost + 1
        /\ chatCalls' = (chatCalls \ {call}) \cup
             (IF call.gone THEN {} ELSE {WithAnswer(call, accepted, server')})
    BY DEF ServeChat
<1>4. lost' \in Nat /\ ~call.answered /\ UNCHANGED <<page, overlapped, told, reloads>>
    BY <1>1, <1>3 DEF ServeChat
<1>5. CASE call.op = "send"
  <2>1. server' = IF accepted THEN Submit(call) ELSE server
      BY <1>3, <1>5
  <2>2. QED
      BY <1>3, <1>4, <1>5, <2>1, AnsweringSend
<1>6. CASE call.op # "send"
  <2>1. server' = server \/ server' = [server EXCEPT !.status = "waiting", !.said = server.said + 1]
      BY <1>2, <1>3, <1>6
  <2>2. server' \in ServerRow /\ server'.jobs = server.jobs
    <3>1. server.said + 1 \in Nat
        BY <1>1 DEF ServerRow
    <3>2. [server EXCEPT !.status = "waiting", !.said = server.said + 1] \in ServerRow
        BY <1>1, <3>1 DEF ServerRow, ChatStatus
    <3>3. [server EXCEPT !.status = "waiting", !.said = server.said + 1].jobs = server.jobs
        BY <1>1 DEF ServerRow
    <3>4. QED
        BY <1>1, <2>1, <3>2, <3>3
  <2>3. SameJobs
      BY <2>2 DEF SameJobs
  <2>4. QED
      BY <1>3, <1>4, <1>6, <2>2, <2>3, AnsweringElse
<1>7. QED
    BY <1>5, <1>6

-----------------------------------------------------------------------------
(* Answers reach the page, or are lost                                     *)

\* The first transcript brings back the requests of the page before.
LEMMA HistoryArriving ==
    ASSUME ChatInv, NEW call \in chatCalls, HistoryArrives(call)
    PROVE  ChatInv'
<1>1. page \in PageRow /\ call \in ChatCallRow /\ call.after \in Nat /\ call.last \in Nat
    BY DEF ChatInv, ChatTypeOK, ChatCallRow
<1> DEFINE shown == Added(page, call.after, call.last)
<1>2. /\ shown \in PageRow /\ shown.items = page.items /\ shown.stored = page.stored
      /\ shown.restored = page.restored /\ shown.ready = page.ready
      /\ shown.input = page.input /\ shown.submitting = page.submitting
    BY <1>1, AddedIsPage
<1> HIDE DEF shown
<1> DEFINE back == Restored(shown)
<1>3. /\ back \in PageRow /\ back.restored /\ back.ready = page.ready
      /\ back.input = page.input /\ back.submitting = page.submitting
      /\ page.restored => back.items = page.items /\ back.stored = page.stored
      /\ ~page.restored => /\ back.items = page.stored
                           /\ \A i \in Ids : back.stored[i] = Unused
    BY <1>2, RestoredIsPage
<1>4. page' = [back EXCEPT !.mode = call.status] /\ call.status \in ChatStatus
    BY <1>1 DEF HistoryArrives, back, shown, ChatCallRow
<1> HIDE DEF back
<1>5. /\ page' \in PageRow /\ page'.restored /\ page'.ready = page.ready
      /\ page'.input = page.input /\ page'.submitting = page.submitting
      /\ page'.items = back.items /\ page'.stored = back.stored
    BY <1>3, <1>4 DEF PageRow
<1>6. PICK look \in ChatCallRow :
        /\ chatCalls' = (chatCalls \ {call}) \cup {look}
        /\ look.op = "jobs" /\ ~look.gone /\ ~look.answered /\ look.jobs = <<>>
        /\ \A i \in look.active : page'.items[i].job # NoJob
  <2> DEFINE active == {i \in Ids : ShownBy(page', i) /\ page'.items[i].job # NoJob}
             look == [ChatCall("jobs", 0) EXCEPT !.active = active]
  <2>1. ChatCall("jobs", 0) \in ChatCallRow
      BY CallIsTyped
  <2>2. look \in ChatCallRow /\ look.active = active
      BY <2>1 DEF ChatCallRow
  <2>3. look.op = "jobs" /\ ~look.gone /\ ~look.answered /\ look.jobs = <<>>
      BY DEF ChatCall
  <2>4. chatCalls' = (chatCalls \ {call}) \cup {look}
      BY DEF HistoryArrives
  <2>5. \A i \in active : page'.items[i].job # NoJob
      OBVIOUS
  <2> HIDE DEF look, active
  <2>6. QED
      BY <2>2, <2>3, <2>4, <2>5
<1>7. UNCHANGED <<server, overlapped, told, lost, reloads>> /\ call.op = "history"
    BY DEF HistoryArrives
<1>8. ChatTypeOK'
    BY <1>5, <1>6, <1>7 DEF ChatInv, ChatTypeOK
<1>9. Fits(look)'
  <2>1. Len(server.jobs) \in Nat
      BY JobsAreNumbered DEF ChatInv
  <2>2. QED
      BY <1>5, <1>6, <1>7, <2>1 DEF Fits
<1>10. CASE page.restored
  <2>1. SameRows
      BY <1>3, <1>5, <1>10 DEF SameRows
  <2>2. SameJobs
      BY <1>7 DEF SameJobs
  <2>3. \A c \in chatCalls' : c \in chatCalls \/ (c.op # "send" /\ Fits(c)')
      BY <1>6, <1>9
  <2>4. Sends \subseteq chatCalls'
      BY <1>6, <1>7 DEF Sends
  <2>5. QED
      BY <1>5, <1>7, <1>8, <2>1, <2>2, <2>3, <2>4, Quiet
<1>11. CASE ~page.restored
  <2>1. /\ page'.items = page.stored
        /\ \A i \in Ids : page'.stored[i].status = "none" /\ page'.stored[i].job = NoJob
      BY <1>3, <1>5, <1>11 DEF Unused
  <2>2. ASSUME NEW c \in chatCalls
        PROVE  /\ Fits(c)'
               /\ c.op = "send" => c.gone
    <3>1. Fits(c)
        BY DEF ChatInv, Always, CallsFit
    <3>2. (c.op = "send" => c.gone) /\ c.op # "jobs"
        BY <1>11, <3>1 DEF Fits
    <3>3. QED
        BY <1>7, <3>1, <3>2 DEF Fits
  <2>3. Sends = {} /\ Sends' = {}
      BY <1>6, <2>2 DEF Sends
  <2>4. Always'
    <3>1. BlankBefore'
        BY <1>5, <2>1 DEF ChatInv, Always, BlankBefore, RowsAreWhole
    <3>2. JobsApart'
        BY <1>7 DEF ChatInv, Always, JobsApart
    <3>3. RowsHaveJobs(page.items)' /\ RowsHaveJobs(page.stored)'
        BY <1>7, <2>1 DEF ChatInv, Always, RowsHaveJobs
    <3>4. CallsFit'
        BY <1>6, <1>9, <2>2 DEF CallsFit
    <3>5. QED
        BY <3>1, <3>2, <3>3, <3>4 DEF Always
  <2>5. ASSUME InTurn
        PROVE  InTurn'
    <3>1. ASSUME NEW i \in Ids, NEW text \in Texts, Holds(i, text)'
          PROVE  Holds(i, text)
      <4>1. Jobs(i, text)' => Jobs(i, text)
          BY <1>7 DEF Jobs
      <4>2. (\E c \in chatCalls : AsksFor(c, i, text))' => \E c \in chatCalls : AsksFor(c, i, text)
          BY <1>6 DEF AsksFor
      <4>3. QED
          BY <2>1, <3>1, <4>1, <4>2 DEF Holds, Keeps
    <3>2. OneIdPerText'
        BY <2>5, <3>1 DEF InTurn, OneIdPerText
    <3>3. UntoldIsKept'
        BY <1>5, <1>7, <1>11, <2>1, <2>5, <3>1 DEF InTurn, UntoldIsKept
    <3>4. JobsAreTold'
        BY <1>5, <1>7, <2>1, <2>5 DEF InTurn, JobsAreTold
    <3>5. OneSend'
        BY <2>1, <2>3 DEF OneSend, ChatInv, Always, BlankBefore
    <3>6. QED
        BY <3>2, <3>3, <3>4, <3>5 DEF InTurn
  <2>6. QED
      BY <1>7, <1>8, <2>4, <2>5 DEF ChatInv
<1>12. QED
    BY <1>10, <1>11

\* The statuses read touch only requests with a job.
LEMMA JobsArriving ==
    ASSUME ChatInv, NEW call \in chatCalls, JobsArrive(call)
    PROVE  ChatInv'
<1>1. page \in PageRow /\ call \in ChatCallRow /\ Fits(call) /\ page.items \in [Ids -> ItemRow]
    BY DEF ChatInv, ChatTypeOK, Always, CallsFit, PageRow
<1>2. /\ page.restored /\ call.jobs \in Seq(JobStatus) /\ call.active \subseteq Ids
      /\ \A i \in call.active : /\ page.items[i].job # NoJob
                                /\ page.items[i].job \in DOMAIN call.jobs
    BY <1>1 DEF JobsArrive, Fits, ChatCallRow
<1> DEFINE row(i) == IF i \in call.active
                     THEN [page.items[i] EXCEPT !.status = call.jobs[page.items[i].job]]
                     ELSE page.items[i]
           rows == [i \in Ids |-> row(i)]
<1>3. ASSUME NEW i \in Ids
      PROVE  /\ row(i) \in ItemRow /\ row(i).text = page.items[i].text
             /\ row(i).job = page.items[i].job
             /\ i \in call.active => row(i).status \in JobStatus
             /\ i \notin call.active => row(i).status = page.items[i].status
  <2>1. i \in call.active => call.jobs[page.items[i].job] \in JobStatus
      BY <1>2
  <2>2. QED
      BY <1>1, <2>1 DEF ItemRow, ItemStatus, JobStatus
<1>4. page' = [page EXCEPT !.ready = TRUE, !.polling = FALSE, !.items = rows]
    BY DEF JobsArrive
<1> HIDE DEF row
<1>5. rows \in [Ids -> ItemRow] /\ \A i \in Ids : rows[i] = row(i)
    BY <1>3
<1> HIDE DEF rows
<1>6. /\ page' \in PageRow /\ page'.items = rows /\ page'.stored = page.stored
      /\ page'.restored = page.restored /\ page'.input = page.input
      /\ page'.submitting = page.submitting
    BY <1>1, <1>4, <1>5 DEF PageRow
<1>7. /\ UNCHANGED <<server, overlapped, told, lost, reloads>>
      /\ chatCalls' = chatCalls \ {call} /\ call.op = "jobs"
    BY DEF JobsArrive
<1>8. ASSUME NEW i \in Ids
      PROVE  /\ page'.items[i].text = page.items[i].text
             /\ page'.items[i].job = page.items[i].job
             /\ \/ page'.items[i].status = page.items[i].status
                \/ page'.items[i].status \in JobStatus /\ page.items[i].job # NoJob
    BY <1>2, <1>3, <1>5, <1>6
<1>9. ChatTypeOK'
    BY <1>6, <1>7 DEF ChatInv, ChatTypeOK
<1>10. ASSUME NEW i \in Ids
       PROVE  page'.items[i].status = "none" <=> page.items[i].status = "none"
    BY <1>8 DEF JobStatus, ChatInv, Always, BlankBefore, RowsAreWhole
<1>11. Always'
  <2>1. BlankBefore'
      BY <1>2, <1>6, <1>8, <1>10 DEF ChatInv, Always, BlankBefore, RowsAreWhole
  <2>2. JobsApart'
      BY <1>7 DEF ChatInv, Always, JobsApart
  <2>3. RowsHaveJobs(page.items)' /\ RowsHaveJobs(page.stored)'
      BY <1>6, <1>7, <1>8 DEF ChatInv, Always, RowsHaveJobs
  <2>4. CallsFit'
    <3>1. ASSUME NEW c \in chatCalls
          PROVE  Fits(c)'
      <4>1. Fits(c) /\ c.active \subseteq Ids
          BY DEF ChatInv, Always, CallsFit, ChatTypeOK, ChatCallRow
      <4>2. QED
          BY <1>6, <1>7, <1>8, <1>10, <4>1 DEF Fits
    <3>2. QED
        BY <1>7, <3>1 DEF CallsFit
  <2>5. QED
      BY <2>1, <2>2, <2>3, <2>4 DEF Always
<1>12. ASSUME InTurn
       PROVE  InTurn'
  <2>1. ASSUME NEW i \in Ids, NEW text \in Texts, Holds(i, text)'
        PROVE  Holds(i, text)
    <3>1. Jobs(i, text)' => Jobs(i, text)
        BY <1>7 DEF Jobs
    <3>2. (\E c \in chatCalls : AsksFor(c, i, text))' => \E c \in chatCalls : AsksFor(c, i, text)
        BY <1>7 DEF AsksFor
    <3>3. QED
        BY <1>6, <1>8, <1>10, <2>1, <3>1, <3>2 DEF Holds, Keeps
  <2>2. OneIdPerText'
      BY <1>12, <2>1 DEF InTurn, OneIdPerText
  <2>3. UntoldIsKept'
    <3>1. ASSUME NEW i \in Ids, NEW text \in Texts \ told, Holds(i, text)'
          PROVE  page'.items[i].text = text /\ page'.items[i].status \in {"unknown", "sending"}
      <4>1. page.items[i].text = text /\ page.items[i].status \in {"unknown", "sending"}
          BY <1>2, <1>12, <2>1, <3>1 DEF InTurn, UntoldIsKept
      <4>2. page.items[i].job = NoJob
          BY <1>12, <4>1 DEF InTurn, JobsAreTold
      <4>3. QED
          BY <1>8, <4>1, <4>2
    <3>2. QED
        BY <1>2, <1>6, <1>7, <3>1 DEF UntoldIsKept
  <2>4. JobsAreTold'
      BY <1>6, <1>7, <1>8, <1>12 DEF InTurn, JobsAreTold
  <2>5. OneSend'
    <3>1. Sends' = Sends
        BY <1>7 DEF Sends
    <3>2. \A i \in Ids : page'.items[i].status = "sending" => page.items[i].status = "sending"
        BY <1>8 DEF JobStatus
    <3>3. QED
        BY <1>6, <1>12, <3>1, <3>2 DEF InTurn, OneSend
  <2>6. QED
      BY <2>2, <2>3, <2>4, <2>5 DEF InTurn
<1>13. QED
    BY <1>7, <1>9, <1>11, <1>12 DEF ChatInv

\* The end of a send whose page is there: refused, lost or accepted.
Refused(row, call) ==
    /\ row.status = "unknown" /\ row.job = page.items[call.id].job
    /\ told' = told /\ page'.input = page.input

Accepted(row, call) ==
    /\ row.status \in JobStatus
    /\ row.job \in DOMAIN server.jobs /\ server.jobs[row.job].id = call.id
    /\ told' = told \cup {row.text}
    /\ page'.input = IF page.input = row.text THEN NoText ELSE page.input

LEMMA Settling ==
    ASSUME ChatInv, NEW call \in Sends, NEW row \in ItemRow,
           page' \in PageRow,
           page'.items = [page.items EXCEPT ![call.id] = row],
           row.text = page.items[call.id].text,
           page'.stored = page.stored, page'.restored = page.restored, page'.ready = page.ready,
           chatCalls' = chatCalls \ {call},
           Refused(row, call) \/ Accepted(row, call),
           lost' \in Nat, UNCHANGED <<server, overlapped, reloads>>
    PROVE  ChatInv'
<1>1. /\ page.items \in [Ids -> ItemRow] /\ call \in chatCalls /\ Fits(call)
      /\ call.op = "send" /\ ~call.gone
    BY DEF ChatInv, ChatTypeOK, PageRow, Always, CallsFit, Sends
<1>2. /\ call.id \in Ids /\ page.restored
      /\ page.items[call.id].status # "none" /\ page.items[call.id].text \in Texts
    BY <1>1 DEF Fits
<1>3. /\ page'.items[call.id] = row
      /\ \A i \in Ids : i # call.id => page'.items[i] = page.items[i]
      /\ \A i \in Ids : page'.items[i].text = page.items[i].text
    BY <1>1, <1>2
<1>4. row.status \notin {"none", "sending"}
    BY DEF Refused, Accepted, JobStatus
<1>5. ChatTypeOK'
    BY <1>2 DEF ChatInv, ChatTypeOK, Refused, Accepted
<1>6. \A i \in Ids : page'.items[i].status = "none" <=> page.items[i].status = "none"
    BY <1>2, <1>3, <1>4
<1>7. ASSUME NEW i \in Ids, page.items[i].job # NoJob
      PROVE  page'.items[i].job = page.items[i].job
  <2>1. CASE i # call.id
      BY <1>3, <2>1
  <2>2. CASE i = call.id
    <3>1. CASE Accepted(row, call)
      <4>1. page.items[i].job \in DOMAIN server.jobs /\ server.jobs[page.items[i].job].id = i
          BY <1>7 DEF ChatInv, Always, RowsHaveJobs
      <4>2. QED
          BY <1>3, <2>2, <3>1, <4>1 DEF ChatInv, Always, JobsApart, Accepted
    <3>2. CASE Refused(row, call)
        BY <1>3, <2>2, <3>2 DEF Refused
    <3>3. QED
        BY <3>1, <3>2
  <2>3. QED
      BY <2>1, <2>2
<1>8. Always'
  <2>1. BlankBefore'
      BY <1>2, <1>3, <1>4, <1>6 DEF ChatInv, Always, BlankBefore, RowsAreWhole
  <2>2. JobsApart'
      BY DEF ChatInv, Always, JobsApart
  <2>3. RowsHaveJobs(page.items)' /\ RowsHaveJobs(page.stored)'
    <3>1. row.job # NoJob => row.job \in DOMAIN server.jobs /\ server.jobs[row.job].id = call.id
        BY <1>2 DEF Refused, Accepted, ChatInv, Always, RowsHaveJobs
    <3>2. QED
        BY <1>3, <3>1 DEF ChatInv, Always, RowsHaveJobs
  <2>4. CallsFit'
    <3>1. ASSUME NEW c \in chatCalls
          PROVE  Fits(c)'
      <4>1. Fits(c) /\ c.active \subseteq Ids
          BY DEF ChatInv, Always, CallsFit, ChatTypeOK, ChatCallRow
      <4>2. QED
          BY <1>3, <1>6, <1>7, <4>1 DEF Fits
    <3>2. QED
        BY <3>1 DEF CallsFit
  <2>5. QED
      BY <2>1, <2>2, <2>3, <2>4 DEF Always
<1>9. ASSUME InTurn
      PROVE  InTurn'
  <2>1. ASSUME NEW i \in Ids, NEW text \in Texts, Holds(i, text)'
        PROVE  Holds(i, text)
    <3>1. Jobs(i, text)' => Jobs(i, text)
        BY DEF Jobs
    <3>2. (\E c \in chatCalls : AsksFor(c, i, text))' => \E c \in chatCalls : AsksFor(c, i, text)
        BY DEF AsksFor
    <3>3. QED
        BY <1>3, <1>6, <2>1, <3>1, <3>2 DEF Holds, Keeps
  <2>2. OneIdPerText'
      BY <1>9, <2>1 DEF InTurn, OneIdPerText
  <2>3. UntoldIsKept'
    <3>1. ASSUME NEW i \in Ids, NEW text \in Texts \ told', Holds(i, text)'
          PROVE  page'.items[i].text = text /\ page'.items[i].status \in {"unknown", "sending"}
      <4>1. page.items[i].text = text /\ page.items[i].status \in {"unknown", "sending"}
          BY <1>2, <1>9, <2>1, <3>1 DEF InTurn, UntoldIsKept, Refused, Accepted
      <4>2. CASE i # call.id
          BY <1>3, <4>1, <4>2
      <4>3. CASE i = call.id
          BY <1>3, <3>1, <4>1, <4>3 DEF Refused, Accepted
      <4>4. QED
          BY <4>2, <4>3
    <3>2. QED
        BY <1>2, <3>1 DEF UntoldIsKept
  <2>4. JobsAreTold'
    <3>1. told \subseteq told'
        BY DEF Refused, Accepted
    <3>2. \A i \in Ids : page'.items[i].job # NoJob => page'.items[i].text \in told'
        BY <1>2, <1>3, <1>9, <3>1 DEF InTurn, JobsAreTold, Refused, Accepted
    <3>3. page'.input = NoText \/ page'.input \notin told'
        BY <1>9 DEF InTurn, JobsAreTold, Refused, Accepted
    <3>4. QED
        BY <1>9, <3>1, <3>2, <3>3 DEF InTurn, JobsAreTold
  <2>5. OneSend'
    <3>1. Sends' = {}
        BY <1>9 DEF InTurn, OneSend, Sends
    <3>2. \A i \in Ids : page.items[i].status = "sending" => i = call.id
        BY <1>9 DEF InTurn, OneSend
    <3>3. \A i \in Ids : page'.items[i].status # "sending"
        BY <1>3, <1>4, <3>2
    <3>4. QED
        BY <3>1, <3>3 DEF OneSend
  <2>6. QED
      BY <2>2, <2>3, <2>4, <2>5 DEF InTurn
<1>10. QED
    BY <1>5, <1>8, <1>9 DEF ChatInv

\* The two ways a send ends without an answer that counts.
LEMMA Refusing ==
    ASSUME ChatInv, NEW call \in Sends,
           page' = Settled(page, call, "unknown"),
           chatCalls' = chatCalls \ {call},
           lost' \in Nat, UNCHANGED <<server, overlapped, told, reloads>>
    PROVE  ChatInv'
<1>1. page \in PageRow /\ page.items \in [Ids -> ItemRow] /\ Fits(call) /\ call.id \in Ids
  <2>1. page \in PageRow /\ Fits(call) /\ call.op = "send"
      BY DEF ChatInv, ChatTypeOK, Always, CallsFit, Sends
  <2>2. QED
      BY <2>1 DEF PageRow, Fits
<1> DEFINE row == [page.items[call.id] EXCEPT !.status = "unknown"]
<1>2. /\ row \in ItemRow /\ row.text = page.items[call.id].text
      /\ row.status = "unknown" /\ row.job = page.items[call.id].job
    BY <1>1 DEF ItemRow, ItemStatus
<1>3. "unknown" \in ItemStatus
    BY DEF ItemStatus
<1>4. /\ page' \in PageRow
      /\ page'.items = [page.items EXCEPT ![call.id] = row]
      /\ page'.stored = page.stored /\ page'.restored = page.restored
      /\ page'.ready = page.ready /\ page'.input = page.input
    BY <1>1, <1>3, SettledIsPage
<1> HIDE DEF row
<1>5. Refused(row, call)
    BY <1>2, <1>4 DEF Refused
<1>6. QED
    BY <1>2, <1>4, <1>5, Settling

LEMMA SendArriving ==
    ASSUME ChatInv, NEW call \in chatCalls, SendArrives(call)
    PROVE  ChatInv'
<1>1. /\ page \in PageRow /\ page.items \in [Ids -> ItemRow] /\ Fits(call)
      /\ call \in ChatCallRow /\ call.op = "send" /\ call.answered /\ lost \in Nat
    BY DEF ChatInv, ChatTypeOK, PageRow, Always, CallsFit, SendArrives
<1>2. call.id \in Ids /\ call.jobs \in Seq(JobStatus)
    BY <1>1 DEF Fits, ChatCallRow
<1>3. /\ UNCHANGED <<server, overlapped, lost, reloads>>
      /\ chatCalls' = chatCalls \ {call}
    BY DEF SendArrives
<1>4. call \in Sends
  <2>1. call.gone => FALSE
      BY <1>1 DEF Fits
  <2>2. QED
      BY <1>1, <2>1 DEF Sends
<1>5. CASE ~call.accepted
    BY <1>1, <1>3, <1>4, <1>5, Refusing DEF SendArrives
<1>6. CASE call.accepted
  <2> DEFINE j == CHOOSE j \in JobOf(call.id) : TRUE
  <2>1. /\ page' = [Settled(page, call, call.jobs[j]) EXCEPT !.items[call.id].job = j]
        /\ told' = told \cup {page.items[call.id].text}
      BY <1>6 DEF SendArrives
  <2>2. /\ DOMAIN server.jobs = 1 .. Len(server.jobs) /\ Len(server.jobs) \in Nat
      BY JobsAreNumbered DEF ChatInv
  <2>3. PICK k \in DOMAIN call.jobs : server.jobs[k].id = call.id
      BY <1>1, <1>6 DEF Fits
  <2>4. k \in DOMAIN server.jobs
      BY <1>1, <1>2, <2>2, <2>3 DEF Fits
  <2>5. j \in JobOf(call.id)
      BY <2>3, <2>4 DEF JobOf
  <2>6. j = k
      BY <2>3, <2>4, <2>5 DEF JobOf, ChatInv, Always, JobsApart
  <2>7. call.jobs[j] \in JobStatus /\ call.jobs[j] \in ItemStatus /\ j \in Nat
    <3>1. call.jobs[k] \in JobStatus
        BY <1>2, <2>3
    <3>2. k \in Nat
        BY <2>2, <2>4
    <3>3. QED
        BY <2>6, <3>1, <3>2 DEF JobStatus, ItemStatus
  <2> HIDE DEF j
  <2> DEFINE settled == Settled(page, call, call.jobs[j])
             early == [page.items[call.id] EXCEPT !.status = call.jobs[j]]
             row == [early EXCEPT !.job = j]
  <2>8. /\ settled \in PageRow
        /\ settled.items = [page.items EXCEPT ![call.id] = early]
        /\ settled.stored = page.stored /\ settled.restored = page.restored
        /\ settled.ready = page.ready
        /\ settled.input = IF page.input = page.items[call.id].text THEN NoText ELSE page.input
    <3>1. call.jobs[j] # "unknown"
        BY <2>7 DEF JobStatus
    <3>2. QED
        BY <1>1, <1>2, <2>7, <3>1, SettledIsPage
  <2>9. early \in ItemRow /\ early.text = page.items[call.id].text /\ early.status = call.jobs[j]
      BY <1>1, <1>2, <2>7 DEF ItemRow
  <2> HIDE DEF settled, early
  <2>10. /\ row \in ItemRow /\ row.text = page.items[call.id].text
         /\ row.status = call.jobs[j] /\ row.job = j
      BY <2>7, <2>9 DEF ItemRow
  <2>11. page' = [settled EXCEPT !.items = [page.items EXCEPT ![call.id] = row]]
    <3>1. page' = [settled EXCEPT !.items = [settled.items EXCEPT ![call.id] =
                                               [settled.items[call.id] EXCEPT !.job = j]]]
        BY <2>1, <2>8 DEF settled, PageRow
    <3>2. settled.items[call.id] = early
        BY <1>1, <1>2, <2>8
    <3>3. [settled.items EXCEPT ![call.id] = row] = [page.items EXCEPT ![call.id] = row]
        BY <1>1, <1>2, <2>8, <2>9, <2>10
    <3>4. QED
        BY <3>1, <3>2, <3>3
  <2> HIDE DEF row
  <2>12. [page.items EXCEPT ![call.id] = row] \in [Ids -> ItemRow]
      BY <1>1, <1>2, <2>10
  <2>13. /\ page' \in PageRow
         /\ page'.items = [page.items EXCEPT ![call.id] = row]
         /\ page'.stored = page.stored /\ page'.restored = page.restored
         /\ page'.ready = page.ready /\ page'.input = settled.input
      BY <2>8, <2>11, <2>12 DEF PageRow
  <2>14. Accepted(row, call)
      BY <2>1, <2>3, <2>4, <2>6, <2>7, <2>8, <2>10, <2>13 DEF Accepted
  <2>15. QED
      BY <1>1, <1>3, <1>4, <2>10, <2>13, <2>14, Settling
<1>7. QED
    BY <1>5, <1>6

LEMMA Losing ==
    ASSUME ChatInv, NEW call \in chatCalls, Lose(call)
    PROVE  ChatInv'
<1>1. page \in PageRow /\ call \in ChatCallRow /\ Fits(call) /\ lost \in Nat
    BY DEF ChatInv, ChatTypeOK, Always, CallsFit
<1>2. /\ lost' \in Nat /\ chatCalls' = chatCalls \ {call}
      /\ page' = IF call.gone THEN page ELSE Failed(call)
      /\ UNCHANGED <<server, overlapped, told, reloads>>
    BY <1>1 DEF Lose
<1>3. CASE call.op = "send" /\ ~call.gone
  <2>1. call \in Sends /\ page' = Settled(page, call, "unknown")
      BY <1>2, <1>3 DEF Failed, Sends
  <2>2. QED
      BY <1>2, <2>1, Refusing
<1>4. CASE call.op # "send" \/ call.gone
  <2>1. /\ page' \in PageRow /\ SameRows /\ page'.input = page.input
        /\ page'.ready = page.ready \/ (call.op = "jobs" /\ ~call.gone)
    <3>1. call.op \in {"send", "handoff", "history", "jobs"}
        BY <1>1 DEF ChatCallRow
    <3>2. \/ page' = page
          \/ page' = [page EXCEPT !.handoff = FALSE]
          \/ page' = [page EXCEPT !.polling = FALSE]
          \/ /\ page' = [page EXCEPT !.polling = FALSE, !.ready = TRUE]
             /\ call.op = "jobs" /\ ~call.gone
        BY <1>2, <1>4, <3>1 DEF Failed
    <3>3. QED
        BY <1>1, <3>2 DEF PageRow, SameRows
  <2>2. ChatTypeOK'
      BY <1>2, <2>1 DEF ChatInv, ChatTypeOK
  <2>3. page'.ready => page'.restored
      BY <1>1, <2>1 DEF SameRows, Fits, ChatInv, Always, BlankBefore
  <2>4. SameJobs /\ Sends \subseteq chatCalls' /\ chatCalls' \subseteq chatCalls
      BY <1>2, <1>4 DEF SameJobs, Sends
  <2>5. QED
      BY <1>2, <2>1, <2>2, <2>3, <2>4, Quiet
<1>5. QED
    BY <1>3, <1>4

-----------------------------------------------------------------------------
(* The customer sends, or reloads the page                                 *)

\* A send of a text under an id that nobody else's text has: the id it had
\* before, or one that is new to a question that was never asked.
LEMMA Sending ==
    ASSUME ChatInv, NEW p \in PageRow, NEW i \in Ids,
           page.restored,
           p = [page EXCEPT !.items = p.items],
           \A k \in Ids \ {i} : p.items[k] = page.items[k],
           p.items[i].text \in Texts,
           p.items[i].job = page.items[i].job,
           \/ p.items = page.items /\ page.items[i].status # "none"
           \/ /\ \A text \in Texts : ~Holds(i, text)
              /\ \A c \in chatCalls : c.op = "send" => c.id # i
              /\ overlapped \/ \A k \in Ids : ~Holds(k, p.items[i].text),
           Submitted(p, i)
    PROVE  ChatInv'
<1> DEFINE text == p.items[i].text
           row == [p.items[i] EXCEPT !.status = "sending"]
           call == [ChatCall("send", i) EXCEPT !.text = text]
<1>1. /\ page \in PageRow /\ p.items \in [Ids -> ItemRow] /\ page.items \in [Ids -> ItemRow]
      /\ page.stored \in [Ids -> ItemRow] /\ text \in SomeText
    BY DEF ChatInv, ChatTypeOK, PageRow, SomeText
<1>2. /\ row \in ItemRow /\ row.text = text /\ row.status = "sending"
      /\ row.job = page.items[i].job
    BY <1>1 DEF ItemRow, ItemStatus
<1>3. call \in ChatCallRow
  <2>1. ChatCall("send", i) \in ChatCallRow
      BY CallIsTyped
  <2>2. QED
      BY <1>1, <2>1 DEF ChatCallRow
<1>4. /\ call.op = "send" /\ call.id = i /\ call.text = text
      /\ ~call.gone /\ ~call.answered /\ call.jobs = <<>>
    BY DEF ChatCall
<1>5. /\ page' = [p EXCEPT !.submitting = TRUE, !.items = [p.items EXCEPT ![i] = row]]
      /\ chatCalls' = chatCalls \cup {call}
      /\ overlapped' = (overlapped \/ \E c \in chatCalls : c.op = "send" /\ ~c.gone)
      /\ UNCHANGED <<server, told, lost, reloads>>
    BY DEF Submitted, PageRow
<1> HIDE DEF row, call
<1>6. [p.items EXCEPT ![i] = row] \in [Ids -> ItemRow]
    BY <1>1, <1>2
<1>7. /\ p.stored = page.stored /\ p.restored = page.restored /\ p.ready = page.ready
      /\ p.input = page.input
    BY <1>1 DEF PageRow
<1>8. /\ page' \in PageRow /\ page'.items = [p.items EXCEPT ![i] = row]
      /\ page'.stored = page.stored /\ page'.restored = page.restored
      /\ page'.ready = page.ready /\ page'.input = page.input /\ page'.submitting
    BY <1>5, <1>6, <1>7 DEF PageRow
<1>9. /\ page'.items[i] = row
      /\ \A k \in Ids \ {i} : page'.items[k] = page.items[k]
      /\ \A k \in Ids : page'.items[k].job = page.items[k].job
    BY <1>1, <1>2, <1>8
<1>10. overlapped' \in BOOLEAN /\ (overlapped => overlapped')
    BY <1>5 DEF ChatInv, ChatTypeOK
<1>11. ChatTypeOK'
    BY <1>3, <1>5, <1>8, <1>10 DEF ChatInv, ChatTypeOK
<1>12. \A k \in Ids : page.items[k].status # "none" => page'.items[k].text = page.items[k].text
  <2>1. CASE p.items = page.items
    <3>1. \A k \in Ids : page'.items[k].text = page.items[k].text
        BY <1>2, <1>9, <2>1
    <3>2. QED
        BY <2>1, <3>1
  <2>2. CASE /\ \A t \in Texts : ~Holds(i, t)
             /\ \A c \in chatCalls : c.op = "send" => c.id # i
    <3>1. page.items[i].status = "none"
        BY <2>2 DEF Holds, Keeps, ChatInv, Always, BlankBefore, RowsAreWhole
    <3>2. QED
        BY <1>9, <2>2, <3>1
  <2>3. QED
      BY <2>1, <2>2
<1>13. Always'
  <2>1. BlankBefore'
      BY <1>2, <1>8, <1>9 DEF ChatInv, Always, BlankBefore, RowsAreWhole
  <2>2. JobsApart'
      BY <1>5 DEF ChatInv, Always, JobsApart
  <2>3. RowsHaveJobs(page.items)' /\ RowsHaveJobs(page.stored)'
      BY <1>5, <1>8, <1>9 DEF ChatInv, Always, RowsHaveJobs
  <2>4. ASSUME NEW c \in chatCalls
        PROVE  Fits(c)'
    <3>1. Fits(c) /\ c.active \subseteq Ids
        BY DEF ChatInv, Always, CallsFit, ChatTypeOK, ChatCallRow
    <3>2. c.op = "send" /\ ~c.gone =>
            /\ page'.items[c.id].status # "none"
            /\ page'.items[c.id].text = c.text
        BY <1>2, <1>9, <1>12, <3>1 DEF Fits
    <3>3. c.op = "jobs" => \A k \in c.active :
            /\ page'.items[k].job # NoJob
            /\ c.answered => page'.items[k].job \in DOMAIN c.jobs
        BY <1>9, <3>1 DEF Fits
    <3>4. QED
        BY <1>5, <1>8, <3>1, <3>2, <3>3 DEF Fits
  <2>5. Fits(call)'
    <3>1. Len(call.jobs) <= Len(server'.jobs)
      <4>1. Len(server.jobs) \in Nat
          BY JobsAreNumbered DEF ChatInv
      <4>2. QED
          BY <1>4, <1>5, <4>1
    <3>2. page'.items[i].status # "none" /\ page'.items[i].text = text
        BY <1>2, <1>9
    <3>3. Fits(call)' <=> /\ Len(call.jobs) <= Len(server'.jobs)
                          /\ i \in Ids /\ text \in Texts
                          /\ page'.restored
                          /\ page'.items[i].status # "none"
                          /\ page'.items[i].text = text
        BY <1>4 DEF Fits
    <3>4. QED
        BY <1>8, <3>1, <3>2, <3>3
  <2>6. CallsFit'
      BY <1>5, <2>4, <2>5 DEF CallsFit
  <2>7. QED
      BY <2>1, <2>2, <2>3, <2>6 DEF Always
<1>14. ASSUME ~overlapped'
       PROVE  InTurn'
  <2>1. InTurn /\ Sends = {} /\ ~overlapped
      BY <1>5, <1>10, <1>14 DEF ChatInv, Sends
  <2>2. \A k \in Ids : Holds(k, text) => k = i
    <3>1. CASE p.items = page.items /\ page.items[i].status # "none"
      <4>1. Holds(i, text)
          BY <3>1 DEF Holds, Keeps
      <4>2. QED
          BY <2>1, <4>1 DEF InTurn, OneIdPerText
    <3>2. CASE \A k \in Ids : ~Holds(k, text)
        BY <3>2
    <3>3. QED
        BY <2>1, <3>1, <3>2
  <2>3. ASSUME NEW k \in Ids, NEW t \in Texts, Holds(k, t)'
        PROVE  Holds(k, t) \/ (k = i /\ t = text)
    <3>1. Jobs(k, t)' => Jobs(k, t)
        BY <1>5 DEF Jobs
    <3>2. (\E c \in chatCalls : AsksFor(c, k, t))' =>
             (\E c \in chatCalls : AsksFor(c, k, t)) \/ (k = i /\ t = text)
        BY <1>4, <1>5 DEF AsksFor
    <3>3. Keeps(page.items, k, t)' => Keeps(page.items, k, t) \/ (k = i /\ t = text)
        BY <1>2, <1>9 DEF Keeps
    <3>4. QED
        BY <1>8, <2>3, <3>1, <3>2, <3>3 DEF Holds, Keeps
  <2>4. OneIdPerText'
      BY <2>1, <2>2, <2>3 DEF InTurn, OneIdPerText
  <2>5. UntoldIsKept'
    <3>1. ASSUME NEW k \in Ids, NEW t \in Texts \ told, Holds(k, t)'
          PROVE  page'.items[k].text = t /\ page'.items[k].status \in {"unknown", "sending"}
      <4>1. CASE k = i /\ t = text
          BY <1>2, <1>9, <4>1
      <4>2. CASE Holds(k, t)
        <5>1. page.items[k].text = t /\ page.items[k].status \in {"unknown", "sending"}
            BY <2>1, <4>2 DEF InTurn, UntoldIsKept
        <5>2. page'.items[k].text = t
            BY <1>12, <5>1
        <5>3. QED
            BY <1>2, <1>9, <5>1, <5>2
      <4>3. QED
          BY <2>3, <3>1, <4>1, <4>2
    <3>2. QED
        BY <1>5, <1>8, <3>1 DEF UntoldIsKept
  <2>6. JobsAreTold'
    <3>1. ASSUME page.items[i].job # NoJob
          PROVE  row.text \in told
      <4>1. page.items[i].status # "none" /\ page.items[i].text \in told
          BY <2>1, <3>1 DEF InTurn, JobsAreTold, ChatInv, Always, BlankBefore, RowsAreWhole
      <4>2. QED
          BY <1>9, <1>12, <4>1
    <3>2. QED
        BY <1>2, <1>5, <1>8, <1>9, <2>1, <3>1 DEF InTurn, JobsAreTold
  <2>7. OneSend'
    <3>1. Sends' = {call}
        BY <1>4, <1>5, <2>1 DEF Sends
    <3>2. \A k \in Ids : page'.items[k].status = "sending" => k = i
        BY <1>9, <2>1 DEF InTurn, OneSend
    <3>3. QED
        BY <1>4, <1>8, <3>1, <3>2 DEF OneSend
  <2>8. QED
      BY <2>4, <2>5, <2>6, <2>7 DEF InTurn
<1>15. QED
    BY <1>10, <1>11, <1>13, <1>14 DEF ChatInv

LEMMA Retrying ==
    ASSUME ChatInv, NEW i \in Ids, page.items[i].status = "unknown", Submitted(page, i)
    PROVE  ChatInv'
<1>1. page \in PageRow /\ page.restored /\ page.items[i].text \in Texts
    BY DEF ChatInv, ChatTypeOK, Always, BlankBefore, RowsAreWhole
<1>2. page = [page EXCEPT !.items = page.items]
    BY <1>1 DEF PageRow
<1>3. QED
    BY <1>1, <1>2, Sending

LEMMA Pressing ==
    ASSUME ChatInv, PressSend
    PROVE  ChatInv'
<1>1. /\ page \in PageRow /\ page.items \in [Ids -> ItemRow]
      /\ page.input \in Texts /\ page.restored /\ ~page.submitting
    BY DEF PressSend, ChatInv, ChatTypeOK, PageRow, SomeText, Always, BlankBefore
<1>2. CASE Unresolved(page.input) # {}
  <2>1. PICK i \in Unresolved(page.input) : Submitted(page, i)
      BY <1>2 DEF PressSend
  <2>2. i \in Ids /\ page.items[i].status = "unknown"
      BY DEF Unresolved
  <2>3. QED
      BY <2>1, <2>2, Retrying
<1>3. CASE Unresolved(page.input) = {}
  <2>1. PICK i \in Ids \ Used : Submitted([page EXCEPT !.items[i].text = page.input], i)
      BY <1>3 DEF PressSend
  <2> DEFINE row == [page.items[i] EXCEPT !.text = page.input]
             p == [page EXCEPT !.items = [page.items EXCEPT ![i] = row]]
  <2>2. row \in ItemRow /\ row.text = page.input /\ row.job = page.items[i].job
      BY <1>1 DEF ItemRow, SomeText
  <2>3. Submitted(p, i)
      BY <2>1
  <2> HIDE DEF row
  <2>4. /\ p \in PageRow /\ p.items[i] = row /\ p = [page EXCEPT !.items = p.items]
        /\ \A k \in Ids \ {i} : p.items[k] = page.items[k]
    <3>1. [page.items EXCEPT ![i] = row] \in [Ids -> ItemRow]
        BY <1>1, <2>2
    <3>2. p \in PageRow /\ p.items = [page.items EXCEPT ![i] = row]
        BY <1>1, <3>1 DEF PageRow
    <3>3. QED
        BY <1>1, <3>2
  <2> HIDE DEF p
  <2>5. /\ \A text \in Texts : ~Holds(i, text)
        /\ \A c \in chatCalls : c.op = "send" => c.id # i
      BY <2>1 DEF Used, Holds, Keeps, AsksFor, Jobs
  <2>6. ASSUME ~overlapped, NEW k \in Ids, Holds(k, page.input)
        PROVE  FALSE
    <3>1. InTurn
        BY <2>6 DEF ChatInv
    <3>2. page.input \notin told
        BY <3>1 DEF InTurn, JobsAreTold, PressSend
    <3>3. page.items[k].text = page.input /\ page.items[k].status \in {"unknown", "sending"}
        BY <1>1, <2>6, <3>1, <3>2 DEF InTurn, UntoldIsKept
    <3>4. page.items[k].status # "unknown"
        BY <1>3, <3>3 DEF Unresolved
    <3>5. QED
        BY <1>1, <3>1, <3>3, <3>4 DEF InTurn, OneSend
  <2>7. overlapped \/ \A k \in Ids : ~Holds(k, p.items[i].text)
      BY <2>2, <2>4, <2>6 DEF ChatInv, ChatTypeOK
  <2>8. QED
      BY <1>1, <2>2, <2>3, <2>4, <2>5, <2>7, Sending
<1>4. QED
    BY <1>2, <1>3

\* What a page that goes keeps is what it knew of the questions not yet answered for.
LEMMA Reloading ==
    ASSUME ChatInv, Reload
    PROVE  ChatInv'
<1> DEFINE rows == IF page.restored THEN Saved(page.items) ELSE page.stored
<1>1. /\ page \in PageRow /\ page.items \in [Ids -> ItemRow] /\ page.stored \in [Ids -> ItemRow]
      /\ reloads \in Nat
    BY DEF ChatInv, ChatTypeOK, PageRow
<1>2. rows \in [Ids -> ItemRow]
    BY <1>1, SavedRows
<1>3. ASSUME NEW i \in Ids
      PROVE  IF page.restored
             THEN IF page.items[i].status \in Final THEN rows[i] = Unused
                  ELSE /\ rows[i].text = page.items[i].text
                       /\ rows[i].job = page.items[i].job
                       /\ rows[i].status = IF page.items[i].status = "sending" THEN "unknown"
                                           ELSE page.items[i].status
             ELSE rows[i] = page.stored[i]
    BY <1>1, SavedRows
<1>4. page' = Fresh(rows)
    BY DEF Reload
<1> HIDE DEF rows
<1>5. /\ page' \in PageRow /\ page'.stored = rows /\ ~page'.restored /\ ~page'.ready
      /\ page'.input = NoText
      /\ \A i \in Ids : page'.items[i].status = "none" /\ page'.items[i].job = NoJob
    BY <1>2, <1>4, FreshIsPage DEF Unused
<1>6. /\ UNCHANGED <<server, overlapped, told, lost>> /\ reloads' = reloads + 1
      /\ chatCalls' = {[call EXCEPT !.gone = TRUE] :
                 call \in {c \in chatCalls : c.op \in {"send", "handoff"} /\ ~c.answered}}
    BY DEF Reload
<1>7. ASSUME NEW c \in chatCalls'
      PROVE  \E call \in chatCalls :
                /\ c \in ChatCallRow /\ c.gone /\ ~c.answered
                /\ c.op = call.op /\ c.op \in {"send", "handoff"}
                /\ c.id = call.id /\ c.text = call.text /\ c.jobs = call.jobs
  <2>1. PICK call \in chatCalls :
          /\ call.op \in {"send", "handoff"} /\ ~call.answered
          /\ c = [call EXCEPT !.gone = TRUE]
      BY <1>6, <1>7
  <2>2. call \in ChatCallRow
      BY DEF ChatInv, ChatTypeOK
  <2>3. QED
      BY <2>1, <2>2 DEF ChatCallRow
<1>8. ChatTypeOK'
    BY <1>1, <1>5, <1>6, <1>7 DEF ChatInv, ChatTypeOK
<1>9. Always'
  <2>1. BlankBefore'
      BY <1>3, <1>5 DEF ChatInv, Always, BlankBefore, RowsAreWhole, Unused
  <2>2. JobsApart'
      BY <1>6 DEF ChatInv, Always, JobsApart
  <2>3. RowsHaveJobs(page.items)' /\ RowsHaveJobs(page.stored)'
      BY <1>3, <1>5, <1>6 DEF ChatInv, Always, RowsHaveJobs, Unused
  <2>4. ASSUME NEW c \in chatCalls'
        PROVE  Fits(c)'
    <3>1. PICK call \in chatCalls :
                /\ c.gone /\ ~c.answered
                /\ c.op = call.op /\ c.op \in {"send", "handoff"}
                /\ c.id = call.id /\ c.text = call.text /\ c.jobs = call.jobs
        BY <1>7
    <3>2. Fits(call)
        BY DEF ChatInv, Always, CallsFit
    <3>3. QED
        BY <1>6, <3>1, <3>2 DEF Fits
  <2>5. CallsFit'
      BY <2>4 DEF CallsFit
  <2>6. QED
      BY <2>1, <2>2, <2>3, <2>5 DEF Always
<1>10. ASSUME InTurn
       PROVE  InTurn'
  <2>1. ASSUME NEW i \in Ids, NEW text \in Texts, Holds(i, text)'
        PROVE  Holds(i, text)
    <3>1. Jobs(i, text)' => Jobs(i, text)
        BY <1>6 DEF Jobs
    <3>2. (\E c \in chatCalls : AsksFor(c, i, text))' => \E c \in chatCalls : AsksFor(c, i, text)
        BY <1>7 DEF AsksFor
    <3>3. Keeps(page.stored, i, text)' => Keeps(page.items, i, text) \/ Keeps(page.stored, i, text)
        BY <1>3, <1>5 DEF Keeps, Unused
    <3>4. ~Keeps(page.items, i, text)'
        BY <1>5 DEF Keeps
    <3>5. QED
        BY <2>1, <3>1, <3>2, <3>3, <3>4 DEF Holds
  <2>2. OneIdPerText'
      BY <1>10, <2>1 DEF InTurn, OneIdPerText
  <2>3. UntoldIsKept'
    <3>1. ASSUME NEW i \in Ids, NEW text \in Texts \ told, Holds(i, text)'
          PROVE  rows[i].text = text /\ rows[i].status = "unknown"
        BY <1>3, <1>10, <2>1, <3>1 DEF InTurn, UntoldIsKept, Final
    <3>2. QED
        BY <1>5, <1>6, <3>1 DEF UntoldIsKept
  <2>4. JobsAreTold'
      BY <1>3, <1>5, <1>6, <1>10 DEF InTurn, JobsAreTold, Unused
  <2>5. OneSend'
      BY <1>5, <1>7 DEF OneSend, Sends
  <2>6. QED
      BY <2>2, <2>3, <2>4, <2>5 DEF InTurn
<1>11. QED
    BY <1>6, <1>8, <1>9, <1>10 DEF ChatInv

-----------------------------------------------------------------------------
(* The theorems                                                            *)

LEMMA ChatStarts ==
    ASSUME ChatInit
    PROVE  ChatInv
<1>1. [i \in Ids |-> Unused] \in [Ids -> ItemRow]
    BY DEF Unused, ItemRow, SomeText, ItemStatus, NoJob
<1>2. /\ page \in PageRow /\ ~page.restored /\ ~page.ready /\ page.input = NoText
      /\ \A i \in Ids : page.items[i] = Unused /\ page.stored[i] = Unused
    BY <1>1, FreshIsPage DEF ChatInit
<1>3. server \in ServerRow /\ server.jobs = <<>> /\ chatCalls = {}
  <2>1. <<>> \in Seq(JobRow)
      OBVIOUS
  <2>2. QED
      BY <2>1 DEF ChatInit, ServerRow, ChatStatus
<1>4. ChatTypeOK
    BY <1>2, <1>3 DEF ChatInit, ChatTypeOK
<1>5. Always
    BY <1>2, <1>3 DEF Always, BlankBefore, JobsApart, RowsHaveJobs, RowsAreWhole, CallsFit, Unused
<1>6. InTurn
    BY <1>2, <1>3 DEF InTurn, OneIdPerText, UntoldIsKept, JobsAreTold, OneSend, Sends, Unused,
                      Holds, Keeps, Jobs
<1>7. QED
    BY <1>4, <1>5, <1>6 DEF ChatInv

LEMMA ChatStutters ==
    ASSUME ChatInv, UNCHANGED chatVars
    PROVE  ChatInv'
<1>1. server' \in ServerRow /\ SameJobs
    BY DEF ChatInv, ChatTypeOK, SameJobs, chatVars
<1>2. QED
    BY <1>1, Working DEF chatVars

\* The state of the page, its calls and the server agree at all times on which
\* request id a question has, and on what became of it.
THEOREM ChatInvariance == ChatSpec => []ChatInv
<1>1. ChatInit => ChatInv
    BY ChatStarts
<1>2. ChatInv /\ [ChatNext]_chatVars => ChatInv'
  <2> SUFFICES ASSUME ChatInv, [ChatNext]_chatVars
               PROVE  ChatInv'
      OBVIOUS
  <2>1. ASSUME NEW text \in Texts, Enter(text)
        PROVE  ChatInv'
      BY <2>1, Entering
  <2>2. CASE PressSend
      BY <2>2, Pressing
  <2>3. CASE AskForOperator
      BY <2>3, AskingOperator
  <2>4. CASE Reload
      BY <2>4, Reloading
  <2>5. CASE PollChat
      BY <2>5, Polling
  <2>6. CASE OperatorActs
      BY <2>6, OperatorActing
  <2>7. ASSUME NEW i \in Ids, Retry(i)
        PROVE  ChatInv'
      BY <2>7, Retrying DEF Retry
  <2>8. ASSUME NEW j \in DOMAIN server.jobs, JobEnds(j)
        PROVE  ChatInv'
      BY <2>8, JobEnding
  <2>9. ASSUME NEW call \in chatCalls, ServeChat(call)
        PROVE  ChatInv'
      BY <2>9, Serving
  <2>10. ASSUME NEW call \in chatCalls, Arrives(call)
         PROVE  ChatInv'
      BY <2>10, HistoryArriving, JobsArriving, SendArriving, HandoffArriving DEF Arrives
  <2>11. ASSUME NEW call \in chatCalls, Lose(call)
         PROVE  ChatInv'
      BY <2>11, Losing
  <2>12. CASE UNCHANGED chatVars
      BY <2>12, ChatStutters
  <2>13. QED
      BY <2>1, <2>2, <2>3, <2>4, <2>5, <2>6, <2>7, <2>8, <2>9, <2>10, <2>11, <2>12 DEF ChatNext
<1>3. QED
    BY <1>1, <1>2, PTL DEF ChatSpec

LEMMA AskingTwice ==
    ASSUME ChatInv
    PROVE  AskedOnce
<1>1. SUFFICES ASSUME ~overlapped, NEW text \in Texts
               PROVE  Cardinality(JobsAsking(text)) <= 1
    BY DEF AskedOnce
<1>2. InTurn
    BY <1>1 DEF ChatInv
<1>3. ASSUME NEW j \in JobsAsking(text), NEW k \in JobsAsking(text)
      PROVE  j = k
  <2>1. /\ j \in DOMAIN server.jobs /\ k \in DOMAIN server.jobs
        /\ server.jobs[j].text = text /\ server.jobs[k].text = text
      BY DEF JobsAsking
  <2>2. server.jobs[j].id \in Ids /\ server.jobs[k].id \in Ids
      BY <2>1, JobsAreNumbered DEF ChatInv, JobRow
  <2>3. Holds(server.jobs[j].id, text) /\ Holds(server.jobs[k].id, text)
      BY <2>1 DEF Holds, Jobs
  <2>4. server.jobs[j].id = server.jobs[k].id
      BY <1>2, <2>2, <2>3 DEF InTurn, OneIdPerText
  <2>5. QED
      BY <2>1, <2>4 DEF ChatInv, Always, JobsApart
<1>4. CASE JobsAsking(text) = {}
    BY <1>4, FS_EmptySet
<1>5. CASE JobsAsking(text) # {}
  <2>1. PICK j \in JobsAsking(text) : TRUE
      BY <1>5
  <2>2. JobsAsking(text) = {j}
      BY <1>3
  <2>3. Cardinality({j}) = 1
      BY FS_Singleton
  <2>4. QED
      BY <2>2, <2>3
<1>6. QED
    BY <1>4, <1>5

\* A question is asked once (submitRequest, submit handler of chat.js): however
\* often its answer is lost, it is sent again or the page is reloaded, the server
\* has at most one job of it, if the sends of this page never overlapped.
THEOREM QuestionsAreAskedOnce == ChatSpec => []AskedOnce
<1>1. ChatInv => AskedOnce
    BY AskingTwice
<1>2. QED
    BY <1>1, ChatInvariance, PTL
=============================================================================
