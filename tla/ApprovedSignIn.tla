--------------------------- MODULE ApprovedSignIn ---------------------------
(***************************************************************************)
(* What signing in through the bot promises, without browsers or networks: *)
(* one account takes a challenge up, gives one verdict, and a yes lets     *)
(* that account in once.  A challenge may be over at any moment.           *)
(***************************************************************************)
EXTENDS Naturals, Sequences

CONSTANTS Challenges, Accounts, Nobody

VARIABLES
    holder,  \* the account that took each challenge up
    verdict, \* what it said
    entries  \* who was let in, on which challenge

Init ==
    /\ holder = [c \in Challenges |-> Nobody]
    /\ verdict = [c \in Challenges |-> "open"]
    /\ entries = <<>>

TakeUp(c, a) ==
    /\ verdict[c] = "open"
    /\ holder[c] = Nobody
    /\ holder' = [holder EXCEPT ![c] = a]
    /\ UNCHANGED <<verdict, entries>>

Say(c, v) ==
    /\ verdict[c] = "open"
    /\ holder[c] # Nobody
    /\ verdict' = [verdict EXCEPT ![c] = v]
    /\ UNCHANGED <<holder, entries>>

Drop(c) ==
    /\ verdict' = [verdict EXCEPT ![c] = "over"]
    /\ UNCHANGED <<holder, entries>>

Enter(c) ==
    /\ verdict[c] = "yes"
    /\ verdict' = [verdict EXCEPT ![c] = "over"]
    /\ entries' = Append(entries, [account |-> holder[c], challenge |-> c])
    /\ UNCHANGED holder

Next ==
    \E c \in Challenges :
        \/ \E a \in Accounts : TakeUp(c, a)
        \/ Say(c, "yes")
        \/ Say(c, "no")
        \/ Drop(c)
        \/ Enter(c)

Spec == Init /\ [][Next]_<<holder, verdict, entries>>
=============================================================================
