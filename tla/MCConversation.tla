--------------------------- MODULE MCConversation ---------------------------
(***************************************************************************)
(* Instances of Conversation for TLC.  LivesSpec puts two of them into one *)
(* run: three questions while the chat changes hands twice, or one         *)
(* question whose tool calls are repeated by later runs.  LiveSpec is one  *)
(* with the fairness of Conversation.                                      *)
(***************************************************************************)
EXTENDS Conversation, TLC

CONSTANTS w1, w2, ana, bek

VARIABLE life   \* which of these this behaviour is

TwoWorkers == {w1, w2}
TwoOperators == {ana, bek}
OneOperator == {ana}
TurnSymmetry == Permutations(TwoWorkers) \cup Permutations(TwoOperators)

Repeat == INSTANCE Conversation WITH
  Operators <- OneOperator, PendingLimit <- 1, MaxJobs <- 1, MaxRequests <- 2, MaxCalls <- 2,
  MaxFaults <- 2

LivesInit ==
  \/ life = "voice" /\ Init
  \/ life = "tools" /\ Repeat!Init

LivesNext ==
  /\ UNCHANGED life
  /\ \/ life \in {"voice", "live"} /\ Next
     \/ life = "tools" /\ Repeat!Next

LivesSpec == LivesInit /\ [][LivesNext]_<<life, vars>>

LiveInit == life = "live" /\ Init

LiveSpec == LiveInit /\ [][LivesNext]_<<life, vars>> /\ Fairness
=============================================================================
