-------------------------- MODULE MCOrderWorkflow --------------------------
(***************************************************************************)
(* Two instances of OrderWorkflow in one run: two admins race over three   *)
(* edits of an order, or one admin takes it through a longer life.         *)
(***************************************************************************)
EXTENDS OrderWorkflow, TLC

CONSTANTS admin1, admin2, admin3, courier1, courier2

VARIABLE life   \* which of the two this behaviour is

TwoAdmins == {admin1, admin2}
TwoContacts == {courier1, courier2}
Symmetry == Permutations(TwoAdmins) \cup Permutations(TwoContacts)

Long == INSTANCE OrderWorkflow WITH
  Admins <- {admin3}, MaxRevision <- MaxRevision + 1, MaxClock <- MaxClock + 1, MaxRetries <- 0

LivesInit ==
  \/ life = "race" /\ Init
  \/ life = "long" /\ Long!Init

LivesNext ==
  /\ UNCHANGED life
  /\ \/ life = "race" /\ Next
     \/ life = "long" /\ Long!Next

LivesSpec == LivesInit /\ [][LivesNext]_<<life, vars>>
=============================================================================
