------------------------------ MODULE OneVoice ------------------------------
(***************************************************************************)
(* What a shared chat promises a customer, whatever workers crash, are     *)
(* restarted or overlap: one party at a time speaks for the shop.  The     *)
(* assistant answers open questions, the oldest first, each once; while an *)
(* operator holds the chat nobody else speaks, and the questions that were *)
(* open when it was taken over are the operator's.  Conversation           *)
(* implements this.                                                        *)
(***************************************************************************)
EXTENDS Naturals, Sequences

CONSTANTS
  Operators,
  Assistant,    \* who speaks when no operator does
  Questions     \* the numbers of questions, in the order they are asked

VARIABLES
  speaker,      \* the assistant, or the operator who holds the chat
  open,         \* questions the assistant owes an answer
  said          \* the transcript: who said it, and the question it is about

Init ==
  /\ speaker = Assistant
  /\ open = {}
  /\ said = <<>>

Say(who, question) == said' = Append(said, [by |-> who, of |-> question])

\* Lines that speak for nobody: notices, and a customer's own requests.
Announce ==
  /\ SubSeq(said', 1, Len(said)) = said
  /\ \A i \in Len(said) + 1 .. Len(said') :
       said'[i] \in [by : {"customer", "system"}, of : {0}]
  /\ UNCHANGED <<speaker, open>>

Ask(question) ==
  /\ \A earlier \in open : earlier < question
  /\ Say("customer", question)
  /\ open' = IF speaker = Assistant THEN open \cup {question} ELSE open
  /\ UNCHANGED speaker

Answer(question) ==
  /\ speaker = Assistant
  /\ question \in open
  /\ \A other \in open : question <= other
  /\ Say("assistant", question)
  /\ open' = open \ {question}
  /\ UNCHANGED speaker

\* The question of a customer who is blocked is not answered.
Drop(question) ==
  /\ question \in open
  /\ open' = open \ {question}
  /\ UNCHANGED <<speaker, said>>

TakeOver(operator) ==
  /\ speaker = Assistant
  /\ speaker' = operator
  /\ open' = {}
  /\ Say("system", 0)

Reply ==
  /\ speaker \in Operators
  /\ Say("operator", 0)
  /\ UNCHANGED <<speaker, open>>

GiveBack ==
  /\ speaker \in Operators
  /\ speaker' = Assistant
  /\ Say("system", 0)
  /\ UNCHANGED open

Next ==
  \/ Announce
  \/ Reply
  \/ GiveBack
  \/ \E question \in Questions : Ask(question) \/ Answer(question) \/ Drop(question)
  \/ \E operator \in Operators : TakeOver(operator)

Spec == Init /\ [][Next]_<<speaker, open, said>>
=============================================================================
