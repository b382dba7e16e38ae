------------------------- MODULE ConversationProofs -------------------------
(***************************************************************************)
(* Proofs about Conversation, for any number of workers, deliverers,       *)
(* operators, questions, hand-overs, requests, tool calls and faults.      *)
(*                                                                         *)
(* That the chat speaks with one voice rests on AnswersOldest: a run that  *)
(* holds the lease of the generation it started in is about the oldest     *)
(* open question.  That a notice's copies are paid for rests on            *)
(* AttemptsLeased, which counts the sends still to come with the copies.   *)
(***************************************************************************)
EXTENDS Conversation, FiniteSetTheorems, SequenceTheorems, WellFoundedInduction, TLAPS

\* Jobs are filed up to their bound.
JobsBounded == Len(jobs) <= MaxJobs

\* A run at work is about a question that was asked, knows no generation of
\* the future, and has made no call that is not on record.
RunsAgree ==
  \A w \in Workers :
    /\ runs[w].generation <= chat.generation
    /\ runs[w].phase # "idle" =>
         /\ runs[w].job \in DOMAIN jobs
         /\ runs[w].calls <= Len(jobs[runs[w].job].receipts)

Oldest(j) == j \in OpenJobs /\ \A other \in OpenJobs : j <= other

\* A run that may still answer is about the oldest open question.
AnswersOldest ==
  \A w \in Workers : runs[w].phase # "idle" /\ Fenced(w) => Oldest(runs[w].job)

\* A request that a tool made has its receipt.
RequestsReceipted ==
  \A r \in DOMAIN requests :
    requests[r].by # 0 =>
      /\ requests[r].by \in DOMAIN jobs
      /\ requests[r].call <= Len(jobs[requests[r].by].receipts)

\* The handoff of this generation is the one that is waited for.
HandoffsDated ==
  \A n \in DOMAIN notices :
    notices[n].kind = "operator" =>
      /\ notices[n].event <= chat.generation
      /\ notices[n].event = chat.generation => chat.status # "ai"

\* A delivery run holds notices that are there, and has sent what it says.
DeliveriesAgree ==
  \A d \in Deliverers :
    /\ delivery[d].todo \subseteq DOMAIN notices
    /\ delivery[d].notice # 0 => delivery[d].notice \in DOMAIN notices
    /\ delivery[d].accepted =>
         delivery[d].notice # 0 /\ notices[delivery[d].notice].copies > 0

\* The runs that are about to send a notice.
Senders(n) == {d \in Deliverers : delivery[d].notice = n /\ ~delivery[d].accepted}

\* Leases on a notice so far, of which its lapses are all but the last.
Leases(notice) ==
  notice.lapses
    + IF notice.sent \/ (notice.holder # Nobody /\ ~notice.expired) THEN 1 ELSE 0

\* Each copy, made or to come, has a lease of its own.
AttemptsLeased ==
  \A n \in DOMAIN notices :
    /\ IsFiniteSet(Senders(n))
    /\ notices[n].copies + Cardinality(Senders(n)) <= Leases(notices[n])

\* The inductive invariant.
IInv ==
  /\ TypeOK
  /\ JobsBounded
  /\ RunsAgree
  /\ AnswersOldest
  /\ RequestsReceipted
  /\ ToolsActOnce
  /\ HandoffsDated
  /\ HandoffNoticesUnique
  /\ DeliveriesAgree
  /\ SentMeansDelivered
  /\ AttemptsLeased

-----------------------------------------------------------------------------
\* A set of numbers that is not empty has a least one.
LEMMA Least ==
  ASSUME NEW S \in SUBSET Nat, S # {}
  PROVE  \E n \in S : \A m \in S : n <= m
<1> DEFINE R == OpToRel(<, Nat)
<1>1. IsWellFoundedOn(R, Nat)
  BY NatLessThanWellFounded
<1>2. \A m, n \in Nat : m < n => <<m, n>> \in R
  BY DEF OpToRel
<1> HIDE DEF R
<1>3. PICK n \in S : \A m \in S : ~(<<m, n>> \in R)
  BY <1>1, WFMin
<1>4. ASSUME NEW m \in S PROVE n <= m
  <2>1. m \in Nat /\ n \in Nat /\ ~(m < n)
    BY <1>2, <1>3
  <2> QED
    BY <2>1
<1> QED
  BY <1>4

\* The bounds are numbers.
LEMMA Bounds ==
  /\ MaxJobs \in Nat /\ MaxGeneration \in Nat /\ MaxRequests \in Nat
  /\ MaxCalls \in Nat /\ MaxFaults \in Nat
BY ConversationAssumption DEF ConversationAssumption

\* What a row appended to a table leaves and adds.
LEMMA Appending ==
  ASSUME NEW S, NEW s \in Seq(S), NEW e \in S
  PROVE  /\ Append(s, e) \in Seq(S)
         /\ Len(s) \in Nat
         /\ Len(Append(s, e)) = Len(s) + 1
         /\ DOMAIN s = 1 .. Len(s)
         /\ DOMAIN Append(s, e) = 1 .. Len(s) + 1
         /\ \A k \in DOMAIN s : Append(s, e)[k] = s[k]
         /\ Append(s, e)[Len(s) + 1] = e
  OBVIOUS

LEMMA Concatenating ==
  ASSUME NEW S, NEW s \in Seq(S), NEW e \in S
  PROVE  s \o <<e>> = Append(s, e) /\ s \o <<>> = s
<1>1. s \o <<e>> = Append(s, e)
  BY AppendIsConcat
<1> QED
  BY <1>1, ConcatEmptySeq

\* A table of which one row, if it is there, is changed.
LEMMA Changing ==
  ASSUME NEW S, NEW s \in Seq(S), NEW k, NEW e, k \in DOMAIN s => e \in S
  PROVE  /\ [s EXCEPT ![k] = e] \in Seq(S)
         /\ Len([s EXCEPT ![k] = e]) = Len(s)
         /\ DOMAIN [s EXCEPT ![k] = e] = DOMAIN s
<1>1. CASE k \in DOMAIN s
  BY <1>1
<1>2. CASE k \notin DOMAIN s
  <2>1. [s EXCEPT ![k] = e] = s
    BY <1>2
  <2> QED
    BY <2>1
<1> QED
  BY <1>1, <1>2

\* The notices that a step of the chat files: none, or one.
LEMMA FreshNotice ==
  ASSUME NEW kind \in {"operator", "customer", "ai"}, NEW event \in Nat
  PROVE  Notice(kind, event) \in NoticeRow
  BY DEF Notice, NoticeRow

\* The question that is oldest is open, and there are no older ones.
LEMMA OldestIsThere ==
  ASSUME jobs \in Seq(JobRow), OpenJobs # {}
  PROVE  Oldest(OldestOpen) /\ OldestOpen \in DOMAIN jobs
<1>1. OpenJobs \in SUBSET Nat /\ OpenJobs \subseteq DOMAIN jobs
  BY DEF OpenJobs
<1>2. \E j \in OpenJobs : \A other \in OpenJobs : j <= other
  BY <1>1, Least
<1> QED
  BY <1>1, <1>2 DEF OldestOpen, Oldest

-----------------------------------------------------------------------------
(* Types                                                                   *)

\* What a handoff does to the tables: a line and a notice, if it is the first,
\* and the customer's own line, if it comes with a request.
LEMMA HandoffFiles ==
  ASSUME TypeOK, NEW channel \in Channels, NEW lines \in {<<>>, <<Line("customer", 0)>>},
         Handoff(channel, lines)
  PROVE  /\ chat' \in ChatRow
         /\ UNCHANGED <<chat.operator, chat.generation, chat.lease>>
         /\ chat.status # "ai" => chat'.status = chat.status /\ notices' = notices
         /\ chat.status = "ai" =>
              /\ chat'.status = "waiting"
              /\ notices' = Append(notices, Notice("operator", chat.generation))
         /\ said' \in Seq(LineRow)
         /\ notices' \in Seq(NoticeRow)
<1>1. chat \in ChatRow /\ said \in Seq(LineRow) /\ notices \in Seq(NoticeRow)
  BY DEF TypeOK
<1>2. Line("system", 0) \in LineRow /\ Line("customer", 0) \in LineRow
  BY ConversationAssumption DEF Line, LineRow
<1>3. lines \in Seq(LineRow)
  <2>1. <<Line("customer", 0)>> \in Seq(LineRow)
    BY <1>2
  <2>2. <<>> \in Seq(LineRow)
    OBVIOUS
  <2> QED
    BY <2>1, <2>2
<1>4. said' \in Seq(LineRow)
  <2>1. CASE chat.status = "ai"
    <3>1. said' = Append(said, Line("system", 0)) \o lines
      BY <1>1, <1>2, <2>1, Concatenating DEF Handoff
    <3>2. Append(said, Line("system", 0)) \in Seq(LineRow)
      BY <1>1, <1>2
    <3> QED
      BY <1>3, <3>1, <3>2, ConcatProperties
  <2>2. CASE chat.status # "ai"
    <3>1. said' = said \o lines
      BY <1>1, <1>2, <2>2, Concatenating DEF Handoff
    <3> QED
      BY <1>1, <1>3, <3>1, ConcatProperties
  <2> QED
    BY <2>1, <2>2
<1>5. chat.generation \in Nat
  BY <1>1 DEF ChatRow
<1>6. Notice("operator", chat.generation) \in NoticeRow
  BY <1>5, FreshNotice
<1>7. chat.status = "ai" => notices' = Append(notices, Notice("operator", chat.generation))
  BY <1>1, <1>6, Concatenating DEF Handoff
<1>8. chat.status # "ai" => notices' = notices
  BY <1>1, <1>6, Concatenating DEF Handoff
<1>9. notices' \in Seq(NoticeRow)
  BY <1>1, <1>6, <1>7, <1>8
<1>10. /\ chat' \in ChatRow
      /\ UNCHANGED <<chat.operator, chat.generation, chat.lease>>
      /\ chat'.status = IF chat.status = "ai" THEN "waiting" ELSE chat.status
  BY <1>1, ConversationAssumption DEF Handoff, ChatRow
<1> QED
  BY <1>4, <1>7, <1>8, <1>9, <1>10

LEMMA CustomerNoticeIsOne ==
  ASSUME NEW s \in Seq(NoticeRow), said \in Seq(LineRow)
  PROVE  /\ \/ s \o CustomerNotice = s
            \/ s \o CustomerNotice = Append(s, Notice("customer", Len(said) + 1))
         /\ s \o CustomerNotice \in Seq(NoticeRow)
<1>1. Notice("customer", Len(said) + 1) \in NoticeRow
  BY FreshNotice
<1> QED
  BY <1>1, Concatenating DEF CustomerNotice

\* The notices an operator's arrival leaves, before his own.
RetiredNotices == [n \in DOMAIN notices |-> Retired(notices[n])]

LEMMA Retiring ==
  ASSUME notices \in Seq(NoticeRow)
  PROVE  /\ RetiredNotices \in Seq(NoticeRow)
         /\ Len(RetiredNotices) = Len(notices)
         /\ DOMAIN RetiredNotices = DOMAIN notices
<1>1. \A n \in DOMAIN notices : notices[n] \in NoticeRow
  OBVIOUS
<1>2. \A n \in DOMAIN notices : Retired(notices[n]) \in NoticeRow
  BY <1>1 DEF Retired, NoticeRow
<1> QED
  BY <1>2 DEF RetiredNotices

\* The jobs an operator takes over.
TakenJobs ==
  [j \in DOMAIN jobs |->
     IF j \in OpenJobs THEN [jobs[j] EXCEPT !.status = "human"] ELSE jobs[j]]

LEMMA Taking ==
  ASSUME jobs \in Seq(JobRow)
  PROVE  /\ TakenJobs \in Seq(JobRow)
         /\ Len(TakenJobs) = Len(jobs)
         /\ DOMAIN TakenJobs = DOMAIN jobs
<1>1. \A j \in DOMAIN jobs : jobs[j] \in JobRow
  OBVIOUS
<1>2. \A j \in DOMAIN jobs : [jobs[j] EXCEPT !.status = "human"] \in JobRow
  BY <1>1 DEF JobRow
<1> QED
  BY <1>1, <1>2 DEF TakenJobs

\* Handing the chat over keeps it a chat.
LEMMA HandedOverTypes ==
  ASSUME TypeOK, chat.generation < MaxGeneration,
         NEW status \in {"ai", "waiting", "human"}, NEW operator \in Operators \cup {Nobody}
  PROVE  /\ HandedOver(status, operator) \in ChatRow
         /\ HandedOver(status, operator).status = status
         /\ HandedOver(status, operator).operator = operator
         /\ HandedOver(status, operator).generation = chat.generation + 1
         /\ HandedOver(status, operator).lease = Nobody
<1>1. Unleased(chat) \in ChatRow
  BY DEF TypeOK, Unleased, ChatRow
<1>2. Unleased(chat).generation = chat.generation /\ Unleased(chat).lease = Nobody
  BY DEF TypeOK, Unleased, ChatRow
<1>3. chat.generation + 1 \in 0 .. MaxGeneration
  BY Bounds DEF TypeOK, ChatRow
<1> QED
  BY <1>1, <1>2, <1>3 DEF HandedOver, ChatRow

LEMMA ResumptionTypes ==
  ASSUME TypeOK, NEW channel \in {"web", "telegram"}, ResumeAi(channel)
  PROVE  TypeOK'
<1>1. chat \in ChatRow /\ said \in Seq(LineRow)
  BY DEF TypeOK
<1>2. Line("system", 0) \in LineRow
  BY Bounds DEF Line, LineRow
<1>3. CASE chat.status = "ai"
  BY <1>1, <1>3 DEF ResumeAi, TypeOK, ChatRow
<1>4. CASE chat.status # "ai"
  <2>1. /\ chat' = [HandedOver("ai", Nobody) EXCEPT !.channel = channel]
        /\ chat.generation < MaxGeneration
        /\ said' = Append(said, Line("system", 0))
    BY <1>4 DEF ResumeAi
  <2>2. said' \in Seq(LineRow)
    BY <1>1, <1>2, <2>1
  <2>3. chat' \in ChatRow /\ chat'.operator = Nobody /\ chat'.status = "ai"
    BY <2>1, HandedOverTypes DEF ChatRow
  <2> QED
    BY <2>2, <2>3 DEF ResumeAi, TypeOK
<1> QED
  BY <1>3, <1>4

LEMMA CustomerTypes ==
  ASSUME TypeOK, CustomerStep
  PROVE  TypeOK'
<1>1. PICK channel \in Channels :
        Submit(channel) \/ AskForOperator(channel) \/ SendRequest(channel) \/ ResumeAi(channel)
  BY DEF CustomerStep
<1>2. channel \in {"web", "telegram"}
  BY ConversationAssumption
<1>3. CASE Submit(channel)
  <2>1. chat' \in ChatRow /\ UNCHANGED <<chat.operator, chat.status>>
    BY <1>2, <1>3 DEF Submit, TypeOK, ChatRow
  <2>2. Line("customer", Len(jobs) + 1) \in LineRow
    BY <1>3, ConversationAssumption DEF Submit, TypeOK, Line, LineRow
  <2>3. said' \in Seq(LineRow)
    BY <1>3, <2>2 DEF Submit, TypeOK
  <2>4. <<>> \in Seq(Receipt)
    OBVIOUS
  <2>5. [status |-> IF chat.status = "human" THEN "human" ELSE "pending",
         channel |-> channel, receipts |-> <<>>] \in JobRow
    BY <1>2, <2>4 DEF JobRow
  <2>6. jobs' \in Seq(JobRow)
    BY <1>3, <2>5 DEF Submit, TypeOK
  <2> QED
    BY <1>3, <2>1, <2>3, <2>6 DEF Submit, TypeOK
<1>4. CASE AskForOperator(channel)
  BY <1>4, HandoffFiles DEF AskForOperator, TypeOK
<1>5. CASE SendRequest(channel)
  <2>1. requests' \in Seq(RequestRow)
    <3>1. [by |-> 0, call |-> 0, open |-> TRUE] \in RequestRow
      BY ConversationAssumption DEF RequestRow
    <3> QED
      BY <1>5, <3>1 DEF SendRequest, CreateRequest, TypeOK
  <2> QED
    BY <1>5, <2>1, HandoffFiles DEF SendRequest, CreateRequest, TypeOK
<1>6. CASE ResumeAi(channel)
  BY <1>2, <1>6, ResumptionTypes
<1> QED
  BY <1>1, <1>3, <1>4, <1>5, <1>6

LEMMA OperatorTypes ==
  ASSUME TypeOK, OperatorStep
  PROVE  TypeOK'
<1>1. PICK operator \in Operators :
        \/ Claim(operator)
        \/ OperatorReply(operator)
        \/ \E r \in DOMAIN requests : Resolve(operator, r)
        \/ Close(operator)
  BY DEF OperatorStep
<1>2. /\ chat \in ChatRow /\ said \in Seq(LineRow) /\ jobs \in Seq(JobRow)
      /\ requests \in Seq(RequestRow) /\ notices \in Seq(NoticeRow)
  BY DEF TypeOK
<1>3. \A who \in {"customer", "assistant", "operator", "system"} :
        Append(said, Line(who, 0)) \in Seq(LineRow)
  BY <1>2, Bounds DEF Line, LineRow
<1>4. \A s \in Seq(NoticeRow) : s \o CustomerNotice \in Seq(NoticeRow)
  BY <1>2, CustomerNoticeIsOne
<1>5. operator # Nobody
  BY ConversationAssumption
<1>6. CASE Claim(operator)
  <2>1. chat' \in ChatRow /\ chat'.status = "human" /\ chat'.operator = operator
    BY <1>6, HandedOverTypes DEF Claim
  <2>2. jobs' \in Seq(JobRow)
    BY <1>2, <1>6, Taking DEF Claim, TakenJobs
  <2>3. notices' = RetiredNotices \o CustomerNotice
    BY <1>6 DEF Claim, RetiredNotices
  <2>4. notices' \in Seq(NoticeRow)
    BY <1>2, <1>4, <2>3, Retiring
  <2>5. said' \in Seq(LineRow)
    BY <1>3, <1>6 DEF Claim
  <2> QED
    BY <1>5, <1>6, <2>1, <2>2, <2>4, <2>5 DEF Claim, TypeOK
<1>7. CASE OperatorReply(operator)
  <2>1. <<>> \in Seq(Receipt)
    OBVIOUS
  <2>2. [status |-> "completed", channel |-> "web", receipts |-> <<>>] \in JobRow
    BY <2>1 DEF JobRow
  <2>3. jobs' \in Seq(JobRow)
    BY <1>2, <1>7, <2>2 DEF OperatorReply
  <2>4. notices' \in Seq(NoticeRow) /\ said' \in Seq(LineRow)
    BY <1>2, <1>3, <1>4, <1>7 DEF OperatorReply
  <2> QED
    BY <1>7, <2>3, <2>4 DEF OperatorReply, TypeOK
<1>8. ASSUME NEW r \in DOMAIN requests, Resolve(operator, r) PROVE TypeOK'
  <2>1. requests[r] \in RequestRow
    BY <1>2
  <2>2. [requests[r] EXCEPT !.open = FALSE] \in RequestRow
    BY <2>1 DEF RequestRow
  <2>3. requests' \in Seq(RequestRow)
    BY <1>2, <1>8, <2>2 DEF Resolve
  <2>4. notices' \in Seq(NoticeRow) /\ said' \in Seq(LineRow)
    BY <1>2, <1>3, <1>4, <1>8 DEF Resolve
  <2> QED
    BY <1>8, <2>3, <2>4 DEF Resolve, TypeOK
<1>9. CASE Close(operator)
  <2>1. chat.generation + 1 \in 0 .. MaxGeneration
    BY <1>2, <1>9, Bounds DEF Close, ChatRow
  <2>2. chat' \in ChatRow /\ chat'.status = "ai" /\ chat'.operator = Nobody
    BY <1>2, <1>9, <2>1 DEF Close, ChatRow
  <2>3. notices' \in Seq(NoticeRow) /\ said' \in Seq(LineRow)
    BY <1>2, <1>3, <1>4, <1>9 DEF Close
  <2> QED
    BY <1>9, <2>2, <2>3 DEF Close, TypeOK
<1> QED
  BY <1>1, <1>6, <1>7, <1>8, <1>9

WorkerStep(w) ==
  Start(w) \/ StartInVain(w) \/ CallTool(w) \/ StopCalling(w) \/ Finish(w) \/ Crash(w)

LEMMA WorkerTypes ==
  ASSUME TypeOK, JobsBounded, NEW w \in Workers, WorkerStep(w)
  PROVE  TypeOK'
<1>1. /\ chat \in ChatRow /\ said \in Seq(LineRow) /\ jobs \in Seq(JobRow)
      /\ requests \in Seq(RequestRow) /\ notices \in Seq(NoticeRow)
      /\ runs \in [Workers -> RunRow] /\ runs[w] \in RunRow
  BY DEF TypeOK
<1>2. Idle \in RunRow
  BY Bounds DEF Idle, RunRow
<1>3. Unleased(chat) \in ChatRow
  BY <1>1 DEF Unleased, ChatRow
<1>4. UNCHANGED <<chat.status, chat.operator>> => (chat'.operator # Nobody <=> chat'.status = "human")
  BY DEF TypeOK
<1>5. Unleased(chat).status = chat.status /\ Unleased(chat).operator = chat.operator
  BY <1>1 DEF Unleased, ChatRow
<1>6. CASE Start(w)
  <2>1. chat' \in ChatRow /\ UNCHANGED <<chat.status, chat.operator>>
    BY <1>1, <1>6 DEF Start, ChatRow
  <2>2. OldestOpen \in DOMAIN jobs
    BY <1>1, <1>6, OldestIsThere DEF Start
  <2>3. [jobs[OldestOpen] EXCEPT !.status = "running"] \in JobRow
    <3>1. jobs[OldestOpen] \in JobRow
      BY <1>1, <2>2
    <3> QED
      BY <3>1 DEF JobRow
  <2>4. jobs' \in Seq(JobRow)
    BY <1>1, <1>6, <2>2, <2>3 DEF Start
  <2>5. OldestOpen \in 0 .. MaxJobs
    BY <1>1, <2>2, Bounds DEF JobsBounded
  <2>6. runs' \in [Workers -> RunRow]
    <3>1. PICK blocked \in BOOLEAN, phase \in {"calling", "answering"} :
            runs' = [runs EXCEPT ![w] = [phase |-> phase, job |-> OldestOpen,
                       generation |-> chat.generation, calls |-> 0, blocked |-> blocked]]
      BY <1>6 DEF Start
    <3>2. [phase |-> phase, job |-> OldestOpen, generation |-> chat.generation,
           calls |-> 0, blocked |-> blocked] \in RunRow
      BY <1>1, <2>5, Bounds DEF RunRow, ChatRow
    <3> QED
      BY <1>1, <3>1, <3>2
  <2> QED
    BY <1>4, <1>6, <2>1, <2>4, <2>6 DEF Start, TypeOK
<1>7. CASE StartInVain(w)
  BY <1>3, <1>4, <1>5, <1>7 DEF StartInVain, TypeOK
<1>10. CASE StopCalling(w)
  <2>1. runs' \in [Workers -> RunRow]
    BY <1>1, <1>10 DEF StopCalling, RunRow
  <2> QED
    BY <1>10, <2>1 DEF StopCalling, TypeOK
<1>12. CASE Crash(w)
  <2>1. faults' \in 0 .. MaxFaults
    BY <1>12, Bounds DEF Crash, Fault, TypeOK
  <2>2. runs' \in [Workers -> RunRow]
    BY <1>1, <1>2, <1>12 DEF Crash
  <2> QED
    BY <1>12, <2>1, <2>2 DEF Crash, TypeOK

<1>8. CASE CallTool(w)
  <2> DEFINE j == runs[w].job
             call == runs[w].calls + 1
  <2>1. runs' \in [Workers -> RunRow] /\ UNCHANGED <<delivery, faults>>
    <3>1. call \in 0 .. MaxCalls
      BY <1>1, <1>8, Bounds DEF CallTool, RunRow
    <3>2. [runs[w] EXCEPT !.calls = call] \in RunRow
      BY <1>1, <3>1 DEF RunRow
    <3>3. runs' = [runs EXCEPT ![w].calls = call] /\ UNCHANGED <<delivery, faults>>
      BY <1>8 DEF CallTool
    <3> QED
      BY <1>1, <3>2, <3>3
  <2>2. CASE Repeated(w)
    <3>1. UNCHANGED <<chat, said, jobs, requests, notices>>
      BY <1>8, <2>2 DEF CallTool
    <3> QED
      BY <2>1, <3>1 DEF TypeOK
  <2>3. CASE ~Repeated(w)
    <3>1. PICK tool \in Tools, made \in BOOLEAN :
            /\ jobs' = [jobs EXCEPT ![j].receipts = Append(@, [tool |-> tool, made |-> made])]
            /\ IF made THEN \E channel \in Channels : CreateRequest(channel, j, call)
                       ELSE UNCHANGED <<chat, said, requests, notices>>
      BY <1>8, <2>3 DEF CallTool
    <3>2. jobs' \in Seq(JobRow)
      <4> DEFINE row == [jobs[j] EXCEPT !.receipts = Append(@, [tool |-> tool, made |-> made])]
      <4>1. ASSUME j \in DOMAIN jobs
            PROVE  row \in JobRow
        <5>1. jobs[j] \in JobRow
          BY <1>1, <4>1
        <5>2. [tool |-> tool, made |-> made] \in Receipt
          BY DEF Receipt
        <5>3. Append(jobs[j].receipts, [tool |-> tool, made |-> made]) \in Seq(Receipt)
          BY <5>1, <5>2 DEF JobRow
        <5> QED
          BY <5>1, <5>3 DEF JobRow
      <4>2. jobs' = [jobs EXCEPT ![j] = row]
        BY <3>1
      <4> HIDE DEF j, row
      <4> QED
        BY <1>1, <4>1, <4>2, Changing
    <3>3. CASE ~made
      BY <2>1, <3>1, <3>2, <3>3 DEF TypeOK
    <3>4. CASE made
      <4>1. PICK channel \in Channels : CreateRequest(channel, j, call)
        BY <3>1, <3>4
      <4>2. [by |-> j, call |-> call, open |-> TRUE] \in RequestRow
        BY <1>1, <1>8, Bounds DEF CallTool, RunRow, RequestRow
      <4>3. requests' \in Seq(RequestRow)
        BY <1>1, <4>1, <4>2 DEF CreateRequest
      <4>4. Handoff(channel, <<Line("customer", 0)>>)
        BY <4>1 DEF CreateRequest
      <4>5. /\ chat' \in ChatRow /\ said' \in Seq(LineRow) /\ notices' \in Seq(NoticeRow)
            /\ chat'.operator = chat.operator
            /\ chat'.status = IF chat.status = "ai" THEN "waiting" ELSE chat.status
        BY <4>4, HandoffFiles
      <4> QED
        BY <2>1, <3>2, <4>3, <4>5 DEF TypeOK
    <3> QED
      BY <3>3, <3>4
  <2> QED
    BY <2>2, <2>3
<1>9. CASE Finish(w)
  <2> DEFINE j == runs[w].job
  <2>1. runs' \in [Workers -> RunRow] /\ UNCHANGED <<requests, delivery, faults>>
    BY <1>1, <1>2, <1>9 DEF Finish
  <2>2. CASE ~HasLease(w)
    BY <1>9, <2>1, <2>2 DEF Finish, TypeOK
  <2>3. CASE HasLease(w)
    <3>1. chat' = Unleased(chat)
      BY <1>9, <2>3 DEF Finish
    <3>2. chat' \in ChatRow /\ (chat'.operator # Nobody <=> chat'.status = "human")
      BY <1>3, <1>4, <1>5, <3>1
    <3>3. \A status \in {"cancelled", "completed", "running"} : j \in DOMAIN jobs =>
            [jobs[j] EXCEPT !.status = status] \in JobRow /\ jobs[j] \in JobRow
      <4>1. j \in DOMAIN jobs => jobs[j] \in JobRow
        BY <1>1
      <4> QED
        BY <4>1 DEF JobRow
    <3>4. CASE Overtaken(w)
      <4>1. jobs' = [jobs EXCEPT ![j].status = IF @ = "running" THEN "cancelled" ELSE @]
        BY <1>9, <2>3, <3>4 DEF Finish
      <4> DEFINE row == [jobs[j] EXCEPT !.status = IF @ = "running" THEN "cancelled" ELSE @]
      <4>2. ASSUME j \in DOMAIN jobs
            PROVE  row \in JobRow
        <5>1. jobs[j] \in JobRow
          BY <3>3, <4>2
        <5> HIDE DEF j
        <5> QED
          BY <5>1 DEF JobRow
      <4>3. jobs' \in Seq(JobRow)
        <5>1. jobs' = [jobs EXCEPT ![j] = row]
          BY <4>1
        <5> HIDE DEF j, row
        <5> QED
          BY <1>1, <4>2, <5>1, Changing
      <4>4. UNCHANGED <<said, notices>>
        BY <1>9, <2>3, <3>4 DEF Finish
      <4> QED
        BY <2>1, <3>2, <4>3, <4>4 DEF TypeOK
    <3>5. CASE ~Overtaken(w)
      <4>1. /\ jobs' = [jobs EXCEPT ![j].status = "completed"]
            /\ said' = Append(said, Line("assistant", j))
            /\ notices' = IF jobs[j].channel = "telegram"
                            THEN Append(notices, Notice("ai", Len(said) + 1)) ELSE notices
        BY <1>9, <2>3, <3>5 DEF Finish
      <4>2. jobs' \in Seq(JobRow)
        <5> DEFINE row == [jobs[j] EXCEPT !.status = "completed"]
        <5>1. jobs' = [jobs EXCEPT ![j] = row]
          BY <4>1
        <5>2. j \in DOMAIN jobs => row \in JobRow
          BY <3>3
        <5> HIDE DEF j, row
        <5> QED
          BY <1>1, <5>1, <5>2, Changing
      <4>3. Line("assistant", j) \in LineRow
        BY <1>1 DEF Line, LineRow, RunRow
      <4>4. Notice("ai", Len(said) + 1) \in NoticeRow
        BY <1>1, FreshNotice
      <4>5. said' \in Seq(LineRow) /\ notices' \in Seq(NoticeRow)
        BY <1>1, <4>1, <4>3, <4>4
      <4> QED
        BY <2>1, <3>2, <4>2, <4>5 DEF TypeOK
    <3> QED
      BY <3>4, <3>5
  <2> QED
    BY <2>2, <2>3
<1> QED
  BY <1>6, <1>7, <1>8, <1>9, <1>10, <1>12 DEF WorkerStep

DeliveryStep(d) ==
  \/ List(d)
  \/ ClaimNotice(d)
  \/ Send(d)
  \/ FailToSend(d)
  \/ Record(d)
  \/ CrashDelivery(d)

\* The notice that a delivery run turns to is one of its list.
NextListed(d) == CHOOSE n \in delivery[d].todo : \A other \in delivery[d].todo : n <= other

LEMMA NextIsListed ==
  ASSUME TypeOK, NEW d \in Deliverers, delivery[d].todo # {}
  PROVE  NextListed(d) \in delivery[d].todo
<1>1. delivery[d].todo \in SUBSET Nat
  BY DEF TypeOK, DeliveryRow
<1> QED
  BY <1>1, Least DEF NextListed

LEMMA DeliveryTypes ==
  ASSUME TypeOK, NEW d \in Deliverers, DeliveryStep(d)
  PROVE  TypeOK'
<1>1. notices \in Seq(NoticeRow) /\ delivery \in [Deliverers -> DeliveryRow]
  BY DEF TypeOK
<1>2. delivery[d] \in DeliveryRow
  BY <1>1
<1>3. \A n \in DOMAIN notices : n \in Nat /\ notices[n] \in NoticeRow
  BY <1>1
<1>4. /\ UNCHANGED <<chat, said, jobs, requests, runs>>
      /\ notices' \in Seq(NoticeRow) /\ delivery' \in [Deliverers -> DeliveryRow]
      /\ faults' \in 0 .. MaxFaults
      => TypeOK'
  BY DEF TypeOK
<1>5. CASE List(d)
  <2>1. {n \in DOMAIN notices : Claimable(n)} \in SUBSET Nat
    BY <1>1
  <2>2. delivery' \in [Deliverers -> DeliveryRow]
    BY <1>1, <1>5, <2>1 DEF List, DeliveryRow
  <2> QED
    BY <1>4, <1>5, <2>2 DEF List, TypeOK
<1>6. CASE ClaimNotice(d)
  <2> DEFINE n == NextListed(d)
             left == delivery[d].todo \ {n}
  <2>1. n \in Nat /\ left \in SUBSET Nat
    BY <1>2, <1>6, NextIsListed DEF ClaimNotice, DeliveryRow
  <2>2. IF Claimable(n)
          THEN /\ notices' = [notices EXCEPT ![n].holder = d, ![n].expired = FALSE]
               /\ delivery' = [delivery EXCEPT ![d] =
                                 [todo |-> left, notice |-> n, accepted |-> FALSE]]
          ELSE /\ delivery' = [delivery EXCEPT ![d].todo = left]
               /\ UNCHANGED notices
    BY <1>6 DEF ClaimNotice, NextListed
  <2> HIDE DEF n, left
  <2>3. notices' \in Seq(NoticeRow)
    <3> DEFINE row == [notices[n] EXCEPT !.holder = d, !.expired = FALSE]
    <3>1. n \in DOMAIN notices => row \in NoticeRow
      BY <1>3 DEF NoticeRow
    <3>2. UNCHANGED notices \/ notices' = [notices EXCEPT ![n] = row]
      BY <2>2
    <3> HIDE DEF row
    <3> QED
      BY <1>1, <3>1, <3>2, Changing
  <2>4. delivery' \in [Deliverers -> DeliveryRow]
    <3>1. [todo |-> left, notice |-> n, accepted |-> FALSE] \in DeliveryRow
      BY <2>1 DEF DeliveryRow
    <3>2. [delivery[d] EXCEPT !.todo = left] \in DeliveryRow
      BY <1>2, <2>1 DEF DeliveryRow
    <3> QED
      BY <1>1, <2>2, <3>1, <3>2
  <2> QED
    BY <1>4, <1>6, <2>3, <2>4 DEF ClaimNotice, TypeOK
<1>7. CASE Send(d)
  <2> DEFINE n == delivery[d].notice
  <2> DEFINE row == [notices[n] EXCEPT !.copies = @ + 1]
  <2>1. n \in DOMAIN notices => row \in NoticeRow
    BY <1>3 DEF NoticeRow
  <2>2. notices' = [notices EXCEPT ![n] = row]
    BY <1>7 DEF Send
  <2>3. notices' \in Seq(NoticeRow)
    <3> HIDE DEF n, row
    <3> QED
      BY <1>1, <2>1, <2>2, Changing
  <2>4. delivery' \in [Deliverers -> DeliveryRow]
    BY <1>1, <1>7 DEF Send, DeliveryRow
  <2> QED
    BY <1>4, <1>7, <2>3, <2>4 DEF Send, TypeOK
<1>8. CASE FailToSend(d)
  <2> DEFINE n == delivery[d].notice
  <2>0. PICK copy \in {0, 1} : notices' = [notices EXCEPT ![n].copies = @ + copy]
    BY <1>8 DEF FailToSend
  <2> DEFINE row == [notices[n] EXCEPT !.copies = @ + copy]
  <2>1. n \in DOMAIN notices => row \in NoticeRow
    BY <1>3 DEF NoticeRow
  <2>2. notices' = [notices EXCEPT ![n] = row]
    BY <2>0
  <2>3. notices' \in Seq(NoticeRow)
    <3> HIDE DEF n, row
    <3> QED
      BY <1>1, <2>1, <2>2, Changing
  <2>4. delivery' \in [Deliverers -> DeliveryRow]
    BY <1>1, <1>8 DEF FailToSend, DeliveryRow
  <2>5. faults' \in 0 .. MaxFaults
    BY <1>8, Bounds DEF FailToSend, Fault, TypeOK
  <2> QED
    BY <1>4, <1>8, <2>3, <2>4, <2>5 DEF FailToSend
<1>9. CASE Record(d)
  <2> DEFINE n == delivery[d].notice
  <2> DEFINE row == [notices[n] EXCEPT !.sent = TRUE, !.holder = Nobody, !.expired = FALSE]
  <2>1. n \in DOMAIN notices => row \in NoticeRow
    BY <1>3 DEF NoticeRow
  <2>2. UNCHANGED notices \/ notices' = [notices EXCEPT ![n] = row]
    BY <1>9 DEF Record
  <2>3. notices' \in Seq(NoticeRow)
    <3> HIDE DEF n, row
    <3> QED
      BY <1>1, <2>1, <2>2, Changing
  <2>4. delivery' \in [Deliverers -> DeliveryRow]
    BY <1>1, <1>9 DEF Record, DeliveryRow
  <2> QED
    BY <1>4, <1>9, <2>3, <2>4 DEF Record, TypeOK
<1>10. CASE CrashDelivery(d)
  <2>1. Resting \in DeliveryRow
    BY DEF Resting, DeliveryRow
  <2>2. delivery' \in [Deliverers -> DeliveryRow]
    BY <1>1, <1>10, <2>1 DEF CrashDelivery
  <2>3. faults' \in 0 .. MaxFaults
    BY <1>10, Bounds DEF CrashDelivery, Fault, TypeOK
  <2> QED
    BY <1>1, <1>4, <1>10, <2>2, <2>3 DEF CrashDelivery
<1> QED
  BY <1>5, <1>6, <1>7, <1>8, <1>9, <1>10 DEF DeliveryStep

LEMMA ClockTypes ==
  ASSUME TypeOK, LeaseExpires \/ \E n \in DOMAIN notices : NoticeLeaseExpires(n)
  PROVE  TypeOK'
<1>1. /\ chat \in ChatRow /\ notices \in Seq(NoticeRow) /\ faults \in 0 .. MaxFaults
  BY DEF TypeOK
<1>2. Fault => faults' \in 0 .. MaxFaults
  BY <1>1, Bounds DEF Fault
<1>3. CASE LeaseExpires
  BY <1>1, <1>2, <1>3 DEF LeaseExpires, TypeOK, ChatRow
<1>4. ASSUME NEW n \in DOMAIN notices, NoticeLeaseExpires(n) PROVE TypeOK'
  <2> DEFINE row == [notices[n] EXCEPT !.expired = TRUE, !.lapses = @ + 1]
  <2>1. notices[n] \in NoticeRow
    BY <1>1
  <2>2. row \in NoticeRow
    <3>1. notices[n].lapses + 1 \in Nat
      BY <2>1 DEF NoticeRow
    <3> QED
      BY <2>1, <3>1 DEF NoticeRow
  <2>3. notices' = [notices EXCEPT ![n] = row]
    BY <1>4 DEF NoticeLeaseExpires
  <2>4. notices' \in Seq(NoticeRow)
    <3> HIDE DEF row
    <3> QED
      BY <1>1, <2>2, <2>3, Changing
  <2>5. faults' \in 0 .. MaxFaults
    BY <1>1, <1>2, <1>4 DEF NoticeLeaseExpires
  <2> QED
    BY <1>4, <2>4, <2>5 DEF NoticeLeaseExpires, TypeOK
<1> QED
  BY <1>3, <1>4

-----------------------------------------------------------------------------
(* The queue of questions                                                  *)

\* No question is lost, nor a receipt of one.
RecordKept ==
  /\ DOMAIN jobs \subseteq DOMAIN jobs'
  /\ \A j \in DOMAIN jobs : Len(jobs[j].receipts) <= Len(jobs'[j].receipts)

\* Jobs that only change their status.
LEMMA StatusOnly ==
  ASSUME jobs \in Seq(JobRow), DOMAIN jobs' = DOMAIN jobs,
         \A j \in DOMAIN jobs : jobs'[j].receipts = jobs[j].receipts
  PROVE  RecordKept
<1>1. \A j \in DOMAIN jobs : jobs[j] \in JobRow
  OBVIOUS
<1>2. \A j \in DOMAIN jobs : Len(jobs[j].receipts) \in Nat
  BY <1>1 DEF JobRow
<1> QED
  BY <1>2 DEF RecordKept

LEMMA RecordUnchanged ==
  ASSUME jobs \in Seq(JobRow), UNCHANGED jobs
  PROVE  RecordKept /\ UNCHANGED OpenJobs
<1>1. UNCHANGED OpenJobs
  BY DEF OpenJobs
<1> QED
  BY <1>1, StatusOnly

\* A row filed in the queue.
LEMMA JobFiled ==
  ASSUME jobs \in Seq(JobRow), NEW row \in JobRow, jobs' = Append(jobs, row)
  PROVE  /\ RecordKept
         /\ row.status \in {"pending", "running"} => OpenJobs' = OpenJobs \cup {Len(jobs) + 1}
         /\ row.status \notin {"pending", "running"} => UNCHANGED OpenJobs
         /\ \A j \in OpenJobs : j < Len(jobs) + 1
<1>1. /\ Len(jobs) \in Nat
      /\ DOMAIN jobs = 1 .. Len(jobs) /\ DOMAIN jobs' = 1 .. Len(jobs) + 1
      /\ \A j \in DOMAIN jobs : jobs'[j] = jobs[j]
      /\ jobs'[Len(jobs) + 1] = row
  BY Appending
<1>2. \A j \in DOMAIN jobs : jobs[j] \in JobRow
  OBVIOUS
<1>3. \A j \in DOMAIN jobs : Len(jobs[j].receipts) \in Nat
  BY <1>2 DEF JobRow
<1> QED
  BY <1>1, <1>3 DEF RecordKept, OpenJobs

LEMMA SubmitFiles ==
  ASSUME TypeOK, NEW channel \in Channels, Submit(channel)
  PROVE  /\ RecordKept /\ JobsBounded'
         /\ OpenJobs' = IF chat.status = "human" THEN OpenJobs ELSE OpenJobs \cup {Len(jobs) + 1}
         /\ \A j \in OpenJobs : j < Len(jobs) + 1
<1> DEFINE row == [status |-> IF chat.status = "human" THEN "human" ELSE "pending",
                   channel |-> channel, receipts |-> <<>>]
<1>1. jobs \in Seq(JobRow) /\ jobs' = Append(jobs, row)
  BY DEF TypeOK, Submit
<1>2. channel \in {"web", "telegram"}
  BY ConversationAssumption
<1>3. <<>> \in Seq(Receipt)
  OBVIOUS
<1>4. row \in JobRow
  BY <1>2, <1>3 DEF JobRow
<1>5. row.status = IF chat.status = "human" THEN "human" ELSE "pending"
  OBVIOUS
<1> HIDE DEF row
<1>6. JobsBounded'
  BY <1>1, <1>4, Appending, Bounds DEF Submit, JobsBounded
<1> QED
  BY <1>1, <1>4, <1>5, <1>6, JobFiled

LEMMA ReplyFiles ==
  ASSUME TypeOK, NEW operator \in Operators, OperatorReply(operator)
  PROVE  RecordKept /\ JobsBounded' /\ UNCHANGED OpenJobs
<1> DEFINE row == [status |-> "completed", channel |-> "web", receipts |-> <<>>]
<1>1. jobs \in Seq(JobRow) /\ jobs' = Append(jobs, row)
  BY DEF TypeOK, OperatorReply
<1>2. <<>> \in Seq(Receipt)
  OBVIOUS
<1>3. row \in JobRow /\ row.status = "completed"
  BY <1>2 DEF JobRow
<1> HIDE DEF row
<1>4. JobsBounded'
  BY <1>1, <1>3, Appending, Bounds DEF OperatorReply, JobsBounded
<1> QED
  BY <1>1, <1>3, <1>4, JobFiled

LEMMA ClaimTakes ==
  ASSUME TypeOK, JobsBounded, NEW operator \in Operators, Claim(operator)
  PROVE  RecordKept /\ JobsBounded' /\ OpenJobs' = {}
<1>1. jobs \in Seq(JobRow) /\ jobs' = TakenJobs
  BY DEF TypeOK, Claim, TakenJobs
<1>2. DOMAIN jobs' = DOMAIN jobs /\ Len(jobs') = Len(jobs)
  BY <1>1, Taking
<1>3. \A j \in DOMAIN jobs : jobs[j] \in JobRow
  BY <1>1
<1>4. \A j \in DOMAIN jobs :
        /\ jobs'[j].receipts = jobs[j].receipts
        /\ jobs'[j].status \notin {"pending", "running"}
  BY <1>1, <1>3 DEF TakenJobs, JobRow, OpenJobs
<1>5. OpenJobs' = {}
  BY <1>2, <1>4 DEF OpenJobs
<1> QED
  BY <1>1, <1>2, <1>4, <1>5, StatusOnly DEF JobsBounded

\* A job of which one column is changed.
LEMMA StartQueues ==
  ASSUME TypeOK, JobsBounded, NEW w \in Workers, Start(w)
  PROVE  RecordKept /\ JobsBounded' /\ UNCHANGED OpenJobs /\ Oldest(OldestOpen)
<1>1. jobs \in Seq(JobRow) /\ OpenJobs # {}
  BY DEF TypeOK, Start
<1>2. Oldest(OldestOpen) /\ OldestOpen \in DOMAIN jobs
  BY <1>1, OldestIsThere
<1>3. \A j \in DOMAIN jobs : jobs[j] \in JobRow
  BY <1>1
<1>4. jobs' = [jobs EXCEPT ![OldestOpen].status = "running"]
  BY DEF Start
<1>5. /\ DOMAIN jobs' = DOMAIN jobs
      /\ \A j \in DOMAIN jobs :
           /\ jobs'[j].receipts = jobs[j].receipts
           /\ jobs'[j].status = IF j = OldestOpen THEN "running" ELSE jobs[j].status
  BY <1>2, <1>3, <1>4 DEF JobRow
<1>6. UNCHANGED OpenJobs
  BY <1>2, <1>5 DEF OpenJobs, Oldest
<1>7. Len(jobs') = Len(jobs)
  BY <1>1, <1>4
<1> QED
  BY <1>1, <1>2, <1>5, <1>6, <1>7, StatusOnly DEF JobsBounded

\* A call that repeats none is recorded; one that makes a request is the next.
LEMMA CallRecords ==
  ASSUME TypeOK, JobsBounded, RunsAgree, NEW w \in Workers, CallTool(w)
  PROVE  /\ RecordKept /\ JobsBounded' /\ UNCHANGED OpenJobs
         /\ runs[w].job \in DOMAIN jobs
         /\ runs[w].calls + 1 <= Len(jobs'[runs[w].job].receipts)
         /\ \/ UNCHANGED <<chat, said, requests, notices>>
            \/ /\ runs[w].calls = Len(jobs[runs[w].job].receipts)
               /\ \E channel \in Channels :
                    CreateRequest(channel, runs[w].job, runs[w].calls + 1)
<1> DEFINE j == runs[w].job
           receipts == jobs[j].receipts
<1>1. jobs \in Seq(JobRow) /\ runs[w] \in RunRow
  BY DEF TypeOK
<1>2. j \in DOMAIN jobs /\ runs[w].calls <= Len(receipts)
  BY DEF RunsAgree, CallTool
<1>3. jobs[j] \in JobRow
  BY <1>1, <1>2
<1>4. receipts \in Seq(Receipt) /\ runs[w].calls \in Nat
  BY <1>1, <1>3 DEF JobRow, RunRow
<1>5. CASE Repeated(w)
  <2>1. UNCHANGED <<chat, said, jobs, requests, notices>>
    BY <1>5 DEF CallTool
  <2>2. runs[w].calls + 1 <= Len(receipts)
    BY <1>4, <1>5 DEF Repeated
  <2> QED
    BY <1>1, <1>2, <2>1, <2>2, RecordUnchanged DEF JobsBounded
<1>6. CASE ~Repeated(w)
  <2>1. PICK tool \in Tools, made \in BOOLEAN :
          /\ jobs' = [jobs EXCEPT ![j].receipts = Append(@, [tool |-> tool, made |-> made])]
          /\ IF made THEN \E channel \in Channels : CreateRequest(channel, j, runs[w].calls + 1)
                     ELSE UNCHANGED <<chat, said, requests, notices>>
    BY <1>6 DEF CallTool
  <2>2. runs[w].calls = Len(receipts)
    BY <1>2, <1>4, <1>6 DEF Repeated
  <2> DEFINE receipt == [tool |-> tool, made |-> made]
  <2>3. receipt \in Receipt
    BY DEF Receipt
  <2> DEFINE longer == Append(receipts, receipt)
  <2>4. jobs' = [jobs EXCEPT ![j] = [jobs[j] EXCEPT !.receipts = longer]]
    BY <2>1
  <2> HIDE DEF receipt
  <2>5. Len(longer) = Len(receipts) + 1
    BY <1>4, <2>3
  <2>6. /\ DOMAIN jobs' = DOMAIN jobs /\ Len(jobs') = Len(jobs)
        /\ jobs'[j].receipts = longer
        /\ jobs'[j].status = jobs[j].status
        /\ \A k \in DOMAIN jobs \ {j} : jobs'[k] = jobs[k]
    <3> DEFINE row == [jobs[j] EXCEPT !.receipts = longer]
    <3> HIDE DEF longer, j
    <3>1. row.receipts = longer /\ row.status = jobs[j].status
      BY <1>3 DEF JobRow
    <3>2. jobs' = [jobs EXCEPT ![j] = row]
      BY <2>4
    <3> HIDE DEF row
    <3>3. /\ DOMAIN jobs' = DOMAIN jobs /\ Len(jobs') = Len(jobs) /\ jobs'[j] = row
          /\ \A k \in DOMAIN jobs \ {j} : jobs'[k] = jobs[k]
      BY <1>1, <1>2, <3>2
    <3> QED
      BY <3>1, <3>3
  <2>7. \A k \in DOMAIN jobs : jobs[k] \in JobRow
    BY <1>1
  <2>8. \A k \in DOMAIN jobs : Len(jobs[k].receipts) \in Nat
    BY <2>7 DEF JobRow
  <2>9. RecordKept
    BY <1>2, <2>5, <2>6, <2>8 DEF RecordKept
  <2>10. UNCHANGED OpenJobs
    BY <1>2, <2>6 DEF OpenJobs
  <2>11. JobsBounded'
    BY <2>6 DEF JobsBounded
  <2>12. runs[w].calls + 1 <= Len(jobs'[j].receipts)
    BY <1>4, <2>2, <2>5, <2>6
  <2> QED
    BY <1>2, <2>1, <2>2, <2>9, <2>10, <2>11, <2>12
<1> QED
  BY <1>5, <1>6

\* What a run's last transaction does to the queue.
LEMMA FinishSettles ==
  ASSUME TypeOK, JobsBounded, RunsAgree, NEW w \in Workers, Finish(w)
  PROVE  /\ RecordKept /\ JobsBounded'
         /\ runs[w].job \in DOMAIN jobs
         /\ ~HasLease(w) => UNCHANGED OpenJobs
         /\ HasLease(w) /\ Overtaken(w) =>
              \/ UNCHANGED OpenJobs
              \/ runs[w].job \in OpenJobs /\ OpenJobs' = OpenJobs \ {runs[w].job}
         /\ HasLease(w) /\ ~Overtaken(w) => OpenJobs' = OpenJobs \ {runs[w].job}
<1> DEFINE j == runs[w].job
<1>1. jobs \in Seq(JobRow) /\ j \in DOMAIN jobs
  BY DEF TypeOK, RunsAgree, Finish
<1>2. \A k \in DOMAIN jobs : jobs[k] \in JobRow
  BY <1>1
<1>3. CASE ~HasLease(w)
  <2>1. UNCHANGED jobs
    BY <1>3 DEF Finish
  <2> QED
    BY <1>1, <1>3, <2>1, RecordUnchanged DEF JobsBounded
<1>4. ASSUME NEW status,
             jobs' = [jobs EXCEPT ![j].status = status]
      PROVE  /\ RecordKept /\ JobsBounded'
             /\ DOMAIN jobs' = DOMAIN jobs
             /\ jobs'[j].status = status
             /\ \A k \in DOMAIN jobs \ {j} : jobs'[k].status = jobs[k].status
  <2> HIDE DEF j
  <2>1. /\ DOMAIN jobs' = DOMAIN jobs /\ Len(jobs') = Len(jobs)
        /\ \A k \in DOMAIN jobs : jobs'[k].receipts = jobs[k].receipts
        /\ jobs'[j].status = status
        /\ \A k \in DOMAIN jobs \ {j} : jobs'[k].status = jobs[k].status
    BY <1>1, <1>2, <1>4 DEF JobRow
  <2> QED
    BY <1>1, <2>1, StatusOnly DEF JobsBounded
<1>5. CASE HasLease(w) /\ Overtaken(w)
  <2> DEFINE status == IF jobs[j].status = "running" THEN "cancelled" ELSE jobs[j].status
  <2>1. jobs' = [jobs EXCEPT ![j].status = status]
    BY <1>5 DEF Finish
  <2>2. CASE jobs[j].status = "running"
    <3>1. status = "cancelled" /\ j \in OpenJobs
      BY <1>1, <2>2 DEF OpenJobs
    <3> HIDE DEF status
    <3>2. OpenJobs' = OpenJobs \ {j}
      BY <1>1, <1>4, <2>1, <3>1 DEF OpenJobs
    <3> QED
      BY <1>1, <1>4, <1>5, <2>1, <3>1, <3>2
  <2>3. CASE jobs[j].status # "running"
    <3>1. status = jobs[j].status
      BY <2>3
    <3> HIDE DEF status
    <3>2. UNCHANGED OpenJobs
      BY <1>1, <1>4, <2>1, <3>1 DEF OpenJobs
    <3> QED
      BY <1>1, <1>4, <1>5, <2>1, <3>2
  <2> QED
    BY <2>2, <2>3
<1>6. CASE HasLease(w) /\ ~Overtaken(w)
  <2>1. jobs' = [jobs EXCEPT ![j].status = "completed"]
    BY <1>6 DEF Finish
  <2>2. OpenJobs' = OpenJobs \ {j}
    BY <1>1, <1>4, <2>1 DEF OpenJobs
  <2> QED
    BY <1>1, <1>4, <1>6, <2>1, <2>2
<1> QED
  BY <1>3, <1>5, <1>6

-----------------------------------------------------------------------------
(* Runs                                                                    *)

\* A run goes on with its job, or is over.
RunsContinue ==
  \A v \in Workers :
    \/ runs'[v] = Idle
    \/ /\ runs'[v].phase # "idle" => runs[v].phase # "idle"
       /\ runs'[v].job = runs[v].job /\ runs'[v].generation = runs[v].generation
       /\ \/ runs'[v].calls = runs[v].calls
          \/ runs'[v].calls <= Len(jobs'[runs[v].job].receipts)

LEMMA RunsStay ==
  ASSUME TypeOK, TypeOK', RunsAgree, RecordKept, RunsContinue,
         chat'.generation >= chat.generation
  PROVE  RunsAgree'
<1>1. /\ chat.generation \in Nat /\ chat'.generation \in Nat
      /\ \A v \in Workers : runs[v].generation \in Nat /\ runs[v].calls \in Nat
  <2>1. chat \in ChatRow /\ chat' \in ChatRow /\ \A v \in Workers : runs[v] \in RunRow
    BY DEF TypeOK
  <2>2. chat.generation \in Nat /\ chat'.generation \in Nat
    BY <2>1 DEF ChatRow
  <2>3. \A v \in Workers : runs[v].generation \in Nat /\ runs[v].calls \in Nat
    BY <2>1 DEF RunRow
  <2> QED
    BY <2>2, <2>3
<1>2. \A j \in DOMAIN jobs : jobs[j] \in JobRow
  BY DEF TypeOK
<1>3. \A j \in DOMAIN jobs' : jobs'[j] \in JobRow
  BY DEF TypeOK
<1>4. /\ \A j \in DOMAIN jobs : Len(jobs[j].receipts) \in Nat
      /\ \A j \in DOMAIN jobs' : Len(jobs'[j].receipts) \in Nat
  BY <1>2, <1>3 DEF JobRow
<1> SUFFICES ASSUME NEW v \in Workers
             PROVE  /\ runs'[v].generation <= chat'.generation
                    /\ runs'[v].phase # "idle" =>
                         /\ runs'[v].job \in DOMAIN jobs'
                         /\ runs'[v].calls <= Len(jobs'[runs'[v].job].receipts)
  BY DEF RunsAgree
<1>5. CASE runs'[v] = Idle
  BY <1>1, <1>5 DEF Idle
<1>6. CASE runs'[v] # Idle
  <2>1. /\ runs[v].generation <= chat.generation
        /\ runs'[v].phase # "idle" => runs[v].phase # "idle"
        /\ runs'[v].job = runs[v].job /\ runs'[v].generation = runs[v].generation
        /\ \/ runs'[v].calls = runs[v].calls
           \/ runs'[v].calls <= Len(jobs'[runs[v].job].receipts)
    BY <1>6 DEF RunsContinue, RunsAgree
  <2>2. runs'[v].phase # "idle" =>
          /\ runs[v].job \in DOMAIN jobs /\ runs[v].job \in DOMAIN jobs'
          /\ runs[v].calls <= Len(jobs[runs[v].job].receipts)
          /\ Len(jobs[runs[v].job].receipts) <= Len(jobs'[runs[v].job].receipts)
    BY <2>1 DEF RunsAgree, RecordKept
  <2> QED
    BY <1>1, <1>4, <2>1, <2>2
<1> QED
  BY <1>5, <1>6

\* New questions come after the old ones.
QueueGrows ==
  /\ OpenJobs \subseteq OpenJobs'
  /\ \A new \in OpenJobs' \ OpenJobs, old \in OpenJobs : old < new

\* The ways a step may leave the right to answer alone: it takes it from
\* everybody, or it removes no question and lets nobody else have it.
AnswerersKept ==
  \/ chat'.generation > chat.generation
  \/ chat'.lease = Nobody
  \/ /\ UNCHANGED <<chat.generation, chat.lease>>
     /\ chat.status = "human" => chat'.status = "human"
     /\ QueueGrows

LEMMA OldestStays ==
  ASSUME TypeOK, TypeOK', RunsAgree, RunsContinue, AnswersOldest, AnswerersKept
  PROVE  AnswersOldest'
<1> SUFFICES ASSUME NEW v \in Workers, runs'[v].phase # "idle", Fenced(v)'
             PROVE  Oldest(runs[v].job)' /\ runs'[v].job = runs[v].job
  BY DEF AnswersOldest, Oldest
<1>1. /\ chat'.status # "human" /\ chat'.generation = runs'[v].generation /\ chat'.lease = v
  BY DEF Fenced, HasLease
<1>2. v # Nobody
  BY ConversationAssumption
<1>3. runs'[v] # Idle
  BY DEF Idle
<1>4. /\ runs[v].phase # "idle" /\ runs'[v].job = runs[v].job
      /\ runs'[v].generation = runs[v].generation /\ runs[v].generation <= chat.generation
  BY <1>3 DEF RunsContinue, RunsAgree
<1>5. chat.generation \in Nat /\ chat'.generation \in Nat /\ runs[v].generation \in Nat
  BY DEF TypeOK, ChatRow, RunRow
<1>6. /\ UNCHANGED <<chat.generation, chat.lease>>
      /\ chat.status # "human"
      /\ QueueGrows
  BY <1>1, <1>2, <1>4, <1>5 DEF AnswerersKept
<1>7. Oldest(runs[v].job)
  BY <1>1, <1>4, <1>6 DEF AnswersOldest, Fenced, HasLease
<1>8. /\ runs[v].job \in OpenJobs'
      /\ \A other \in OpenJobs' : runs[v].job <= other
  <2>1. /\ runs[v].job \in OpenJobs /\ OpenJobs \subseteq Nat /\ OpenJobs' \subseteq Nat
        /\ \A other \in OpenJobs : runs[v].job <= other
    BY <1>7 DEF Oldest, OpenJobs, TypeOK
  <2>2. runs[v].job \in OpenJobs'
    BY <1>6, <2>1 DEF QueueGrows
  <2>3. ASSUME NEW other \in OpenJobs' PROVE runs[v].job <= other
    <3>1. CASE other \in OpenJobs
      BY <2>1, <3>1
    <3>2. CASE other \notin OpenJobs
      <4>1. runs[v].job < other
        BY <1>6, <2>1, <3>2 DEF QueueGrows
      <4>2. runs[v].job \in Nat /\ other \in Nat
        BY <2>1
      <4> QED
        BY <4>1, <4>2
    <3> QED
      BY <3>1, <3>2
  <2> QED
    BY <2>2, <2>3
<1> QED
  BY <1>4, <1>8 DEF Oldest

\* What a step does to the sales requests: nothing, closing one, or one more,
\* of the customer's or of a call that is on no record yet.
RequestsGrow ==
  \/ UNCHANGED requests
  \/ \E r \in DOMAIN requests : requests' = [requests EXCEPT ![r].open = FALSE]
  \/ requests' = Append(requests, [by |-> 0, call |-> 0, open |-> TRUE])
  \/ \E j \in DOMAIN jobs :
       LET call == Len(jobs[j].receipts) + 1 IN
       /\ requests' = Append(requests, [by |-> j, call |-> call, open |-> TRUE])
       /\ call <= Len(jobs'[j].receipts)

LEMMA RequestsStay ==
  ASSUME TypeOK, TypeOK', RecordKept, RequestsReceipted, ToolsActOnce, RequestsGrow
  PROVE  RequestsReceipted' /\ ToolsActOnce'
<1>1. requests \in Seq(RequestRow) /\ requests' \in Seq(RequestRow)
  BY DEF TypeOK
<1>2. \A r \in DOMAIN requests : requests[r] \in RequestRow
  BY <1>1
<1>3. /\ \A j \in DOMAIN jobs : Len(jobs[j].receipts) \in Nat
      /\ \A j \in DOMAIN jobs' : Len(jobs'[j].receipts) \in Nat
  <2>1. /\ \A j \in DOMAIN jobs : jobs[j] \in JobRow
        /\ \A j \in DOMAIN jobs' : jobs'[j] \in JobRow
    BY DEF TypeOK
  <2> QED
    BY <2>1 DEF JobRow
<1>4. \A r \in DOMAIN requests : requests[r].by # 0 =>
        /\ requests[r].by \in DOMAIN jobs'
        /\ requests[r].call <= Len(jobs'[requests[r].by].receipts)
  <2> SUFFICES ASSUME NEW r \in DOMAIN requests, requests[r].by # 0
               PROVE  /\ requests[r].by \in DOMAIN jobs'
                      /\ requests[r].call <= Len(jobs'[requests[r].by].receipts)
    OBVIOUS
  <2>1. /\ requests[r].by \in DOMAIN jobs
        /\ requests[r].call <= Len(jobs[requests[r].by].receipts)
    BY DEF RequestsReceipted
  <2>2. /\ requests[r].by \in DOMAIN jobs'
        /\ Len(jobs[requests[r].by].receipts) <= Len(jobs'[requests[r].by].receipts)
    BY <2>1 DEF RecordKept
  <2>3. requests[r].call \in Nat
    BY <1>2 DEF RequestRow
  <2> QED
    BY <1>3, <2>1, <2>2, <2>3
<1>5. ASSUME DOMAIN requests' = DOMAIN requests,
             \A r \in DOMAIN requests :
               requests'[r].by = requests[r].by /\ requests'[r].call = requests[r].call
      PROVE  RequestsReceipted' /\ ToolsActOnce'
  BY <1>4, <1>5 DEF RequestsReceipted, ToolsActOnce
<1>6. ASSUME NEW e \in RequestRow, requests' = Append(requests, e),
             e.by # 0 => /\ e.by \in DOMAIN jobs'
                         /\ e.call <= Len(jobs'[e.by].receipts)
                         /\ \A r \in DOMAIN requests :
                              requests[r].by = e.by => requests[r].call # e.call
      PROVE  RequestsReceipted' /\ ToolsActOnce'
  <2> DEFINE last == Len(requests) + 1
  <2>1. /\ DOMAIN requests' = DOMAIN requests \cup {last}
        /\ requests'[last] = e
        /\ \A r \in DOMAIN requests : requests'[r] = requests[r]
    BY <1>1, <1>6, Appending
  <2>2. RequestsReceipted'
    BY <1>4, <1>6, <2>1 DEF RequestsReceipted
  <2>3. ToolsActOnce'
    BY <1>6, <2>1 DEF ToolsActOnce
  <2> QED
    BY <2>2, <2>3
<1>7. CASE UNCHANGED requests
  BY <1>5, <1>7
<1>8. ASSUME NEW r \in DOMAIN requests, requests' = [requests EXCEPT ![r].open = FALSE]
      PROVE  RequestsReceipted' /\ ToolsActOnce'
  <2>1. DOMAIN requests' = DOMAIN requests
    BY <1>8
  <2>2. \A q \in DOMAIN requests :
          requests'[q].by = requests[q].by /\ requests'[q].call = requests[q].call
    BY <1>2, <1>8 DEF RequestRow
  <2> QED
    BY <1>5, <2>1, <2>2
<1>9. CASE requests' = Append(requests, [by |-> 0, call |-> 0, open |-> TRUE])
  <2> DEFINE e == [by |-> 0, call |-> 0, open |-> TRUE]
  <2>1. e \in RequestRow /\ e.by = 0 /\ requests' = Append(requests, e)
    BY <1>9, Bounds DEF RequestRow
  <2> HIDE DEF e
  <2> QED
    BY <1>6, <2>1
<1>10. ASSUME NEW j \in DOMAIN jobs, NEW call,
              call = Len(jobs[j].receipts) + 1,
              requests' = Append(requests, [by |-> j, call |-> call, open |-> TRUE]),
              call <= Len(jobs'[j].receipts)
       PROVE  RequestsReceipted' /\ ToolsActOnce'
  <2> DEFINE e == [by |-> j, call |-> call, open |-> TRUE]
  <2>1. requests' = Append(requests, e) /\ e.by = j /\ e.call = call
    BY <1>10
  <2> HIDE DEF e
  <2>2. e \in RequestRow
    <3>1. requests'[Len(requests) + 1] = e /\ Len(requests) + 1 \in DOMAIN requests'
      BY <1>1, <2>1
    <3> QED
      BY <1>1, <3>1
  <2>3. \A r \in DOMAIN requests : requests[r].by = j => requests[r].call # call
    <3> SUFFICES ASSUME NEW r \in DOMAIN requests, requests[r].by = j
                 PROVE  requests[r].call # call
      OBVIOUS
    <3>1. j # 0
      BY DEF TypeOK
    <3>2. requests[r].call <= Len(jobs[j].receipts)
      BY <3>1 DEF RequestsReceipted
    <3>3. requests[r].call \in Nat
      BY <1>2 DEF RequestRow
    <3> QED
      BY <1>3, <1>10, <3>2, <3>3
  <2>4. j \in DOMAIN jobs'
    BY DEF RecordKept
  <2> QED
    BY <1>6, <1>10, <2>1, <2>2, <2>3, <2>4
<1> QED
  BY <1>7, <1>8, <1>9, <1>10 DEF RequestsGrow

\* The parts of the invariant that are about jobs, runs and requests.
JobsInv == JobsBounded /\ RunsAgree /\ AnswersOldest /\ RequestsReceipted /\ ToolsActOnce

\* All steps but the start of a run keep them in the same way.
LEMMA JobsStay ==
  ASSUME TypeOK, TypeOK', JobsInv, JobsBounded', RecordKept, RunsContinue,
         chat'.generation >= chat.generation, AnswerersKept, RequestsGrow
  PROVE  JobsInv'
BY RunsStay, OldestStays, RequestsStay DEF JobsInv

LEMMA UnchangedRuns ==
  ASSUME UNCHANGED runs
  PROVE  RunsContinue
BY DEF RunsContinue

LEMMA HandoffKeepsAnswerers ==
  ASSUME TypeOK, NEW channel \in Channels, NEW lines \in {<<>>, <<Line("customer", 0)>>},
         Handoff(channel, lines), UNCHANGED OpenJobs
  PROVE  chat'.generation >= chat.generation /\ AnswerersKept
<1>1. chat.generation \in Nat
  BY DEF TypeOK, ChatRow
<1>2. /\ UNCHANGED <<chat.generation, chat.lease>>
      /\ chat.status # "ai" => chat'.status = chat.status
  BY HandoffFiles
<1>3. QueueGrows
  BY DEF QueueGrows
<1> QED
  BY <1>1, <1>2, <1>3 DEF AnswerersKept

\* A step that leaves the chat's row, its queue and its runs alone.
LEMMA AnswerersUnchanged ==
  ASSUME TypeOK, UNCHANGED <<chat, OpenJobs>>
  PROVE  chat'.generation >= chat.generation /\ AnswerersKept
<1>1. chat.generation \in Nat
  BY DEF TypeOK, ChatRow
<1>2. QueueGrows
  BY DEF QueueGrows
<1> QED
  BY <1>1, <1>2 DEF AnswerersKept

LEMMA NewGeneration ==
  ASSUME TypeOK, chat'.generation = chat.generation + 1
  PROVE  chat'.generation >= chat.generation /\ AnswerersKept
<1>1. chat.generation \in Nat
  BY DEF TypeOK, ChatRow
<1> QED
  BY <1>1 DEF AnswerersKept

LEMMA CustomerKeepsJobs ==
  ASSUME TypeOK, TypeOK', JobsInv, CustomerStep
  PROVE  JobsInv'
<1>1. PICK channel \in Channels :
        Submit(channel) \/ AskForOperator(channel) \/ SendRequest(channel) \/ ResumeAi(channel)
  BY DEF CustomerStep
<1>2. jobs \in Seq(JobRow) /\ chat \in ChatRow /\ chat.generation \in Nat
  BY DEF TypeOK, ChatRow
<1>3. UNCHANGED jobs => RecordKept /\ UNCHANGED OpenJobs /\ JobsBounded'
  BY <1>2, RecordUnchanged DEF JobsInv, JobsBounded
<1>4. RunsContinue
  BY <1>1, UnchangedRuns DEF Submit, AskForOperator, SendRequest, ResumeAi
<1>5. CASE Submit(channel)
  <2>1. /\ RecordKept /\ JobsBounded'
        /\ OpenJobs' = IF chat.status = "human" THEN OpenJobs ELSE OpenJobs \cup {Len(jobs) + 1}
        /\ \A j \in OpenJobs : j < Len(jobs) + 1
    BY <1>5, SubmitFiles
  <2>2. QueueGrows
    BY <2>1 DEF QueueGrows
  <2>3. UNCHANGED <<chat.generation, chat.lease, chat.status>>
    BY <1>2, <1>5 DEF Submit, ChatRow
  <2>4. AnswerersKept /\ chat'.generation >= chat.generation
    BY <1>2, <2>2, <2>3 DEF AnswerersKept
  <2>5. RequestsGrow
    BY <1>5 DEF Submit, RequestsGrow
  <2> QED
    BY <1>4, <2>1, <2>4, <2>5, JobsStay
<1>6. CASE AskForOperator(channel)
  <2>1. RequestsGrow /\ UNCHANGED jobs
    BY <1>6 DEF AskForOperator, RequestsGrow
  <2>2. chat'.generation >= chat.generation /\ AnswerersKept
    BY <1>3, <1>6, <2>1, HandoffKeepsAnswerers DEF AskForOperator
  <2> QED
    BY <1>3, <1>4, <2>1, <2>2, JobsStay
<1>7. CASE SendRequest(channel)
  <2>1. RequestsGrow /\ UNCHANGED jobs
    BY <1>7 DEF SendRequest, CreateRequest, RequestsGrow
  <2>2. chat'.generation >= chat.generation /\ AnswerersKept
    BY <1>3, <1>7, <2>1, HandoffKeepsAnswerers DEF SendRequest, CreateRequest
  <2> QED
    BY <1>3, <1>4, <2>1, <2>2, JobsStay
<1>8. CASE ResumeAi(channel)
  <2>1. RequestsGrow /\ UNCHANGED jobs
    BY <1>8 DEF ResumeAi, RequestsGrow
  <2>2. chat'.generation >= chat.generation /\ AnswerersKept
    <3>1. CASE chat.status = "ai"
      <4>1. UNCHANGED <<chat.generation, chat.lease, chat.status>>
        BY <1>2, <1>8, <3>1 DEF ResumeAi, ChatRow
      <4>2. QueueGrows
        BY <1>3, <2>1 DEF QueueGrows
      <4> QED
        BY <1>2, <4>1, <4>2 DEF AnswerersKept
    <3>2. CASE chat.status # "ai"
      <4>1. /\ chat.generation < MaxGeneration
            /\ chat' = [HandedOver("ai", Nobody) EXCEPT !.channel = channel]
        BY <1>8, <3>2 DEF ResumeAi
      <4>2. chat'.generation = chat.generation + 1
        BY <4>1, HandedOverTypes DEF ChatRow
      <4> QED
        BY <4>2, NewGeneration
    <3> QED
      BY <3>1, <3>2
  <2> QED
    BY <1>3, <1>4, <2>1, <2>2, JobsStay
<1> QED
  BY <1>1, <1>5, <1>6, <1>7, <1>8

LEMMA OperatorKeepsJobs ==
  ASSUME TypeOK, TypeOK', JobsInv, OperatorStep
  PROVE  JobsInv'
<1>1. PICK operator \in Operators :
        \/ Claim(operator)
        \/ OperatorReply(operator)
        \/ \E r \in DOMAIN requests : Resolve(operator, r)
        \/ Close(operator)
  BY DEF OperatorStep
<1>2. jobs \in Seq(JobRow) /\ chat \in ChatRow /\ JobsBounded
  BY DEF TypeOK, JobsInv
<1>3. UNCHANGED jobs => RecordKept /\ UNCHANGED OpenJobs /\ JobsBounded'
  BY <1>2, RecordUnchanged DEF JobsBounded
<1>4. RunsContinue
  BY <1>1, UnchangedRuns DEF Claim, OperatorReply, Resolve, Close
<1>5. RequestsGrow
  BY <1>1 DEF Claim, OperatorReply, Resolve, Close, RequestsGrow
<1>6. CASE Claim(operator)
  <2>1. RecordKept /\ JobsBounded'
    BY <1>2, <1>6, ClaimTakes
  <2>2. chat'.generation = chat.generation + 1
    BY <1>6, HandedOverTypes DEF Claim
  <2> QED
    BY <1>4, <1>5, <2>1, <2>2, NewGeneration, JobsStay
<1>7. CASE OperatorReply(operator)
  <2>1. RecordKept /\ JobsBounded' /\ UNCHANGED <<chat, OpenJobs>>
    BY <1>7, ReplyFiles DEF OperatorReply
  <2> QED
    BY <1>4, <1>5, <2>1, AnswerersUnchanged, JobsStay
<1>8. ASSUME NEW r \in DOMAIN requests, Resolve(operator, r) PROVE JobsInv'
  <2>1. UNCHANGED <<chat, jobs>>
    BY <1>8 DEF Resolve
  <2> QED
    BY <1>3, <1>4, <1>5, <2>1, AnswerersUnchanged, JobsStay
<1>9. CASE Close(operator)
  <2>1. UNCHANGED jobs /\ chat'.generation = chat.generation + 1
    BY <1>2, <1>9 DEF Close, ChatRow
  <2> QED
    BY <1>3, <1>4, <1>5, <2>1, NewGeneration, JobsStay
<1> QED
  BY <1>1, <1>6, <1>7, <1>8, <1>9

LEMMA WorkerKeepsJobs ==
  ASSUME TypeOK, TypeOK', JobsInv, NEW w \in Workers, WorkerStep(w)
  PROVE  JobsInv'
<1>1. /\ jobs \in Seq(JobRow) /\ chat \in ChatRow /\ chat.generation \in Nat
      /\ runs \in [Workers -> RunRow] /\ JobsBounded /\ RunsAgree
  BY DEF TypeOK, ChatRow, JobsInv
<1>2. UNCHANGED jobs => RecordKept /\ UNCHANGED OpenJobs /\ JobsBounded'
  BY <1>1, RecordUnchanged DEF JobsBounded
<1>3. /\ Unleased(chat).generation = chat.generation
      /\ Unleased(chat).lease = Nobody
  BY <1>1 DEF Unleased, ChatRow
<1>4. chat' = Unleased(chat) => chat'.generation >= chat.generation /\ AnswerersKept
  BY <1>1, <1>3 DEF AnswerersKept
<1>5. UNCHANGED requests => RequestsGrow
  BY DEF RequestsGrow
<1>6. CASE Start(w)
  <2>1. RecordKept /\ JobsBounded' /\ UNCHANGED OpenJobs /\ Oldest(OldestOpen)
    BY <1>1, <1>6, StartQueues
  <2>2. /\ chat'.lease = w /\ chat'.generation = chat.generation /\ chat'.status = chat.status
    BY <1>1, <1>6 DEF Start, ChatRow
  <2>3. /\ runs'[w].job = OldestOpen /\ runs'[w].generation = chat.generation
        /\ runs'[w].calls = 0
        /\ \A v \in Workers \ {w} : runs'[v] = runs[v]
    BY <1>1, <1>6 DEF Start
  <2>4. OldestOpen \in DOMAIN jobs'
    BY <2>1 DEF Oldest, OpenJobs
  <2>5. \A j \in DOMAIN jobs' : Len(jobs'[j].receipts) \in Nat
    <3>1. \A j \in DOMAIN jobs' : jobs'[j] \in JobRow
      BY DEF TypeOK
    <3> QED
      BY <3>1 DEF JobRow
  <2>6. RunsAgree'
    <3> SUFFICES ASSUME NEW v \in Workers
                 PROVE  /\ runs'[v].generation <= chat'.generation
                        /\ runs'[v].phase # "idle" =>
                             /\ runs'[v].job \in DOMAIN jobs'
                             /\ runs'[v].calls <= Len(jobs'[runs'[v].job].receipts)
      BY DEF RunsAgree
    <3>1. CASE v = w
      BY <1>1, <2>2, <2>3, <2>4, <2>5, <3>1
    <3>2. CASE v # w
      <4>1. runs'[v] = runs[v] /\ runs[v].generation <= chat.generation
        BY <1>1, <2>3, <3>2 DEF RunsAgree
      <4>2. runs[v].phase # "idle" =>
              /\ runs[v].job \in DOMAIN jobs /\ runs[v].job \in DOMAIN jobs'
              /\ runs[v].calls <= Len(jobs[runs[v].job].receipts)
              /\ Len(jobs[runs[v].job].receipts) <= Len(jobs'[runs[v].job].receipts)
        BY <1>1, <2>1 DEF RunsAgree, RecordKept
      <4>3. \A j \in DOMAIN jobs : Len(jobs[j].receipts) \in Nat
        <5>1. \A j \in DOMAIN jobs : jobs[j] \in JobRow
          BY <1>1
        <5> QED
          BY <5>1 DEF JobRow
      <4>4. runs[v].calls \in Nat
        BY <1>1 DEF RunRow
      <4> QED
        BY <2>2, <2>5, <4>1, <4>2, <4>3, <4>4
    <3> QED
      BY <3>1, <3>2
  <2>7. AnswersOldest'
    BY <2>1, <2>2, <2>3 DEF AnswersOldest, Fenced, HasLease, Oldest
  <2>8. RequestsReceipted' /\ ToolsActOnce'
    BY <1>5, <1>6, <2>1, RequestsStay DEF Start, JobsInv
  <2> QED
    BY <2>1, <2>6, <2>7, <2>8 DEF JobsInv
<1>7. CASE StartInVain(w)
  <2>1. UNCHANGED <<jobs, requests>> /\ chat' = Unleased(chat) /\ RunsContinue
    BY <1>7, UnchangedRuns DEF StartInVain
  <2> QED
    BY <1>2, <1>4, <1>5, <2>1, JobsStay
<1>8. CASE CallTool(w)
  <2> DEFINE j == runs[w].job
  <2>1. /\ RecordKept /\ JobsBounded' /\ UNCHANGED OpenJobs
        /\ j \in DOMAIN jobs /\ runs[w].calls + 1 <= Len(jobs'[j].receipts)
        /\ \/ UNCHANGED <<chat, said, requests, notices>>
           \/ /\ runs[w].calls = Len(jobs[j].receipts)
              /\ \E channel \in Channels : CreateRequest(channel, j, runs[w].calls + 1)
    BY <1>1, <1>8, CallRecords
  <2>2. RunsContinue
    <3>1. /\ runs'[w].phase = runs[w].phase /\ runs'[w].job = j
          /\ runs'[w].generation = runs[w].generation /\ runs'[w].calls = runs[w].calls + 1
          /\ \A v \in Workers \ {w} : runs'[v] = runs[v]
      BY <1>1, <1>8 DEF CallTool, RunRow
    <3> QED
      BY <2>1, <3>1 DEF RunsContinue
  <2>3. CASE UNCHANGED <<chat, said, requests, notices>>
    BY <1>5, <2>1, <2>2, <2>3, AnswerersUnchanged, JobsStay
  <2>4. ASSUME NEW channel \in Channels, CreateRequest(channel, j, runs[w].calls + 1),
               runs[w].calls = Len(jobs[j].receipts)
        PROVE  JobsInv'
    <3>1. RequestsGrow
      BY <2>1, <2>4 DEF RequestsGrow, CreateRequest
    <3>2. chat'.generation >= chat.generation /\ AnswerersKept
      BY <2>1, <2>4, HandoffKeepsAnswerers DEF CreateRequest
    <3> QED
      BY <2>1, <2>2, <3>1, <3>2, JobsStay
  <2> QED
    BY <2>1, <2>3, <2>4
<1>9. CASE StopCalling(w)
  <2>1. UNCHANGED <<jobs, requests, chat>>
    BY <1>9 DEF StopCalling
  <2>2. RunsContinue
    BY <1>1, <1>9 DEF StopCalling, RunsContinue, RunRow
  <2> QED
    BY <1>2, <1>5, <2>1, <2>2, AnswerersUnchanged, JobsStay
<1>10. CASE Finish(w)
  <2>1. /\ RecordKept /\ JobsBounded'
        /\ ~HasLease(w) => UNCHANGED OpenJobs
    BY <1>1, <1>10, FinishSettles
  <2>2. RequestsGrow
    BY <1>5, <1>10 DEF Finish
  <2>3. RunsContinue
    BY <1>1, <1>10 DEF Finish, RunsContinue
  <2>4. chat'.generation >= chat.generation /\ AnswerersKept
    BY <1>4, <1>10, <2>1, AnswerersUnchanged DEF Finish
  <2> QED
    BY <2>1, <2>2, <2>3, <2>4, JobsStay
<1>11. CASE Crash(w)
  <2>1. UNCHANGED <<jobs, requests, chat>>
    BY <1>11 DEF Crash
  <2>2. RunsContinue
    BY <1>1, <1>11 DEF Crash, RunsContinue
  <2> QED
    BY <1>2, <1>5, <2>1, <2>2, AnswerersUnchanged, JobsStay
<1> QED
  BY <1>6, <1>7, <1>8, <1>9, <1>10, <1>11 DEF WorkerStep

LEMMA OthersKeepJobs ==
  ASSUME TypeOK, TypeOK', JobsInv,
         UNCHANGED <<jobs, requests, runs, chat.status, chat.generation, chat.lease>>
  PROVE  JobsInv'
<1>1. RecordKept /\ UNCHANGED OpenJobs /\ JobsBounded'
  BY RecordUnchanged DEF TypeOK, JobsInv, JobsBounded
<1>2. RunsContinue /\ RequestsGrow
  BY UnchangedRuns DEF RequestsGrow
<1>3. chat.generation \in Nat
  BY DEF TypeOK, ChatRow
<1>4. QueueGrows
  BY <1>1 DEF QueueGrows
<1>5. chat'.generation >= chat.generation /\ AnswerersKept
  BY <1>3, <1>4 DEF AnswerersKept
<1> QED
  BY <1>1, <1>2, <1>5, JobsStay

-----------------------------------------------------------------------------
(* The notices                                                             *)

\* A chat goes back to the assistant under a new generation only.
HandsOver ==
  \/ chat'.generation > chat.generation
  \/ chat'.generation = chat.generation /\ (chat.status # "ai" => chat'.status # "ai")

\* A step of the chat retires notices at most, and files one at most; the
\* operators are called when the assistant's turn ends, once in a generation.
FilesNotice ==
  /\ UNCHANGED delivery
  /\ \E old \in {notices, RetiredNotices}, kind \in {"operator", "customer", "ai"},
        event \in Nat :
       /\ notices' = old \/ notices' = Append(old, Notice(kind, event))
       /\ kind = "operator" =>
            /\ event = chat.generation /\ chat'.generation = chat.generation
            /\ chat.status = "ai" /\ chat'.status # "ai"

LEMMA NothingFiled ==
  ASSUME UNCHANGED <<notices, delivery>>
  PROVE  FilesNotice
<1>1. 0 \in Nat /\ "ai" \in {"operator", "customer", "ai"} /\ "ai" # "operator"
  OBVIOUS
<1> QED
  BY <1>1 DEF FilesNotice

\* What is filed for the customer or the assistant.
LEMMA OtherFiled ==
  ASSUME UNCHANGED delivery, NEW old \in {notices, RetiredNotices},
         NEW kind \in {"customer", "ai"}, NEW event \in Nat,
         notices' = old \/ notices' = Append(old, Notice(kind, event))
  PROVE  FilesNotice
<1>1. kind # "operator"
  OBVIOUS
<1> QED
  BY <1>1 DEF FilesNotice

\* Rows of a table that a step files in.
LEMMA FiledRows ==
  ASSUME TypeOK, FilesNotice
  PROVE  /\ DOMAIN notices \subseteq DOMAIN notices'
         /\ \A n \in DOMAIN notices :
              /\ notices'[n].kind = notices[n].kind /\ notices'[n].event = notices[n].event
              /\ notices'[n].holder = notices[n].holder
              /\ notices'[n].expired = notices[n].expired
              /\ notices'[n].copies = notices[n].copies
              /\ notices'[n].lapses = notices[n].lapses
              /\ \/ notices'[n].sent = notices[n].sent /\ notices'[n].retired = notices[n].retired
                 \/ notices'[n].sent /\ notices'[n].retired
         /\ \A n \in DOMAIN notices' \ DOMAIN notices :
              /\ n = Len(notices) + 1
              /\ \E kind \in {"operator", "customer", "ai"}, event \in Nat :
                   /\ notices'[n] = Notice(kind, event)
                   /\ kind = "operator" =>
                        /\ event = chat.generation /\ chat'.generation = chat.generation
                        /\ chat.status = "ai" /\ chat'.status # "ai"
<1>1. notices \in Seq(NoticeRow)
  BY DEF TypeOK
<1>2. \A n \in DOMAIN notices : notices[n] \in NoticeRow
  BY <1>1
<1>3. PICK old \in {notices, RetiredNotices}, kind \in {"operator", "customer", "ai"},
           event \in Nat :
        /\ notices' = old \/ notices' = Append(old, Notice(kind, event))
        /\ kind = "operator" =>
             /\ event = chat.generation /\ chat'.generation = chat.generation
             /\ chat.status = "ai" /\ chat'.status # "ai"
  BY DEF FilesNotice
<1>4. old \in Seq(NoticeRow) /\ DOMAIN old = DOMAIN notices /\ Len(old) = Len(notices)
  BY <1>1, Retiring
<1>5. \A n \in DOMAIN notices :
        /\ old[n].kind = notices[n].kind /\ old[n].event = notices[n].event
        /\ old[n].holder = notices[n].holder /\ old[n].expired = notices[n].expired
        /\ old[n].copies = notices[n].copies /\ old[n].lapses = notices[n].lapses
        /\ \/ old[n].sent = notices[n].sent /\ old[n].retired = notices[n].retired
           \/ old[n].sent /\ old[n].retired
  <2>1. CASE old = notices
    BY <2>1
  <2>2. CASE old = RetiredNotices
    <3> SUFFICES ASSUME NEW n \in DOMAIN notices
                 PROVE  /\ old[n].kind = notices[n].kind /\ old[n].event = notices[n].event
                        /\ old[n].holder = notices[n].holder
                        /\ old[n].expired = notices[n].expired
                        /\ old[n].copies = notices[n].copies
                        /\ old[n].lapses = notices[n].lapses
                        /\ \/ old[n].sent = notices[n].sent /\ old[n].retired = notices[n].retired
                           \/ old[n].sent /\ old[n].retired
      OBVIOUS
    <3>1. old[n] = Retired(notices[n]) /\ notices[n] \in NoticeRow
      BY <1>2, <2>2 DEF RetiredNotices
    <3>2. CASE old[n] = notices[n]
      BY <3>2
    <3>3. CASE old[n] = [notices[n] EXCEPT !.sent = TRUE, !.retired = TRUE]
      BY <3>1, <3>3 DEF NoticeRow
    <3> QED
      BY <3>1, <3>2, <3>3 DEF Retired
  <2> QED
    BY <2>1, <2>2
<1>6. CASE notices' = old
  BY <1>4, <1>5, <1>6
<1>7. CASE notices' = Append(old, Notice(kind, event))
  <2>1. Notice(kind, event) \in NoticeRow
    BY FreshNotice
  <2>2. /\ DOMAIN notices' = DOMAIN notices \cup {Len(notices) + 1}
        /\ notices'[Len(notices) + 1] = Notice(kind, event)
        /\ \A n \in DOMAIN notices : notices'[n] = old[n]
    BY <1>4, <1>7, <2>1, Appending
  <2> QED
    BY <1>3, <1>5, <2>2
<1> QED
  BY <1>3, <1>6, <1>7

\* The parts of the invariant that are about deliveries.
DeliveryInv == DeliveriesAgree /\ SentMeansDelivered /\ AttemptsLeased

LEMMA FilingKeepsDeliveries ==
  ASSUME TypeOK, TypeOK', DeliveryInv, FilesNotice
  PROVE  DeliveryInv'
<1>1. notices \in Seq(NoticeRow) /\ notices' \in Seq(NoticeRow) /\ UNCHANGED delivery
  BY DEF TypeOK, FilesNotice
<1>2. \A n \in DOMAIN notices :
        n \in Nat /\ n # 0 /\ notices[n].copies \in Nat /\ notices[n].lapses \in Nat
          /\ notices[n].sent \in BOOLEAN
  <2>1. \A n \in DOMAIN notices : n \in Nat /\ n # 0 /\ notices[n] \in NoticeRow
    BY <1>1
  <2> QED
    BY <2>1 DEF NoticeRow
<1>3. DeliveriesAgree'
  BY <1>1, FiledRows DEF DeliveryInv, DeliveriesAgree
<1>4. SentMeansDelivered'
  <2> SUFFICES ASSUME NEW n \in DOMAIN notices', notices'[n].sent
               PROVE  notices'[n].copies > 0 \/ notices'[n].retired
    BY DEF SentMeansDelivered
  <2>1. CASE n \in DOMAIN notices
    BY <2>1, FiledRows DEF DeliveryInv, SentMeansDelivered
  <2>2. CASE n \notin DOMAIN notices
    BY <2>2, FiledRows DEF Notice
  <2> QED
    BY <2>1, <2>2
<1>5. AttemptsLeased'
  <2> SUFFICES ASSUME NEW n \in DOMAIN notices'
               PROVE  /\ IsFiniteSet(Senders(n)')
                      /\ notices'[n].copies + Cardinality(Senders(n)') <= Leases(notices'[n])
    BY DEF AttemptsLeased, Senders, Leases
  <2>1. Senders(n)' = Senders(n)
    BY <1>1 DEF Senders
  <2>2. CASE n \in DOMAIN notices
    <3>1. /\ IsFiniteSet(Senders(n))
          /\ notices[n].copies + Cardinality(Senders(n)) <= Leases(notices[n])
      BY <2>2 DEF DeliveryInv, AttemptsLeased
    <3>2. Cardinality(Senders(n)) \in Nat
      BY <3>1, FS_CardinalityType
    <3>3. Leases(notices[n]) <= Leases(notices'[n])
          /\ Leases(notices[n]) \in Nat /\ Leases(notices'[n]) \in Nat
      BY <1>2, <2>2, FiledRows DEF Leases
    <3>4. notices'[n].copies = notices[n].copies
      BY <2>2, FiledRows
    <3> QED
      BY <1>2, <2>1, <2>2, <3>1, <3>2, <3>3, <3>4
  <2>3. CASE n \notin DOMAIN notices
    <3>1. n # 0
      BY <1>1
    <3>2. Senders(n) = {}
      BY <2>3, <3>1 DEF Senders, DeliveryInv, DeliveriesAgree
    <3>3. notices'[n].copies = 0 /\ notices'[n].lapses = 0
          /\ ~notices'[n].sent /\ notices'[n].holder = Nobody
      BY <2>3, FiledRows DEF Notice
    <3> QED
      BY <2>1, <3>2, <3>3, FS_EmptySet DEF Leases
  <2> QED
    BY <2>2, <2>3
<1> QED
  BY <1>3, <1>4, <1>5 DEF DeliveryInv

\* The parts of the invariant that are about handoffs.
HandoffInv == HandoffsDated /\ HandoffNoticesUnique

LEMMA FilingKeepsHandoffs ==
  ASSUME TypeOK, TypeOK', HandoffInv, FilesNotice, HandsOver
  PROVE  HandoffInv'
<1>1. chat.generation \in Nat /\ chat'.generation \in Nat
  <2>1. chat \in ChatRow /\ chat' \in ChatRow
    BY DEF TypeOK
  <2> QED
    BY <2>1 DEF ChatRow
<1>2. \A n \in DOMAIN notices : notices[n].event \in Nat
  <2>1. \A n \in DOMAIN notices : notices[n] \in NoticeRow
    BY DEF TypeOK
  <2> QED
    BY <2>1 DEF NoticeRow
<1>3. \A n \in DOMAIN notices : notices[n].kind = "operator" =>
        /\ notices[n].event <= chat.generation
        /\ notices[n].event = chat.generation => chat.status # "ai"
  BY DEF HandoffInv, HandoffsDated
<1>4. \A n \in DOMAIN notices' \ DOMAIN notices :
        /\ n = Len(notices) + 1
        /\ notices'[n].kind = "operator" =>
             /\ notices'[n].event = chat.generation /\ chat'.generation = chat.generation
             /\ chat.status = "ai" /\ chat'.status # "ai"
  <2> SUFFICES ASSUME NEW n \in DOMAIN notices' \ DOMAIN notices
               PROVE  /\ n = Len(notices) + 1
                      /\ notices'[n].kind = "operator" =>
                           /\ notices'[n].event = chat.generation
                           /\ chat'.generation = chat.generation
                           /\ chat.status = "ai" /\ chat'.status # "ai"
    OBVIOUS
  <2>1. n = Len(notices) + 1
    BY FiledRows
  <2>2. PICK kind \in {"operator", "customer", "ai"}, event \in Nat :
          /\ notices'[n] = Notice(kind, event)
          /\ kind = "operator" =>
               /\ event = chat.generation /\ chat'.generation = chat.generation
               /\ chat.status = "ai" /\ chat'.status # "ai"
    BY FiledRows
  <2>3. notices'[n].kind = kind /\ notices'[n].event = event
    BY <2>2 DEF Notice
  <2> QED
    BY <2>1, <2>2, <2>3
<1>5. \A n \in DOMAIN notices :
        notices'[n].kind = notices[n].kind /\ notices'[n].event = notices[n].event
  BY FiledRows
<1>6. HandoffsDated'
  <2> SUFFICES ASSUME NEW n \in DOMAIN notices', notices'[n].kind = "operator"
               PROVE  /\ notices'[n].event <= chat'.generation
                      /\ notices'[n].event = chat'.generation => chat'.status # "ai"
    BY DEF HandoffsDated
  <2>1. CASE n \in DOMAIN notices
    BY <1>1, <1>2, <1>3, <1>5, <2>1 DEF HandsOver
  <2>2. CASE n \notin DOMAIN notices
    BY <1>1, <1>4, <2>2
  <2> QED
    BY <2>1, <2>2
<1>7. HandoffNoticesUnique'
  BY <1>3, <1>4, <1>5 DEF HandoffInv, HandoffNoticesUnique
<1> QED
  BY <1>6, <1>7 DEF HandoffInv

LEMMA HandoffStep ==
  ASSUME TypeOK, NEW channel \in Channels, NEW lines \in {<<>>, <<Line("customer", 0)>>},
         Handoff(channel, lines), UNCHANGED delivery
  PROVE  FilesNotice /\ HandsOver
<1>1. /\ chat.generation \in Nat /\ chat'.generation = chat.generation
      /\ chat.status # "ai" => chat'.status = chat.status /\ notices' = notices
      /\ chat.status = "ai" =>
           /\ chat'.status = "waiting"
           /\ notices' = Append(notices, Notice("operator", chat.generation))
  BY HandoffFiles DEF TypeOK, ChatRow
<1>2. HandsOver
  BY <1>1 DEF HandsOver
<1>3. CASE chat.status = "ai"
  BY <1>1, <1>2, <1>3 DEF FilesNotice
<1>4. CASE chat.status # "ai"
  BY <1>1, <1>2, <1>4, NothingFiled
<1> QED
  BY <1>3, <1>4

LEMMA CustomerFiles ==
  ASSUME TypeOK, CustomerStep
  PROVE  FilesNotice /\ HandsOver
<1>1. PICK channel \in Channels :
        Submit(channel) \/ AskForOperator(channel) \/ SendRequest(channel) \/ ResumeAi(channel)
  BY DEF CustomerStep
<1>2. chat \in ChatRow /\ chat.generation \in Nat
  BY DEF TypeOK, ChatRow
<1>3. CASE Submit(channel)
  <2>1. HandsOver
    BY <1>2, <1>3 DEF Submit, HandsOver, ChatRow
  <2> QED
    BY <1>3, <2>1, NothingFiled DEF Submit
<1>4. CASE AskForOperator(channel)
  BY <1>4, HandoffStep DEF AskForOperator
<1>5. CASE SendRequest(channel)
  BY <1>5, HandoffStep DEF SendRequest, CreateRequest
<1>6. CASE ResumeAi(channel)
  <2>1. FilesNotice
    BY <1>6, NothingFiled DEF ResumeAi
  <2>2. CASE chat.status = "ai"
    BY <1>2, <1>6, <2>1, <2>2 DEF ResumeAi, HandsOver, ChatRow
  <2>3. CASE chat.status # "ai"
    <3>1. chat.generation < MaxGeneration
          /\ chat' = [HandedOver("ai", Nobody) EXCEPT !.channel = channel]
      BY <1>6, <2>3 DEF ResumeAi
    <3>2. chat'.generation = chat.generation + 1
      BY <3>1, HandedOverTypes DEF ChatRow
    <3> QED
      BY <1>2, <2>1, <3>2 DEF HandsOver
  <2> QED
    BY <2>2, <2>3
<1> QED
  BY <1>1, <1>3, <1>4, <1>5, <1>6

LEMMA OperatorFiles ==
  ASSUME TypeOK, OperatorStep
  PROVE  FilesNotice /\ HandsOver
<1>1. PICK operator \in Operators :
        \/ Claim(operator)
        \/ OperatorReply(operator)
        \/ \E r \in DOMAIN requests : Resolve(operator, r)
        \/ Close(operator)
  BY DEF OperatorStep
<1>2. chat \in ChatRow /\ chat.generation \in Nat /\ said \in Seq(LineRow)
      /\ notices \in Seq(NoticeRow)
  BY DEF TypeOK, ChatRow
<1>3. ASSUME NEW old \in {notices, RetiredNotices}, notices' = old \o CustomerNotice,
             UNCHANGED delivery
      PROVE  FilesNotice
  <2>1. old \in Seq(NoticeRow)
    BY <1>2, Retiring
  <2>2. Len(said) + 1 \in Nat
    BY <1>2
  <2>3. notices' = old \/ notices' = Append(old, Notice("customer", Len(said) + 1))
    BY <1>2, <1>3, <2>1, CustomerNoticeIsOne
  <2> QED
    BY <1>3, <2>2, <2>3, OtherFiled
<1>4. CASE Claim(operator)
  <2>1. notices' = RetiredNotices \o CustomerNotice /\ UNCHANGED delivery
    BY <1>4 DEF Claim, RetiredNotices
  <2>2. chat'.generation = chat.generation + 1
    BY <1>4, HandedOverTypes DEF Claim
  <2> QED
    BY <1>2, <1>3, <2>1, <2>2 DEF HandsOver
<1>5. CASE OperatorReply(operator)
  BY <1>2, <1>3, <1>5 DEF OperatorReply, HandsOver
<1>6. ASSUME NEW r \in DOMAIN requests, Resolve(operator, r) PROVE FilesNotice /\ HandsOver
  BY <1>2, <1>3, <1>6 DEF Resolve, HandsOver
<1>7. CASE Close(operator)
  <2>1. chat'.generation = chat.generation + 1
    BY <1>2, <1>7 DEF Close, ChatRow
  <2> QED
    BY <1>2, <1>3, <1>7, <2>1 DEF Close, HandsOver
<1> QED
  BY <1>1, <1>4, <1>5, <1>6, <1>7

LEMMA WorkerFiles ==
  ASSUME TypeOK, JobsInv, NEW w \in Workers, WorkerStep(w)
  PROVE  FilesNotice /\ HandsOver
<1>1. chat \in ChatRow /\ chat.generation \in Nat /\ said \in Seq(LineRow)
  BY DEF TypeOK, ChatRow
<1>2. /\ Unleased(chat).generation = chat.generation
      /\ Unleased(chat).status = chat.status
  BY <1>1 DEF Unleased, ChatRow
<1>3. chat' = chat \/ chat' = Unleased(chat) => HandsOver
  BY <1>1, <1>2 DEF HandsOver
<1>4. CASE Start(w)
  <2>1. HandsOver
    BY <1>1, <1>4 DEF Start, HandsOver, ChatRow
  <2> QED
    BY <1>4, <2>1, NothingFiled DEF Start
<1>5. CASE StartInVain(w) \/ StopCalling(w) \/ Crash(w)
  BY <1>3, <1>5, NothingFiled DEF StartInVain, StopCalling, Crash
<1>6. CASE CallTool(w)
  <2>1. \/ UNCHANGED <<chat, said, requests, notices>>
        \/ \E channel \in Channels : CreateRequest(channel, runs[w].job, runs[w].calls + 1)
    BY <1>6, CallRecords DEF JobsInv
  <2>2. UNCHANGED delivery
    BY <1>6 DEF CallTool
  <2>3. CASE UNCHANGED <<chat, said, requests, notices>>
    BY <1>3, <2>2, <2>3, NothingFiled
  <2>4. ASSUME NEW channel \in Channels,
               CreateRequest(channel, runs[w].job, runs[w].calls + 1)
        PROVE  FilesNotice /\ HandsOver
    BY <2>2, <2>4, HandoffStep DEF CreateRequest
  <2> QED
    BY <2>1, <2>3, <2>4
<1>7. CASE Finish(w)
  <2>1. HandsOver
    BY <1>3, <1>7 DEF Finish
  <2>2. Len(said) + 1 \in Nat /\ UNCHANGED delivery
    BY <1>1, <1>7 DEF Finish
  <2>3. notices' = notices \/ notices' = Append(notices, Notice("ai", Len(said) + 1))
    BY <1>7 DEF Finish
  <2> QED
    BY <2>1, <2>2, <2>3, OtherFiled
<1> QED
  BY <1>4, <1>5, <1>6, <1>7 DEF WorkerStep

LEMMA LeaseFiles ==
  ASSUME TypeOK, LeaseExpires
  PROVE  FilesNotice /\ HandsOver /\ UNCHANGED <<chat.status, chat.generation, chat.lease>>
<1>1. UNCHANGED <<chat.status, chat.generation, chat.lease>> /\ chat.generation \in Nat
  BY DEF LeaseExpires, TypeOK, ChatRow
<1> QED
  BY <1>1, NothingFiled DEF LeaseExpires, HandsOver

\* What a delivery does to its notice: it leaves alone what the notice is about.
NoticeWorked ==
  /\ UNCHANGED chat
  /\ DOMAIN notices' = DOMAIN notices
  /\ \A n \in DOMAIN notices :
       notices'[n].kind = notices[n].kind /\ notices'[n].event = notices[n].event

LEMMA WorkKeepsHandoffs ==
  ASSUME HandoffInv, NoticeWorked
  PROVE  HandoffInv'
BY DEF HandoffInv, HandoffsDated, HandoffNoticesUnique, NoticeWorked

\* A notice that is sent no more often, and by nobody else, stays paid for.
LEMMA StaysLeased ==
  ASSUME TypeOK, TypeOK', AttemptsLeased, NEW n \in DOMAIN notices, n \in DOMAIN notices',
         Senders(n)' \subseteq Senders(n),
         notices'[n].copies = notices[n].copies,
         Leases(notices[n]) <= Leases(notices'[n])
  PROVE  /\ IsFiniteSet(Senders(n)')
         /\ notices'[n].copies + Cardinality(Senders(n)') <= Leases(notices'[n])
<1>1. /\ IsFiniteSet(Senders(n))
      /\ notices[n].copies + Cardinality(Senders(n)) <= Leases(notices[n])
  BY DEF AttemptsLeased
<1>2. notices[n] \in NoticeRow /\ notices'[n] \in NoticeRow
  BY DEF TypeOK
<1>3. /\ notices[n].copies \in Nat
      /\ Leases(notices[n]) \in Nat /\ Leases(notices'[n]) \in Nat
  BY <1>2 DEF NoticeRow, Leases
<1>4. IsFiniteSet(Senders(n)') /\ Cardinality(Senders(n)') <= Cardinality(Senders(n))
  BY <1>1, FS_Subset
<1>5. Cardinality(Senders(n)) \in Nat /\ Cardinality(Senders(n)') \in Nat
  BY <1>1, <1>4, FS_CardinalityType
<1> QED
  BY <1>1, <1>3, <1>4, <1>5

\* The copy that a run was about to make.
LEMMA CopyMade ==
  ASSUME TypeOK, AttemptsLeased, NEW n \in DOMAIN notices, NEW d \in Senders(n), NEW copy \in {0, 1},
         Senders(n)' = Senders(n) \ {d},
         notices'[n].copies = notices[n].copies + copy,
         Leases(notices'[n]) = Leases(notices[n])
  PROVE  /\ IsFiniteSet(Senders(n)')
         /\ notices'[n].copies + Cardinality(Senders(n)') <= Leases(notices'[n])
<1>1. /\ IsFiniteSet(Senders(n))
      /\ notices[n].copies + Cardinality(Senders(n)) <= Leases(notices[n])
  BY DEF AttemptsLeased
<1>2. notices[n] \in NoticeRow
  BY DEF TypeOK
<1>3. notices[n].copies \in Nat /\ Leases(notices[n]) \in Nat
  BY <1>2 DEF NoticeRow, Leases
<1>4. IsFiniteSet(Senders(n) \ {d}) /\ Cardinality(Senders(n) \ {d}) = Cardinality(Senders(n)) - 1
  BY <1>1, FS_RemoveElement
<1>5. Cardinality(Senders(n)) \in Nat /\ Cardinality(Senders(n) \ {d}) \in Nat
  BY <1>1, <1>4, FS_CardinalityType
<1> QED
  BY <1>1, <1>3, <1>4, <1>5

\* The send that a new lease allows.
LEMMA NewlyLeased ==
  ASSUME TypeOK, AttemptsLeased, NEW n \in DOMAIN notices, NEW d,
         d \notin Senders(n), Senders(n)' = Senders(n) \cup {d},
         notices'[n].copies = notices[n].copies,
         Leases(notices'[n]) = Leases(notices[n]) + 1
  PROVE  /\ IsFiniteSet(Senders(n)')
         /\ notices'[n].copies + Cardinality(Senders(n)') <= Leases(notices'[n])
<1>1. /\ IsFiniteSet(Senders(n))
      /\ notices[n].copies + Cardinality(Senders(n)) <= Leases(notices[n])
  BY DEF AttemptsLeased
<1>2. notices[n] \in NoticeRow
  BY DEF TypeOK
<1>3. notices[n].copies \in Nat /\ Leases(notices[n]) \in Nat
  BY <1>2 DEF NoticeRow, Leases
<1>4. /\ IsFiniteSet(Senders(n) \cup {d})
      /\ Cardinality(Senders(n) \cup {d}) = Cardinality(Senders(n)) + 1
  BY <1>1, FS_AddElement
<1>5. Cardinality(Senders(n)) \in Nat
  BY <1>1, FS_CardinalityType
<1> QED
  BY <1>1, <1>3, <1>4, <1>5

LEMMA DeliveryKeeps ==
  ASSUME TypeOK, TypeOK', DeliveryInv, NEW d \in Deliverers, DeliveryStep(d)
  PROVE  DeliveryInv' /\ NoticeWorked
<1>1. /\ notices \in Seq(NoticeRow) /\ delivery \in [Deliverers -> DeliveryRow]
      /\ delivery[d] \in DeliveryRow
  BY DEF TypeOK
<1>2. \A n \in DOMAIN notices : n \in Nat /\ n # 0 /\ notices[n] \in NoticeRow
  BY <1>1
<1>3. \A n \in DOMAIN notices : Leases(notices[n]) \in Nat
  BY <1>2 DEF NoticeRow, Leases
<1>4. /\ AttemptsLeased
      /\ \A n \in DOMAIN notices :
           notices[n].sent => notices[n].copies > 0 \/ notices[n].retired
      /\ \A e \in Deliverers :
           /\ delivery[e].todo \subseteq DOMAIN notices
           /\ delivery[e].notice # 0 => delivery[e].notice \in DOMAIN notices
           /\ delivery[e].accepted =>
                delivery[e].notice # 0 /\ notices[delivery[e].notice].copies > 0
  BY DEF DeliveryInv, SentMeansDelivered, DeliveriesAgree
<1>5. ASSUME UNCHANGED notices, \A n \in DOMAIN notices : Senders(n)' \subseteq Senders(n)
      PROVE  AttemptsLeased' /\ SentMeansDelivered'
  <2>1. \A n \in DOMAIN notices : Leases(notices[n]) <= Leases(notices'[n])
    BY <1>3, <1>5
  <2>2. \A n \in DOMAIN notices :
          /\ IsFiniteSet(Senders(n)')
          /\ notices'[n].copies + Cardinality(Senders(n)') <= Leases(notices'[n])
    BY <1>4, <1>5, <2>1, StaysLeased
  <2> QED
    BY <1>4, <1>5, <2>2 DEF AttemptsLeased, Senders, Leases, SentMeansDelivered
<1>6. CASE List(d)
  <2>1. UNCHANGED <<chat, notices>>
        /\ delivery' = [delivery EXCEPT ![d].todo = {n \in DOMAIN notices : Claimable(n)}]
    BY <1>6 DEF List
  <2>2. /\ delivery'[d].todo = {n \in DOMAIN notices : Claimable(n)}
        /\ delivery'[d].notice = delivery[d].notice
        /\ delivery'[d].accepted = delivery[d].accepted
        /\ \A e \in Deliverers \ {d} : delivery'[e] = delivery[e]
    BY <1>1, <2>1 DEF DeliveryRow
  <2>3. \A n \in DOMAIN notices : Senders(n)' \subseteq Senders(n)
    BY <2>2 DEF Senders
  <2>4. DeliveriesAgree'
    BY <1>4, <2>1, <2>2 DEF DeliveriesAgree
  <2> QED
    BY <1>5, <2>1, <2>3, <2>4 DEF DeliveryInv, NoticeWorked
<1>7. CASE ClaimNotice(d)
  <2>0. PICK n \in delivery[d].todo : n = NextListed(d)
    BY <1>7, NextIsListed DEF ClaimNotice
  <2> DEFINE left == delivery[d].todo \ {n}
  <2>1. delivery[d].notice = 0 /\ UNCHANGED chat
    BY <1>7 DEF ClaimNotice
  <2>2. n \in DOMAIN notices /\ left \subseteq DOMAIN notices
    BY <1>4, <2>1
  <2>3. IF Claimable(n)
          THEN /\ notices' = [notices EXCEPT ![n].holder = d, ![n].expired = FALSE]
               /\ delivery' = [delivery EXCEPT ![d] =
                                 [todo |-> left, notice |-> n, accepted |-> FALSE]]
          ELSE /\ delivery' = [delivery EXCEPT ![d].todo = left]
               /\ UNCHANGED notices
    BY <1>7, <2>0 DEF ClaimNotice, NextListed
  <2> HIDE DEF left
  <2>4. CASE ~Claimable(n)
    <3>1. UNCHANGED notices
          /\ delivery'[d].todo = left /\ delivery'[d].notice = delivery[d].notice
          /\ delivery'[d].accepted = delivery[d].accepted
          /\ \A e \in Deliverers \ {d} : delivery'[e] = delivery[e]
      BY <1>1, <2>3, <2>4 DEF DeliveryRow
    <3>2. \A k \in DOMAIN notices : Senders(k)' \subseteq Senders(k)
      BY <3>1 DEF Senders
    <3>3. DeliveriesAgree'
      BY <1>4, <2>2, <3>1 DEF DeliveriesAgree
    <3> QED
      BY <1>5, <2>1, <3>1, <3>2, <3>3 DEF DeliveryInv, NoticeWorked
  <2>5. CASE Claimable(n)
    <3>1. /\ delivery'[d].todo = left /\ delivery'[d].notice = n
          /\ ~delivery'[d].accepted
          /\ \A e \in Deliverers \ {d} : delivery'[e] = delivery[e]
      BY <1>1, <2>3, <2>5
    <3>2. /\ DOMAIN notices' = DOMAIN notices
          /\ \A k \in DOMAIN notices \ {n} : notices'[k] = notices[k]
          /\ notices'[n] = [notices[n] EXCEPT !.holder = d, !.expired = FALSE]
      BY <1>1, <2>2, <2>3, <2>5
    <3>3. /\ notices'[n].holder = d /\ notices'[n].expired = FALSE
          /\ notices'[n].kind = notices[n].kind /\ notices'[n].event = notices[n].event
          /\ notices'[n].sent = notices[n].sent /\ notices'[n].retired = notices[n].retired
          /\ notices'[n].copies = notices[n].copies /\ notices'[n].lapses = notices[n].lapses
      BY <1>2, <2>2, <3>2 DEF NoticeRow
    <3>4. d # Nobody
      BY ConversationAssumption
    <3>5. Leases(notices'[n]) = Leases(notices[n]) + 1
      <4>1. notices[n].lapses \in Nat
        BY <1>2, <2>2 DEF NoticeRow
      <4> QED
        BY <2>5, <3>3, <3>4, <4>1 DEF Leases, Claimable
    <3>6. n # 0
      BY <1>2, <2>2
    <3>7. d \notin Senders(n) /\ Senders(n)' = Senders(n) \cup {d}
      <4>1. d \notin Senders(n)
        BY <2>1, <3>6 DEF Senders
      <4>2. Senders(n)' = {e \in Deliverers : delivery'[e].notice = n /\ ~delivery'[e].accepted}
        BY DEF Senders
      <4>3. \A e \in Deliverers : e \in Senders(n)' <=> e \in Senders(n) \/ e = d
        BY <3>1, <4>1, <4>2 DEF Senders
      <4>4. Senders(n)' \subseteq Deliverers /\ Senders(n) \subseteq Deliverers
        BY <4>2 DEF Senders
      <4> QED
        BY <4>1, <4>3, <4>4
    <3>8. \A k \in DOMAIN notices \ {n} : Senders(k)' \subseteq Senders(k)
      BY <3>1 DEF Senders
    <3>9. AttemptsLeased'
      <4> SUFFICES ASSUME NEW k \in DOMAIN notices
                   PROVE  /\ IsFiniteSet(Senders(k)')
                          /\ notices'[k].copies + Cardinality(Senders(k)') <= Leases(notices'[k])
        BY <3>2 DEF AttemptsLeased, Senders, Leases
      <4>1. CASE k = n
        <5>1. d \notin Senders(k) /\ Senders(k)' = Senders(k) \cup {d}
          BY <3>7, <4>1
        <5>2. notices'[k].copies = notices[k].copies
              /\ Leases(notices'[k]) = Leases(notices[k]) + 1
          BY <3>3, <3>5, <4>1
        <5> QED
          BY <1>4, <5>1, <5>2, NewlyLeased
      <4>2. CASE k # n
        <5>1. notices'[k] = notices[k] /\ Leases(notices[k]) <= Leases(notices'[k])
          BY <1>3, <3>2, <4>2
        <5> QED
          BY <1>4, <3>2, <3>8, <4>2, <5>1, StaysLeased
      <4> QED
        BY <4>1, <4>2
    <3>10. SentMeansDelivered'
      BY <1>4, <3>2, <3>3 DEF SentMeansDelivered
    <3>11. DeliveriesAgree'
      <4> SUFFICES ASSUME NEW e \in Deliverers
                   PROVE  /\ delivery'[e].todo \subseteq DOMAIN notices
                          /\ delivery'[e].notice # 0 => delivery'[e].notice \in DOMAIN notices
                          /\ delivery'[e].accepted =>
                               /\ delivery'[e].notice # 0
                               /\ notices'[delivery'[e].notice].copies > 0
        BY <3>2 DEF DeliveriesAgree
      <4>1. CASE e = d
        BY <2>2, <3>1, <4>1
      <4>2. CASE e # d
        <5>1. \A k \in DOMAIN notices : notices'[k].copies = notices[k].copies
          BY <3>2, <3>3
        <5> QED
          BY <1>4, <3>1, <4>2, <5>1
      <4> QED
        BY <4>1, <4>2
    <3>12. NoticeWorked
      BY <2>1, <3>2, <3>3 DEF NoticeWorked
    <3> QED
      BY <3>9, <3>10, <3>11, <3>12 DEF DeliveryInv
  <2> QED
    BY <2>4, <2>5

<1>8. ASSUME NEW n \in DOMAIN notices, NEW row \in NoticeRow, NEW copy \in {0, 1},
             n = delivery[d].notice, ~delivery[d].accepted, UNCHANGED chat,
             row = [notices[n] EXCEPT !.copies = @ + copy],
             notices' = [notices EXCEPT ![n] = row],
             \A e \in Deliverers \ {d} : delivery'[e] = delivery[e],
             delivery'[d].todo = delivery[d].todo,
             \/ delivery'[d].notice = 0 /\ ~delivery'[d].accepted
             \/ delivery'[d].notice = n /\ delivery'[d].accepted /\ copy = 1
      PROVE  DeliveryInv' /\ NoticeWorked
  <2>1. /\ DOMAIN notices' = DOMAIN notices /\ notices'[n] = row
        /\ \A k \in DOMAIN notices \ {n} : notices'[k] = notices[k]
    BY <1>1, <1>8
  <2>2. /\ notices'[n].holder = notices[n].holder /\ notices'[n].expired = notices[n].expired
        /\ notices'[n].kind = notices[n].kind /\ notices'[n].event = notices[n].event
        /\ notices'[n].sent = notices[n].sent /\ notices'[n].retired = notices[n].retired
        /\ notices'[n].copies = notices[n].copies + copy
        /\ notices'[n].lapses = notices[n].lapses
    BY <1>2, <1>8, <2>1 DEF NoticeRow
  <2>3. Leases(notices'[n]) = Leases(notices[n])
    BY <2>2 DEF Leases
  <2>4. \A k \in DOMAIN notices : notices[k].copies \in Nat
    BY <1>2 DEF NoticeRow
  <2>5. d \in Senders(n)
    BY <1>8 DEF Senders
  <2>6. Senders(n)' = Senders(n) \ {d}
    <3>1. d \notin Senders(n)'
      BY <1>2, <1>8 DEF Senders
    <3>2. \A e \in Deliverers \ {d} : e \in Senders(n)' <=> e \in Senders(n)
      BY <1>8 DEF Senders
    <3>3. Senders(n)' \subseteq Deliverers /\ Senders(n) \subseteq Deliverers
      BY DEF Senders
    <3> QED
      BY <3>1, <3>2, <3>3
  <2>7. \A k \in DOMAIN notices \ {n} : Senders(k)' \subseteq Senders(k)
    <3> SUFFICES ASSUME NEW k \in DOMAIN notices \ {n}, NEW e \in Senders(k)'
                 PROVE  e \in Senders(k)
      OBVIOUS
    <3>1. k # 0 /\ e \in Deliverers /\ delivery'[e].notice = k /\ ~delivery'[e].accepted
      BY <1>2 DEF Senders
    <3>2. e # d
      BY <1>8, <3>1
    <3> QED
      BY <1>8, <3>1, <3>2 DEF Senders
  <2>8. AttemptsLeased'
    <3> SUFFICES ASSUME NEW k \in DOMAIN notices
                 PROVE  /\ IsFiniteSet(Senders(k)')
                        /\ notices'[k].copies + Cardinality(Senders(k)') <= Leases(notices'[k])
      BY <2>1 DEF AttemptsLeased, Senders, Leases
    <3>1. CASE k = n
      <4>1. d \in Senders(k) /\ Senders(k)' = Senders(k) \ {d}
        BY <2>5, <2>6, <3>1
      <4>2. /\ notices'[k].copies = notices[k].copies + copy
            /\ Leases(notices'[k]) = Leases(notices[k])
        BY <2>2, <2>3, <3>1
      <4> QED
        BY <1>4, <4>1, <4>2, CopyMade
    <3>2. CASE k # n
      <4>1. notices'[k] = notices[k] /\ Leases(notices[k]) <= Leases(notices'[k])
        BY <1>3, <2>1, <3>2
      <4> QED
        BY <1>4, <2>1, <2>7, <3>2, <4>1, StaysLeased
    <3> QED
      BY <3>1, <3>2
  <2>9. \A k \in DOMAIN notices : notices[k].copies > 0 => notices'[k].copies > 0
    BY <2>1, <2>2, <2>4
  <2>10. SentMeansDelivered'
    <3> SUFFICES ASSUME NEW k \in DOMAIN notices, notices'[k].sent
                 PROVE  notices'[k].copies > 0 \/ notices'[k].retired
      BY <2>1 DEF SentMeansDelivered
    <3>1. notices[k].sent /\ notices'[k].retired = notices[k].retired
      BY <2>1, <2>2
    <3> QED
      BY <1>4, <2>9, <3>1
  <2>11. DeliveriesAgree'
    <3> SUFFICES ASSUME NEW e \in Deliverers
                 PROVE  /\ delivery'[e].todo \subseteq DOMAIN notices
                        /\ delivery'[e].notice # 0 => delivery'[e].notice \in DOMAIN notices
                        /\ delivery'[e].accepted =>
                             /\ delivery'[e].notice # 0
                             /\ notices'[delivery'[e].notice].copies > 0
      BY <2>1 DEF DeliveriesAgree
    <3>1. CASE e = d
      <4>1. copy = 1 => notices'[n].copies > 0
        BY <2>2, <2>4
      <4> QED
        BY <1>2, <1>4, <1>8, <3>1, <4>1
    <3>2. CASE e # d
      BY <1>4, <1>8, <2>9, <3>2
    <3> QED
      BY <3>1, <3>2
  <2> QED
    BY <1>8, <2>1, <2>2, <2>8, <2>10, <2>11 DEF DeliveryInv, NoticeWorked
<1>9. CASE Send(d)
  <2>0. PICK n \in DOMAIN notices : n = delivery[d].notice
    BY <1>4, <1>9 DEF Send, Sending
  <2> DEFINE row == [notices[n] EXCEPT !.copies = @ + 1]
  <2>1. row \in NoticeRow
    BY <1>2 DEF NoticeRow
  <2>2. notices' = [notices EXCEPT ![n] = row] /\ UNCHANGED chat /\ ~delivery[d].accepted
    BY <1>9, <2>0 DEF Send, Sending
  <2>3. /\ \A e \in Deliverers \ {d} : delivery'[e] = delivery[e]
        /\ delivery'[d].todo = delivery[d].todo
        /\ delivery'[d].notice = n /\ delivery'[d].accepted
    BY <1>1, <1>9, <2>0 DEF Send, DeliveryRow
  <2> QED
    BY <1>8, <2>0, <2>1, <2>2, <2>3
<1>10. CASE FailToSend(d)
  <2>0. PICK n \in DOMAIN notices : n = delivery[d].notice
    BY <1>4, <1>10 DEF FailToSend, Sending
  <2>1. PICK copy \in {0, 1} : notices' = [notices EXCEPT ![n].copies = @ + copy]
    BY <1>10, <2>0 DEF FailToSend
  <2> DEFINE row == [notices[n] EXCEPT !.copies = @ + copy]
  <2>2. row \in NoticeRow
    BY <1>2 DEF NoticeRow
  <2>3. notices' = [notices EXCEPT ![n] = row] /\ UNCHANGED chat /\ ~delivery[d].accepted
    BY <1>10, <2>1 DEF FailToSend, Sending
  <2>4. /\ \A e \in Deliverers \ {d} : delivery'[e] = delivery[e]
        /\ delivery'[d].todo = delivery[d].todo
        /\ delivery'[d].notice = 0 /\ delivery'[d].accepted = delivery[d].accepted
    BY <1>1, <1>10 DEF FailToSend, DeliveryRow
  <2> QED
    BY <1>8, <2>0, <2>2, <2>3, <2>4
<1>11. CASE Record(d)
  <2>0. PICK n \in DOMAIN notices : n = delivery[d].notice /\ notices[n].copies > 0
    BY <1>4, <1>11 DEF Record, Accepted
  <2>1. /\ \A e \in Deliverers \ {d} : delivery'[e] = delivery[e]
        /\ delivery'[d].todo = delivery[d].todo
        /\ delivery'[d].notice = 0 /\ ~delivery'[d].accepted
    BY <1>1, <1>11 DEF Record, DeliveryRow
  <2>2. \A k \in DOMAIN notices : Senders(k)' \subseteq Senders(k)
    BY <1>2, <2>1 DEF Senders
  <2>3. CASE UNCHANGED notices
    <3>1. DeliveriesAgree'
      BY <1>4, <2>1, <2>3 DEF DeliveriesAgree
    <3> QED
      BY <1>5, <1>11, <2>2, <2>3, <3>1 DEF DeliveryInv, NoticeWorked, Record
  <2>4. CASE notices' = [notices EXCEPT ![n].sent = TRUE, ![n].holder = Nobody,
                                        ![n].expired = FALSE]
    <3>1. /\ DOMAIN notices' = DOMAIN notices
          /\ \A k \in DOMAIN notices \ {n} : notices'[k] = notices[k]
          /\ notices'[n] = [notices[n] EXCEPT !.sent = TRUE, !.holder = Nobody,
                                              !.expired = FALSE]
      BY <1>1, <2>4
    <3>2. /\ notices'[n].sent
          /\ notices'[n].kind = notices[n].kind /\ notices'[n].event = notices[n].event
          /\ notices'[n].copies = notices[n].copies /\ notices'[n].lapses = notices[n].lapses
      BY <1>2, <3>1 DEF NoticeRow
    <3>3. \A k \in DOMAIN notices : notices'[k].copies = notices[k].copies
      BY <3>1, <3>2
    <3>4. Leases(notices[n]) <= Leases(notices'[n])
      <4>1. notices[n].lapses \in Nat
        BY <1>2 DEF NoticeRow
      <4> QED
        BY <3>2, <4>1 DEF Leases
    <3>5. AttemptsLeased'
      <4> SUFFICES ASSUME NEW k \in DOMAIN notices
                   PROVE  /\ IsFiniteSet(Senders(k)')
                          /\ notices'[k].copies + Cardinality(Senders(k)') <= Leases(notices'[k])
        BY <3>1 DEF AttemptsLeased, Senders, Leases
      <4>1. Leases(notices[k]) <= Leases(notices'[k])
        BY <1>3, <3>1, <3>4
      <4> QED
        BY <1>4, <2>2, <3>1, <3>3, <4>1, StaysLeased
    <3>6. SentMeansDelivered'
      BY <1>4, <2>0, <3>1, <3>3 DEF SentMeansDelivered
    <3>7. DeliveriesAgree'
      BY <1>4, <2>1, <3>1, <3>3 DEF DeliveriesAgree
    <3> QED
      BY <1>11, <3>1, <3>2, <3>5, <3>6, <3>7 DEF DeliveryInv, NoticeWorked, Record
  <2> QED
    BY <1>11, <2>0, <2>3, <2>4 DEF Record
<1>12. CASE CrashDelivery(d)
  <2>1. UNCHANGED <<chat, notices>> /\ delivery' = [delivery EXCEPT ![d] = Resting]
    BY <1>12 DEF CrashDelivery
  <2>2. /\ \A e \in Deliverers \ {d} : delivery'[e] = delivery[e]
        /\ delivery'[d].todo = {} /\ delivery'[d].notice = 0 /\ ~delivery'[d].accepted
    BY <1>1, <2>1 DEF Resting
  <2>3. \A k \in DOMAIN notices : Senders(k)' \subseteq Senders(k)
    BY <1>2, <2>2 DEF Senders
  <2>4. DeliveriesAgree'
    BY <1>4, <2>1, <2>2 DEF DeliveriesAgree
  <2> QED
    BY <1>5, <2>1, <2>3, <2>4 DEF DeliveryInv, NoticeWorked
<1> QED
  BY <1>6, <1>7, <1>9, <1>10, <1>11, <1>12 DEF DeliveryStep

LEMMA NoticeLeaseKeeps ==
  ASSUME TypeOK, TypeOK', DeliveryInv, NEW n \in DOMAIN notices, NoticeLeaseExpires(n)
  PROVE  DeliveryInv' /\ NoticeWorked
<1>1. notices \in Seq(NoticeRow) /\ UNCHANGED <<chat, delivery>>
  BY DEF TypeOK, NoticeLeaseExpires
<1>2. \A k \in DOMAIN notices : notices[k] \in NoticeRow
  BY <1>1
<1>3. /\ DOMAIN notices' = DOMAIN notices
      /\ \A k \in DOMAIN notices \ {n} : notices'[k] = notices[k]
      /\ notices'[n] = [notices[n] EXCEPT !.expired = TRUE, !.lapses = @ + 1]
  BY <1>1 DEF NoticeLeaseExpires
<1>4. /\ notices'[n].kind = notices[n].kind /\ notices'[n].event = notices[n].event
      /\ notices'[n].sent = notices[n].sent /\ notices'[n].retired = notices[n].retired
      /\ notices'[n].copies = notices[n].copies /\ notices'[n].lapses = notices[n].lapses + 1
  BY <1>2, <1>3 DEF NoticeRow
<1>5. \A k \in DOMAIN notices :
        /\ notices'[k].copies = notices[k].copies /\ notices'[k].sent = notices[k].sent
        /\ notices'[k].retired = notices[k].retired
  BY <1>3, <1>4
<1>6. Leases(notices[n]) <= Leases(notices'[n])
  <2>1. notices[n].lapses \in Nat
    BY <1>2 DEF NoticeRow
  <2> QED
    BY <1>4, <2>1 DEF Leases
<1>7. \A k \in DOMAIN notices : Leases(notices[k]) \in Nat
  BY <1>2 DEF NoticeRow, Leases
<1>8. \A k \in DOMAIN notices : Senders(k)' \subseteq Senders(k)
  BY <1>1 DEF Senders
<1>9. AttemptsLeased'
  <2> SUFFICES ASSUME NEW k \in DOMAIN notices
               PROVE  /\ IsFiniteSet(Senders(k)')
                      /\ notices'[k].copies + Cardinality(Senders(k)') <= Leases(notices'[k])
    BY <1>3 DEF AttemptsLeased, Senders, Leases
  <2>1. Leases(notices[k]) <= Leases(notices'[k])
    BY <1>3, <1>6, <1>7
  <2> QED
    BY <1>3, <1>5, <1>8, <2>1, StaysLeased DEF DeliveryInv
<1>10. DeliveriesAgree' /\ SentMeansDelivered'
  BY <1>1, <1>3, <1>5 DEF DeliveryInv, DeliveriesAgree, SentMeansDelivered
<1> QED
  BY <1>1, <1>3, <1>4, <1>9, <1>10 DEF DeliveryInv, NoticeWorked

-----------------------------------------------------------------------------
(* The invariant                                                           *)

LEMMA Initially == Init => IInv
<1> SUFFICES ASSUME Init PROVE IInv
  OBVIOUS
<1>1. TypeOK
  <2>1. chat \in ChatRow /\ chat.operator = Nobody /\ chat.status = "ai"
    BY Bounds DEF Init, ChatRow
  <2>2. Idle \in RunRow /\ Resting \in DeliveryRow
    BY Bounds DEF Idle, RunRow, Resting, DeliveryRow
  <2>3. faults \in 0 .. MaxFaults
    BY Bounds DEF Init
  <2>4. /\ said \in Seq(LineRow) /\ jobs \in Seq(JobRow) /\ requests \in Seq(RequestRow)
        /\ notices \in Seq(NoticeRow)
    BY DEF Init
  <2> QED
    BY <2>1, <2>2, <2>3, <2>4 DEF Init, TypeOK
<1>2. DOMAIN jobs = {} /\ DOMAIN requests = {} /\ DOMAIN notices = {} /\ Len(jobs) = 0
  BY DEF Init
<1>3. JobsBounded
  BY <1>2, Bounds DEF JobsBounded
<1>4. RunsAgree /\ AnswersOldest
  BY DEF Init, Idle, RunsAgree, AnswersOldest
<1>5. DeliveriesAgree
  BY <1>2 DEF Init, Resting, DeliveriesAgree
<1> QED
  BY <1>1, <1>2, <1>3, <1>4, <1>5
  DEF IInv, RequestsReceipted, ToolsActOnce, HandoffsDated, HandoffNoticesUnique,
      SentMeansDelivered, AttemptsLeased

LEMMA Consecution ==
  ASSUME IInv, [Next]_vars
  PROVE  IInv'
<1>1. TypeOK /\ JobsInv /\ HandoffInv /\ DeliveryInv /\ JobsBounded
  BY DEF IInv, JobsInv, HandoffInv, DeliveryInv
<1>2. CASE CustomerStep
  <2>1. TypeOK' /\ JobsInv'
    BY <1>1, <1>2, CustomerTypes, CustomerKeepsJobs
  <2>2. HandoffInv' /\ DeliveryInv'
    BY <1>1, <1>2, <2>1, CustomerFiles, FilingKeepsHandoffs, FilingKeepsDeliveries
  <2> QED
    BY <2>1, <2>2 DEF IInv, JobsInv, HandoffInv, DeliveryInv
<1>3. CASE OperatorStep
  <2>1. TypeOK' /\ JobsInv'
    BY <1>1, <1>3, OperatorTypes, OperatorKeepsJobs
  <2>2. HandoffInv' /\ DeliveryInv'
    BY <1>1, <1>3, <2>1, OperatorFiles, FilingKeepsHandoffs, FilingKeepsDeliveries
  <2> QED
    BY <2>1, <2>2 DEF IInv, JobsInv, HandoffInv, DeliveryInv
<1>4. ASSUME NEW w \in Workers, WorkerStep(w) PROVE IInv'
  <2>1. TypeOK' /\ JobsInv'
    BY <1>1, <1>4, WorkerTypes, WorkerKeepsJobs
  <2>2. HandoffInv' /\ DeliveryInv'
    BY <1>1, <1>4, <2>1, WorkerFiles, FilingKeepsHandoffs, FilingKeepsDeliveries
  <2> QED
    BY <2>1, <2>2 DEF IInv, JobsInv, HandoffInv, DeliveryInv
<1>5. CASE LeaseExpires
  <2>1. TypeOK'
    BY <1>1, <1>5, ClockTypes
  <2>2. JobsInv'
    BY <1>1, <1>5, <2>1, LeaseFiles, OthersKeepJobs DEF LeaseExpires
  <2>3. HandoffInv' /\ DeliveryInv'
    BY <1>1, <1>5, <2>1, LeaseFiles, FilingKeepsHandoffs, FilingKeepsDeliveries
  <2> QED
    BY <2>1, <2>2, <2>3 DEF IInv, JobsInv, HandoffInv, DeliveryInv
<1>6. ASSUME NEW d \in Deliverers, DeliveryStep(d) PROVE IInv'
  <2>1. TypeOK'
    BY <1>1, <1>6, DeliveryTypes
  <2>2. UNCHANGED <<chat, jobs, requests, runs>>
    BY <1>6 DEF DeliveryStep, List, ClaimNotice, Send, FailToSend, Record, CrashDelivery
  <2>3. JobsInv'
    BY <1>1, <2>1, <2>2, OthersKeepJobs
  <2>4. HandoffInv' /\ DeliveryInv'
    BY <1>1, <1>6, <2>1, DeliveryKeeps, WorkKeepsHandoffs
  <2> QED
    BY <2>1, <2>3, <2>4 DEF IInv, JobsInv, HandoffInv, DeliveryInv
<1>7. ASSUME NEW n \in DOMAIN notices, NoticeLeaseExpires(n) PROVE IInv'
  <2>1. TypeOK'
    BY <1>1, <1>7, ClockTypes
  <2>2. JobsInv'
    BY <1>1, <1>7, <2>1, OthersKeepJobs DEF NoticeLeaseExpires
  <2>3. HandoffInv' /\ DeliveryInv'
    BY <1>1, <1>7, <2>1, NoticeLeaseKeeps, WorkKeepsHandoffs
  <2> QED
    BY <2>1, <2>2, <2>3 DEF IInv, JobsInv, HandoffInv, DeliveryInv
<1>8. CASE UNCHANGED vars
  BY <1>8
  DEF vars, IInv, TypeOK, JobsBounded, RunsAgree, AnswersOldest, Fenced, HasLease, Oldest,
      OpenJobs, RequestsReceipted, ToolsActOnce, HandoffsDated, HandoffNoticesUnique,
      DeliveriesAgree, SentMeansDelivered, AttemptsLeased, Senders, Leases
<1> QED
  BY <1>2, <1>3, <1>4, <1>5, <1>6, <1>7, <1>8 DEF Next, WorkerStep, DeliveryStep

LEMMA Invariance == Spec => []IInv
  BY Initially, Consecution, PTL DEF Spec

-----------------------------------------------------------------------------
\* Every table, run and delivery keeps its type, and an operator is named
\* exactly while a human holds the chat.
THEOREM TypeCorrect == Spec => []TypeOK
<1>1. IInv => TypeOK
  BY DEF IInv
<1> QED
  BY <1>1, Invariance, PTL

\* One tool call of a job makes one sales request at most, however often the
\* job is run again (DurableTools.run).
THEOREM ToolsAreDurable == Spec => []ToolsActOnce
<1>1. IInv => ToolsActOnce
  BY DEF IInv
<1> QED
  BY <1>1, Invariance, PTL

\* The unique event key of a handoff notice refuses no handoff (handoff).
THEOREM HandoffsAreFiled == Spec => []HandoffNoticesUnique
<1>1. IInv => HandoffNoticesUnique
  BY DEF IInv
<1> QED
  BY <1>1, Invariance, PTL

\* A notice that counts as sent was taken by Telegram or retired by an
\* operator (deliver_conversation_notifications).
THEOREM NoticesAreDelivered == Spec => []SentMeansDelivered
<1>1. IInv => SentMeansDelivered
  BY DEF IInv
<1> QED
  BY <1>1, Invariance, PTL

\* Each copy of a notice but the first costs a lease that ran out, however
\* many delivery runs there are.
THEOREM CopiesArePaidFor == Spec => []CopiesCostLapses
<1>1. IInv => CopiesCostLapses
  <2> SUFFICES ASSUME IInv, NEW n \in DOMAIN notices
               PROVE  notices[n].copies <= notices[n].lapses + 1
    BY DEF CopiesCostLapses
  <2>1. /\ IsFiniteSet(Senders(n))
        /\ notices[n].copies + Cardinality(Senders(n)) <= Leases(notices[n])
    BY DEF IInv, AttemptsLeased
  <2>2. Cardinality(Senders(n)) \in Nat
    BY <2>1, FS_CardinalityType
  <2>3. notices[n] \in NoticeRow
    BY DEF IInv, TypeOK
  <2>4. notices[n].copies \in Nat /\ notices[n].lapses \in Nat
    BY <2>3 DEF NoticeRow
  <2>5. Leases(notices[n]) <= notices[n].lapses + 1 /\ Leases(notices[n]) \in Nat
    BY <2>4 DEF Leases
  <2> QED
    BY <2>1, <2>2, <2>4, <2>5
<1> QED
  BY <1>1, Invariance, PTL

-----------------------------------------------------------------------------
(* Conversation implements OneVoice                                        *)

VoiceStep == [Voice!Next]_<<chat.operator, OpenJobs, said>>

Spoken == [by : {"customer", "system"}, of : {0}]

\* A step that says nothing, and leaves the speaker and the questions.
LEMMA KeepsQuiet ==
  ASSUME UNCHANGED <<chat.operator, OpenJobs, said>>
  PROVE  VoiceStep
  BY DEF VoiceStep

\* Lines that speak for nobody.
LEMMA Announces ==
  ASSUME TypeOK, NEW lines \in Seq(Spoken), said' = said \o lines,
         UNCHANGED <<chat.operator, OpenJobs>>
  PROVE  VoiceStep
<1>1. said \in Seq(LineRow)
  BY DEF TypeOK
<1>2. Spoken \subseteq LineRow
  BY Bounds DEF Spoken, LineRow
<1>3. lines \in Seq(LineRow)
  BY <1>2
<1>4. /\ Len(said) \in Nat /\ Len(lines) \in Nat
      /\ Len(said') = Len(said) + Len(lines)
      /\ \A i \in 1 .. Len(said) : said'[i] = said[i]
      /\ \A i \in 1 .. Len(lines) : said'[Len(said) + i] = lines[i]
  BY <1>1, <1>3
<1>5. SubSeq(said', 1, Len(said)) = said
  BY <1>1, <1>3
<1>6. ASSUME NEW i \in Len(said) + 1 .. Len(said')
      PROVE  said'[i] \in [by : {"customer", "system"}, of : {0}]
  <2>1. i - Len(said) \in 1 .. Len(lines) /\ i = Len(said) + (i - Len(said))
    BY <1>4
  <2>2. said'[i] = lines[i - Len(said)] /\ lines[i - Len(said)] \in Spoken
    BY <1>4, <2>1
  <2> QED
    BY <2>2 DEF Spoken
<1>7. Voice!Announce
  BY <1>5, <1>6 DEF Voice!Announce
<1> QED
  BY <1>7 DEF VoiceStep, Voice!Next

LEMMA Speaks ==
  ASSUME TypeOK, NEW line \in Spoken, said' = Append(said, line),
         UNCHANGED <<chat.operator, OpenJobs>>
  PROVE  VoiceStep
<1>1. said \in Seq(LineRow) /\ line \in LineRow
  BY Bounds DEF TypeOK, Spoken, LineRow
<1>2. said' = said \o <<line>> /\ <<line>> \in Seq(Spoken)
  BY <1>1, Concatenating
<1> QED
  BY <1>2, Announces

LEMMA HandoffAnnounces ==
  ASSUME TypeOK, NEW channel \in Channels, NEW lines \in {<<>>, <<Line("customer", 0)>>},
         Handoff(channel, lines), UNCHANGED OpenJobs
  PROVE  VoiceStep
<1> DEFINE first == IF chat.status = "ai" THEN <<Line("system", 0)>> ELSE <<>>
<1>1. UNCHANGED chat.operator
  BY HandoffFiles
<1>2. said \in Seq(LineRow)
  BY DEF TypeOK
<1>3. Line("system", 0) \in Spoken /\ Line("customer", 0) \in Spoken
  BY DEF Line, Spoken
<1>4. first \in Seq(Spoken) /\ lines \in Seq(Spoken)
  <2>1. <<Line("system", 0)>> \in Seq(Spoken) /\ <<Line("customer", 0)>> \in Seq(Spoken)
    BY <1>3
  <2>2. <<>> \in Seq(Spoken)
    OBVIOUS
  <2> QED
    BY <2>1, <2>2
<1>5. first \o lines \in Seq(Spoken)
  BY <1>4, ConcatProperties
<1>6. said' = (said \o first) \o lines
  BY DEF Handoff
<1>7. Spoken \subseteq LineRow
  BY Bounds DEF Spoken, LineRow
<1>8. first \in Seq(LineRow) /\ lines \in Seq(LineRow)
  BY <1>4, <1>7
<1> HIDE DEF first
<1>9. said' = said \o (first \o lines)
  BY <1>2, <1>6, <1>8, ConcatAssociative
<1> QED
  BY <1>1, <1>5, <1>9, Announces

LEMMA CustomerSpeaks ==
  ASSUME TypeOK, JobsBounded, CustomerStep
  PROVE  VoiceStep
<1>1. PICK channel \in Channels :
        Submit(channel) \/ AskForOperator(channel) \/ SendRequest(channel) \/ ResumeAi(channel)
  BY DEF CustomerStep
<1>2. jobs \in Seq(JobRow) /\ chat \in ChatRow /\ said \in Seq(LineRow)
  BY DEF TypeOK
<1>3. UNCHANGED jobs => UNCHANGED OpenJobs
  BY DEF OpenJobs
<1>4. CASE Submit(channel)
  <2> DEFINE question == Len(jobs) + 1
  <2>1. /\ OpenJobs' = IF chat.status = "human" THEN OpenJobs ELSE OpenJobs \cup {question}
        /\ \A earlier \in OpenJobs : earlier < question
    BY <1>4, SubmitFiles
  <2>2. question \in 1 .. MaxJobs
    BY <1>2, <1>4, Bounds DEF Submit
  <2>3. chat.operator = Nobody <=> chat.status # "human"
    BY DEF TypeOK
  <2>4. UNCHANGED chat.operator /\ said' = Append(said, Line("customer", question))
    BY <1>2, <1>4 DEF Submit, ChatRow
  <2> HIDE DEF question
  <2>5. Voice!Say("customer", question)
    BY <2>4 DEF Voice!Say, Line
  <2>6. Voice!Ask(question)
    BY <2>1, <2>3, <2>4, <2>5 DEF Voice!Ask
  <2> QED
    BY <2>2, <2>6 DEF VoiceStep, Voice!Next
<1>5. CASE AskForOperator(channel)
  BY <1>3, <1>5, HandoffAnnounces DEF AskForOperator
<1>6. CASE SendRequest(channel)
  BY <1>3, <1>6, HandoffAnnounces DEF SendRequest, CreateRequest
<1>7. CASE ResumeAi(channel)
  <2>1. UNCHANGED OpenJobs
    BY <1>3, <1>7 DEF ResumeAi
  <2>2. CASE chat.status = "ai"
    <3>1. UNCHANGED <<chat.operator, said>>
      BY <1>2, <1>7, <2>2 DEF ResumeAi, ChatRow
    <3> QED
      BY <2>1, <3>1, KeepsQuiet
  <2>3. CASE chat.status # "ai"
    <3>1. said' = Append(said, Line("system", 0)) /\ chat'.operator = Nobody
      BY <1>2, <1>7, <2>3 DEF ResumeAi, HandedOver, Unleased, ChatRow
    <3>2. CASE chat.operator = Nobody
      <4>1. Line("system", 0) \in Spoken
        BY DEF Line, Spoken
      <4> QED
        BY <2>1, <3>1, <3>2, <4>1, Speaks
    <3>3. CASE chat.operator # Nobody
      <4>1. chat.operator \in Operators
        BY <1>2, <3>3 DEF ChatRow
      <4>2. Voice!Say("system", 0)
        BY <3>1 DEF Voice!Say, Line
      <4>3. Voice!GiveBack
        BY <2>1, <3>1, <4>1, <4>2 DEF Voice!GiveBack
      <4> QED
        BY <4>3 DEF VoiceStep, Voice!Next
    <3> QED
      BY <3>2, <3>3
  <2> QED
    BY <2>2, <2>3
<1> QED
  BY <1>1, <1>4, <1>5, <1>6, <1>7

LEMMA OperatorSpeaks ==
  ASSUME TypeOK, JobsBounded, OperatorStep
  PROVE  VoiceStep
<1>1. PICK operator \in Operators :
        \/ Claim(operator)
        \/ OperatorReply(operator)
        \/ \E r \in DOMAIN requests : Resolve(operator, r)
        \/ Close(operator)
  BY DEF OperatorStep
<1>2. chat \in ChatRow /\ operator # Nobody
  BY ConversationAssumption DEF TypeOK
<1>3. chat.operator = Nobody <=> chat.status # "human"
  BY DEF TypeOK
<1>4. UNCHANGED jobs => UNCHANGED OpenJobs
  BY DEF OpenJobs
<1>5. CASE Claim(operator)
  <2>1. OpenJobs' = {}
    BY <1>5, ClaimTakes
  <2>2. chat'.operator = operator /\ chat.operator = Nobody
    BY <1>2, <1>5 DEF Claim, HandedOver, Unleased, ChatRow
  <2>3. Voice!Say("system", 0)
    BY <1>5 DEF Claim, Voice!Say, Line
  <2>4. Voice!TakeOver(operator)
    BY <2>1, <2>2, <2>3 DEF Voice!TakeOver
  <2> QED
    BY <2>4 DEF VoiceStep, Voice!Next
<1>6. CASE OperatorReply(operator)
  <2>1. UNCHANGED <<chat.operator, OpenJobs>>
    BY <1>6, ReplyFiles DEF OperatorReply
  <2>2. chat.operator \in Operators
    BY <1>6 DEF OperatorReply, Holds
  <2>3. Voice!Say("operator", 0)
    BY <1>6 DEF OperatorReply, Voice!Say, Line
  <2>4. Voice!Reply
    BY <2>1, <2>2, <2>3 DEF Voice!Reply
  <2> QED
    BY <2>4 DEF VoiceStep, Voice!Next
<1>7. ASSUME NEW r \in DOMAIN requests, Resolve(operator, r)
      PROVE  VoiceStep
  <2>1. said' = Append(said, Line("system", 0)) /\ Line("system", 0) \in Spoken
    BY <1>7 DEF Resolve, Line, Spoken
  <2>2. UNCHANGED <<chat.operator, OpenJobs>>
    BY <1>4, <1>7 DEF Resolve
  <2> QED
    BY <2>1, <2>2, Speaks
<1>8. CASE Close(operator)
  <2>1. UNCHANGED OpenJobs /\ chat.operator \in Operators /\ chat'.operator = Nobody
    BY <1>2, <1>4, <1>8 DEF Close, Holds, ChatRow
  <2>2. Voice!Say("system", 0)
    BY <1>8 DEF Close, Voice!Say, Line
  <2>3. Voice!GiveBack
    BY <2>1, <2>2 DEF Voice!GiveBack
  <2> QED
    BY <2>3 DEF VoiceStep, Voice!Next
<1> QED
  BY <1>1, <1>5, <1>6, <1>7, <1>8

\* The step at which the assistant speaks: a run that still holds the chat is
\* about the oldest open question.
LEMMA FinishSpeaks ==
  ASSUME TypeOK, JobsBounded, RunsAgree, AnswersOldest, NEW w \in Workers, Finish(w)
  PROVE  VoiceStep
<1> DEFINE question == runs[w].job
<1>1. chat \in ChatRow /\ jobs \in Seq(JobRow)
  BY DEF TypeOK
<1>2. /\ question \in DOMAIN jobs
      /\ ~HasLease(w) => UNCHANGED OpenJobs
      /\ HasLease(w) /\ Overtaken(w) =>
           \/ UNCHANGED OpenJobs
           \/ question \in OpenJobs /\ OpenJobs' = OpenJobs \ {question}
      /\ HasLease(w) /\ ~Overtaken(w) => OpenJobs' = OpenJobs \ {question}
  BY FinishSettles
<1>3. question \in 1 .. MaxJobs
  BY <1>1, <1>2, Bounds DEF JobsBounded
<1>4. UNCHANGED chat.operator
  BY <1>1 DEF Finish, Unleased, ChatRow
<1>5. CASE ~HasLease(w)
  BY <1>2, <1>4, <1>5, KeepsQuiet DEF Finish
<1>6. CASE HasLease(w) /\ Overtaken(w)
  <2>1. UNCHANGED said
    BY <1>6 DEF Finish
  <2>2. CASE UNCHANGED OpenJobs
    BY <1>4, <2>1, <2>2, KeepsQuiet
  <2>3. CASE question \in OpenJobs /\ OpenJobs' = OpenJobs \ {question}
    <3>1. Voice!Drop(question)
      BY <1>4, <2>1, <2>3 DEF Voice!Drop
    <3> QED
      BY <1>3, <3>1 DEF VoiceStep, Voice!Next
  <2> QED
    BY <1>2, <1>6, <2>2, <2>3
<1>7. CASE HasLease(w) /\ ~Overtaken(w)
  <2>1. Oldest(question)
    BY <1>7 DEF AnswersOldest, Fenced, Overtaken, Finish
  <2>2. chat.operator = Nobody
    BY <1>7 DEF Overtaken, TypeOK
  <2>3. Voice!Say("assistant", question)
    BY <1>7 DEF Finish, Voice!Say, Line
  <2>4. Voice!Answer(question)
    BY <1>2, <1>4, <1>7, <2>1, <2>2, <2>3 DEF Oldest, Voice!Answer
  <2> QED
    BY <1>3, <2>4 DEF VoiceStep, Voice!Next
<1> QED
  BY <1>5, <1>6, <1>7

LEMMA WorkerSpeaks ==
  ASSUME TypeOK, JobsInv, NEW w \in Workers, WorkerStep(w)
  PROVE  VoiceStep
<1>1. chat \in ChatRow
  BY DEF TypeOK
<1>2. UNCHANGED jobs => UNCHANGED OpenJobs
  BY DEF OpenJobs
<1>3. CASE Start(w)
  <2>1. UNCHANGED <<chat.operator, OpenJobs>>
    BY <1>1, <1>3, StartQueues DEF Start, ChatRow, JobsInv
  <2> QED
    BY <1>3, <2>1, KeepsQuiet DEF Start
<1>4. CASE StartInVain(w)
  <2>1. UNCHANGED chat.operator
    BY <1>1, <1>4 DEF StartInVain, Unleased, ChatRow
  <2> QED
    BY <1>2, <1>4, <2>1, KeepsQuiet DEF StartInVain
<1>5. CASE CallTool(w)
  <2>1. /\ UNCHANGED OpenJobs
        /\ \/ UNCHANGED <<chat, said, requests, notices>>
           \/ \E channel \in Channels : CreateRequest(channel, runs[w].job, runs[w].calls + 1)
    BY <1>5, CallRecords DEF JobsInv
  <2>2. CASE UNCHANGED <<chat, said, requests, notices>>
    BY <2>1, <2>2, KeepsQuiet
  <2>3. ASSUME NEW channel \in Channels,
               CreateRequest(channel, runs[w].job, runs[w].calls + 1)
        PROVE  VoiceStep
    BY <2>1, <2>3, HandoffAnnounces DEF CreateRequest
  <2> QED
    BY <2>1, <2>2, <2>3
<1>6. CASE StopCalling(w)
  BY <1>2, <1>6, KeepsQuiet DEF StopCalling
<1>7. CASE Finish(w)
  BY <1>7, FinishSpeaks DEF JobsInv
<1>8. CASE Crash(w)
  BY <1>2, <1>8, KeepsQuiet DEF Crash
<1> QED
  BY <1>3, <1>4, <1>5, <1>6, <1>7, <1>8 DEF WorkerStep

\* Time and the delivery of notices say nothing in the chat.
LEMMA OthersKeepQuiet ==
  ASSUME TypeOK,
         \/ LeaseExpires
         \/ \E d \in Deliverers : DeliveryStep(d)
         \/ \E n \in DOMAIN notices : NoticeLeaseExpires(n)
  PROVE  VoiceStep
<1>1. chat \in ChatRow
  BY DEF TypeOK
<1>2. UNCHANGED jobs => UNCHANGED OpenJobs
  BY DEF OpenJobs
<1>3. CASE LeaseExpires
  <2>1. UNCHANGED chat.operator
    BY <1>1, <1>3 DEF LeaseExpires, ChatRow
  <2> QED
    BY <1>2, <1>3, <2>1, KeepsQuiet DEF LeaseExpires
<1>4. ASSUME NEW d \in Deliverers, DeliveryStep(d)
      PROVE  VoiceStep
  <2>1. UNCHANGED <<chat, said, jobs>>
    BY <1>4 DEF DeliveryStep, List, ClaimNotice, Send, FailToSend, Record, CrashDelivery
  <2> QED
    BY <1>2, <2>1, KeepsQuiet
<1>5. ASSUME NEW n \in DOMAIN notices, NoticeLeaseExpires(n)
      PROVE  VoiceStep
  BY <1>2, <1>5, KeepsQuiet DEF NoticeLeaseExpires
<1> QED
  BY <1>3, <1>4, <1>5

\* The chat speaks with one voice: whatever runs crash, overlap or lose their
\* lease, each step of the chat is a step of OneVoice or says nothing
\* (claim, process_conversation).
THEOREM OneVoiceOnly == Spec => SpeaksWithOneVoice
<1>1. Init => Voice!Init
  BY DEF Init, OpenJobs, Voice!Init
<1>2. IInv /\ [Next]_vars => VoiceStep
  <2> SUFFICES ASSUME IInv, [Next]_vars
               PROVE  VoiceStep
    OBVIOUS
  <2>1. TypeOK /\ JobsInv /\ JobsBounded
    BY DEF IInv, JobsInv
  <2>2. CASE CustomerStep
    BY <2>1, <2>2, CustomerSpeaks
  <2>3. CASE OperatorStep
    BY <2>1, <2>3, OperatorSpeaks
  <2>4. ASSUME NEW w \in Workers, WorkerStep(w)
        PROVE  VoiceStep
    BY <2>1, <2>4, WorkerSpeaks
  <2>5. CASE \/ LeaseExpires
             \/ \E d \in Deliverers : DeliveryStep(d)
             \/ \E n \in DOMAIN notices : NoticeLeaseExpires(n)
    BY <2>1, <2>5, OthersKeepQuiet
  <2>6. CASE UNCHANGED vars
    BY <2>6, KeepsQuiet DEF vars, OpenJobs
  <2> QED
    BY <2>2, <2>3, <2>4, <2>5, <2>6 DEF Next, WorkerStep, DeliveryStep
<1>3. Spec => Voice!Init /\ [][Voice!Next]_<<chat.operator, OpenJobs, said>>
  BY <1>1, <1>2, Invariance, PTL DEF Spec, VoiceStep
<1> QED
  BY <1>3 DEF SpeaksWithOneVoice, Voice!Spec
=============================================================================
