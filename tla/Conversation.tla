---------------------------- MODULE Conversation ----------------------------
(***************************************************************************)
(* One customer's chat: the questions queued for the assistant, the worker *)
(* runs that answer them under a lease, the operator who may take the chat *)
(* over, the sales requests that bring him in, and the outbox of Telegram  *)
(* notices about all of it.                                                *)
(*                                                                         *)
(*   app/services/conversation_service.py     everything but               *)
(*   app/services/sales_request_service.py    create and resolve           *)
(*                                                                         *)
(* Every handler locks the conversation row and is one transaction, so one *)
(* action; a worker's run is several.  A lease token is a uuid4 drawn by a *)
(* run.  A worker has one run at a time and a new run overwrites the token *)
(* it finds, so the worker stands for the token of its latest run.         *)
(***************************************************************************)
EXTENDS Naturals, Sequences, FiniteSets

CONSTANTS
  Workers,        \* overlapping runs of process_conversation
  Deliverers,     \* overlapping runs of deliver_conversation_notifications
  Operators,      \* admins who may claim the chat
  Nobody,
  Channels,       \* of "web" and "telegram", those the customer uses
  PendingLimit,   \* conversation_pending_limit
  MaxJobs,        \* bound: jobs ever filed
  MaxGeneration,  \* bound: times the chat changes hands
  MaxRequests,    \* bound: sales requests
  MaxCalls,       \* bound: tool calls of one job
  MaxFaults       \* bound: crashes, lost answers, and leases that run out
                  \* on a run that is still at work

ASSUME ConversationAssumption ==
  /\ Nobody \notin Workers \cup Deliverers \cup Operators
  /\ Channels \subseteq {"web", "telegram"}
  /\ {PendingLimit, MaxJobs, MaxGeneration, MaxRequests, MaxCalls, MaxFaults} \subseteq Nat

VARIABLES
  chat,       \* the conversations row
  said,       \* conversation_messages in sequence: who, about which job
  jobs,       \* conversation_jobs, by id
  requests,   \* sales_requests, by id, and the tool call that made each
  notices,    \* conversation_notifications, by id
  runs,       \* what each process_conversation holds in memory
  delivery,   \* what each delivery run holds in memory
  faults      \* faults so far

vars == <<chat, said, jobs, requests, notices, runs, delivery, faults>>

Tools == {"read", "submit"}     \* submit_sales_request, and every other tool

Idle == [phase |-> "idle", job |-> 0, generation |-> 0, calls |-> 0, blocked |-> FALSE]
Resting == [todo |-> {}, notice |-> 0, accepted |-> FALSE]

Line(who, job) == [by |-> who, of |-> job]

Notice(kind, event) ==
  [kind |-> kind, event |-> event, holder |-> Nobody, expired |-> FALSE,
   sent |-> FALSE, retired |-> FALSE, copies |-> 0, lapses |-> 0]

ChatRow ==
  [status : {"ai", "waiting", "human"}, operator : Operators \cup {Nobody},
   generation : 0 .. MaxGeneration, channel : {"web", "telegram"},
   lease : Workers \cup {Nobody}, expired : BOOLEAN]
LineRow == [by : {"customer", "assistant", "operator", "system"}, of : 0 .. MaxJobs]
Receipt == [tool : Tools, made : BOOLEAN]
JobRow ==
  [status : {"pending", "running", "human", "cancelled", "completed"},
   channel : {"web", "telegram"}, receipts : Seq(Receipt)]
RequestRow == [by : 0 .. MaxJobs, call : 0 .. MaxCalls, open : BOOLEAN]
NoticeRow ==
  [kind : {"operator", "customer", "ai"}, event : Nat, holder : Deliverers \cup {Nobody},
   expired : BOOLEAN, sent : BOOLEAN, retired : BOOLEAN, copies : Nat, lapses : Nat]
RunRow ==
  [phase : {"idle", "calling", "answering"}, job : 0 .. MaxJobs,
   generation : 0 .. MaxGeneration, calls : 0 .. MaxCalls, blocked : BOOLEAN]
DeliveryRow == [todo : SUBSET Nat, notice : Nat, accepted : BOOLEAN]

\* An operator is named exactly while a human holds the chat.
TypeOK ==
  /\ chat.operator # Nobody <=> chat.status = "human"
  /\ chat \in ChatRow
  /\ said \in Seq(LineRow)
  /\ jobs \in Seq(JobRow)
  /\ requests \in Seq(RequestRow)
  /\ notices \in Seq(NoticeRow)
  /\ runs \in [Workers -> RunRow]
  /\ delivery \in [Deliverers -> DeliveryRow]
  /\ faults \in 0 .. MaxFaults

Init ==
  /\ chat = [status |-> "ai", operator |-> Nobody, generation |-> 0, channel |-> "web",
             lease |-> Nobody, expired |-> FALSE]
  /\ said = <<>>
  /\ jobs = <<>>
  /\ requests = <<>>
  /\ notices = <<>>
  /\ runs = [w \in Workers |-> Idle]
  /\ delivery = [d \in Deliverers |-> Resting]
  /\ faults = 0

OpenJobs == {j \in DOMAIN jobs : jobs[j].status \in {"pending", "running"}}
OldestOpen == CHOOSE j \in OpenJobs : \A other \in OpenJobs : j <= other

Unleased(row) == [row EXCEPT !.lease = Nobody, !.expired = FALSE]

\* The customer is told on Telegram if that is where they last wrote from.
CustomerNotice ==
  IF chat.channel = "telegram" THEN <<Notice("customer", Len(said) + 1)>> ELSE <<>>

Fault == faults < MaxFaults /\ faults' = faults + 1

-----------------------------------------------------------------------------
(* The customer                                                            *)

\* A request id that is known changes nothing; a full queue is refused.
Submit(channel) ==
  /\ Len(jobs) < MaxJobs
  /\ Cardinality(OpenJobs) < PendingLimit
  /\ chat' = [chat EXCEPT !.channel = channel]
  /\ said' = Append(said, Line("customer", Len(jobs) + 1))
  /\ jobs' = Append(jobs, [status |-> IF chat.status = "human" THEN "human" ELSE "pending",
                           channel |-> channel, receipts |-> <<>>])
  /\ UNCHANGED <<requests, notices, runs, delivery, faults>>

\* handoff: the admins are pinged once, and the assistant goes on.  The row
\* to each admin has the same event key.
Handoff(channel, lines) ==
  LET new == chat.status = "ai" IN
  /\ chat' = [chat EXCEPT !.channel = channel, !.status = IF new THEN "waiting" ELSE @]
  /\ said' = said \o (IF new THEN <<Line("system", 0)>> ELSE <<>>) \o lines
  /\ notices' = notices \o (IF new THEN <<Notice("operator", chat.generation)>> ELSE <<>>)

AskForOperator(channel) ==
  /\ Handoff(channel, <<>>)
  /\ UNCHANGED <<jobs, requests, runs, delivery, faults>>

\* The cart and the idempotency key of a request are Checkout's.
CreateRequest(channel, job, call) ==
  /\ Len(requests) < MaxRequests
  /\ requests' = Append(requests, [by |-> job, call |-> call, open |-> TRUE])
  /\ Handoff(channel, <<Line("customer", 0)>>)

SendRequest(channel) ==
  /\ CreateRequest(channel, 0, 0)
  /\ UNCHANGED <<jobs, runs, delivery, faults>>

HandedOver(status, operator) ==
  [Unleased(chat) EXCEPT !.status = status, !.operator = operator, !.generation = @ + 1]

\* From "waiting" and from "human".  Asked in "ai" it only notes the channel.
ResumeAi(channel) ==
  /\ IF chat.status = "ai"
       THEN /\ chat' = [chat EXCEPT !.channel = channel]
            /\ UNCHANGED said
       ELSE /\ chat.generation < MaxGeneration
            /\ chat' = [HandedOver("ai", Nobody) EXCEPT !.channel = channel]
            /\ said' = Append(said, Line("system", 0))
  /\ UNCHANGED <<jobs, requests, notices, runs, delivery, faults>>

-----------------------------------------------------------------------------
(* The operators                                                           *)

\* Assistant notices that wait are marked sent without being sent.  The kinds
\* "ai" and "checkout" are treated alike everywhere and are one kind here.
Retired(notice) ==
  IF notice.kind = "ai" /\ ~notice.sent
    THEN [notice EXCEPT !.sent = TRUE, !.retired = TRUE]
    ELSE notice

Claim(operator) ==
  /\ chat.status = "waiting"
  /\ chat.operator = Nobody
  /\ chat.generation < MaxGeneration
  /\ chat' = HandedOver("human", operator)
  /\ jobs' = [j \in DOMAIN jobs |->
                IF j \in OpenJobs THEN [jobs[j] EXCEPT !.status = "human"] ELSE jobs[j]]
  /\ notices' = [n \in DOMAIN notices |-> Retired(notices[n])] \o CustomerNotice
  /\ said' = Append(said, Line("system", 0))
  /\ UNCHANGED <<requests, runs, delivery, faults>>

Holds(operator) == chat.status = "human" /\ chat.operator = operator

\* A reply is filed as a completed job, so that a retry is recognised.
OperatorReply(operator) ==
  /\ Holds(operator)
  /\ Len(jobs) < MaxJobs
  /\ jobs' = Append(jobs, [status |-> "completed", channel |-> "web", receipts |-> <<>>])
  /\ said' = Append(said, Line("operator", 0))
  /\ notices' = notices \o CustomerNotice
  /\ UNCHANGED <<chat, requests, runs, delivery, faults>>

Resolve(operator, r) ==
  /\ Holds(operator)
  /\ requests[r].open
  /\ requests' = [requests EXCEPT ![r].open = FALSE]
  /\ said' = Append(said, Line("system", 0))
  /\ notices' = notices \o CustomerNotice
  /\ UNCHANGED <<chat, jobs, runs, delivery, faults>>

Close(operator) ==
  /\ Holds(operator)
  /\ ~ \E r \in DOMAIN requests : requests[r].open
  /\ chat.generation < MaxGeneration
  /\ chat' = [chat EXCEPT !.status = "ai", !.operator = Nobody, !.generation = @ + 1]
  /\ said' = Append(said, Line("system", 0))
  /\ notices' = notices \o CustomerNotice
  /\ UNCHANGED <<jobs, requests, runs, delivery, faults>>

-----------------------------------------------------------------------------
(* A run of process_conversation                                           *)

\* Mutant of Startable: the lease of a dead run is never taken over.
StartableIfUnleased == chat.status \in {"ai", "waiting"} /\ chat.lease = Nobody

Startable ==
  /\ chat.status \in {"ai", "waiting"}
  /\ chat.lease = Nobody \/ chat.expired

\* A clarification, a blocked customer or a missing model skip the agent.
Start(w) ==
  /\ runs[w].phase = "idle"
  /\ Startable
  /\ OpenJobs # {}
  /\ chat' = [chat EXCEPT !.lease = w, !.expired = FALSE]
  /\ jobs' = [jobs EXCEPT ![OldestOpen].status = "running"]
  /\ \E blocked \in BOOLEAN, phase \in {"calling", "answering"} :
       /\ blocked => phase = "answering"
       /\ runs' = [runs EXCEPT ![w] = [phase |-> phase, job |-> OldestOpen,
                     generation |-> chat.generation, calls |-> 0, blocked |-> blocked]]
  /\ UNCHANGED <<said, requests, notices, delivery, faults>>

StartInVain(w) ==
  /\ runs[w].phase = "idle"
  /\ Startable
  /\ OpenJobs = {}
  /\ chat' = Unleased(chat)
  /\ UNCHANGED <<said, jobs, requests, notices, runs, delivery, faults>>

\* Mutant of HasLease: a run trusts the lease it was granted.
HasLeaseOnceGranted(w) == runs[w].phase # "idle"

HasLease(w) == chat.lease = w

Fenced(w) ==
  /\ chat.status # "human"
  /\ chat.generation = runs[w].generation
  /\ HasLease(w)

\* Mutant of Repeated: the last receipt is overlooked.
RepeatedButTheLast(w) == runs[w].calls + 1 < Len(jobs[runs[w].job].receipts)

Repeated(w) == runs[w].calls < Len(jobs[runs[w].job].receipts)

\* The n-th call of a run repeats the n-th receipt of its job, if there is
\* one, and has its effect only if there is none.
CallTool(w) ==
  LET j == runs[w].job
      receipts == jobs[j].receipts
      call == runs[w].calls + 1
  IN
  /\ runs[w].phase = "calling"
  /\ Fenced(w)
  /\ call <= MaxCalls
  /\ runs' = [runs EXCEPT ![w].calls = call]
  /\ \E tool \in Tools, made \in BOOLEAN :
       IF Repeated(w)
         THEN /\ receipts[call] = [tool |-> tool, made |-> made]
              /\ UNCHANGED <<chat, said, jobs, requests, notices>>
         ELSE /\ jobs' = [jobs EXCEPT ![j].receipts = Append(@, [tool |-> tool, made |-> made])]
              /\ made => tool = "submit"
              /\ IF made
                   THEN \E channel \in Channels : CreateRequest(channel, j, call)
                   ELSE UNCHANGED <<chat, said, requests, notices>>
  /\ UNCHANGED <<delivery, faults>>

\* The model has answered, failed or timed out, a call has been refused by the
\* fence, or it differs from its receipt: the reply is there, or is made up
\* from the catalogue.
StopCalling(w) ==
  /\ runs[w].phase = "calling"
  /\ runs' = [runs EXCEPT ![w].phase = "answering"]
  /\ UNCHANGED <<chat, said, jobs, requests, notices, delivery, faults>>

Overtaken(w) ==
  \/ chat.status = "human"
  \/ chat.generation # runs[w].generation
  \/ runs[w].blocked

\* The third transaction: the answer, unless the run has lost its lease.
Finish(w) ==
  LET j == runs[w].job IN
  /\ runs[w].phase = "answering"
  /\ runs' = [runs EXCEPT ![w] = Idle]
  /\ IF ~HasLease(w)
       THEN UNCHANGED <<chat, said, jobs, notices>>
       ELSE /\ chat' = Unleased(chat)
            /\ IF Overtaken(w)
                 THEN /\ jobs' = [jobs EXCEPT ![j].status =
                                    IF @ = "running" THEN "cancelled" ELSE @]
                      /\ UNCHANGED <<said, notices>>
                 ELSE /\ jobs' = [jobs EXCEPT ![j].status = "completed"]
                      /\ said' = Append(said, Line("assistant", j))
                      /\ notices' = IF jobs[j].channel = "telegram"
                                      THEN Append(notices, Notice("ai", Len(said) + 1))
                                      ELSE notices
  /\ UNCHANGED <<requests, delivery, faults>>

Crash(w) ==
  /\ runs[w].phase # "idle"
  /\ Fault
  /\ runs' = [runs EXCEPT ![w] = Idle]
  /\ UNCHANGED <<chat, said, jobs, requests, notices, delivery>>

\* Time passes; a lease may outlive its run, or a run its lease.
LeaseExpires ==
  /\ chat.lease # Nobody
  /\ ~chat.expired
  /\ chat' = [chat EXCEPT !.expired = TRUE]
  /\ IF runs[chat.lease].phase = "idle" THEN UNCHANGED faults ELSE Fault
  /\ UNCHANGED <<said, jobs, requests, notices, runs, delivery>>

-----------------------------------------------------------------------------
(* A run of deliver_conversation_notifications                             *)

\* Mutant of Claimable: the lease of a dead run is never taken over.
ClaimableOnce(n) == ~notices[n].sent /\ notices[n].holder = Nobody

Claimable(n) == ~notices[n].sent /\ (notices[n].holder = Nobody \/ notices[n].expired)

List(d) ==
  /\ delivery[d] = Resting
  /\ delivery' = [delivery EXCEPT ![d].todo = {n \in DOMAIN notices : Claimable(n)}]
  /\ delivery'[d] # Resting
  /\ UNCHANGED <<chat, said, jobs, requests, notices, runs, faults>>

\* The run compares leases with the clock it read before it listed, and dates
\* its own from then: a claim late in a long run may be born expired, which is
\* NoticeLeaseExpires at once.
ClaimNotice(d) ==
  LET n == CHOOSE n \in delivery[d].todo : \A other \in delivery[d].todo : n <= other
      left == delivery[d].todo \ {n}
  IN
  /\ delivery[d].notice = 0
  /\ delivery[d].todo # {}
  /\ IF Claimable(n)
       THEN /\ notices' = [notices EXCEPT ![n].holder = d, ![n].expired = FALSE]
            /\ delivery' = [delivery EXCEPT ![d] =
                              [todo |-> left, notice |-> n, accepted |-> FALSE]]
       ELSE /\ delivery' = [delivery EXCEPT ![d].todo = left]
            /\ UNCHANGED notices
  /\ UNCHANGED <<chat, said, jobs, requests, runs, faults>>

Sending(d) == delivery[d].notice # 0 /\ ~delivery[d].accepted
Accepted(d) == delivery[d].accepted

Send(d) ==
  /\ Sending(d)
  /\ notices' = [notices EXCEPT ![delivery[d].notice].copies = @ + 1]
  /\ delivery' = [delivery EXCEPT ![d].accepted = TRUE]
  /\ UNCHANGED <<chat, said, jobs, requests, runs, faults>>

\* Telegram reports an error, perhaps of a message it has accepted.
FailToSend(d) ==
  /\ Sending(d)
  /\ Fault
  /\ \E copy \in {0, 1} :
       notices' = [notices EXCEPT ![delivery[d].notice].copies = @ + copy]
  /\ delivery' = [delivery EXCEPT ![d].notice = 0]
  /\ UNCHANGED <<chat, said, jobs, requests, runs>>

Record(d) ==
  LET n == delivery[d].notice IN
  /\ Accepted(d)
  /\ delivery' = [delivery EXCEPT ![d].notice = 0, ![d].accepted = FALSE]
  /\ notices' = IF notices[n].holder = d
                  THEN [notices EXCEPT ![n].sent = TRUE, ![n].holder = Nobody,
                                       ![n].expired = FALSE]
                  ELSE notices
  /\ UNCHANGED <<chat, said, jobs, requests, runs, faults>>

CrashDelivery(d) ==
  /\ delivery[d] # Resting
  /\ Fault
  /\ delivery' = [delivery EXCEPT ![d] = Resting]
  /\ UNCHANGED <<chat, said, jobs, requests, notices, runs>>

NoticeLeaseExpires(n) ==
  /\ notices[n].holder # Nobody
  /\ ~notices[n].expired
  /\ notices' = [notices EXCEPT ![n].expired = TRUE, ![n].lapses = @ + 1]
  /\ IF delivery[notices[n].holder].notice = n THEN Fault ELSE UNCHANGED faults
  /\ UNCHANGED <<chat, said, jobs, requests, runs, delivery>>

-----------------------------------------------------------------------------
CustomerStep ==
  \E channel \in Channels :
    Submit(channel) \/ AskForOperator(channel) \/ SendRequest(channel) \/ ResumeAi(channel)

OperatorStep ==
  \E operator \in Operators :
    \/ Claim(operator)
    \/ OperatorReply(operator)
    \/ \E r \in DOMAIN requests : Resolve(operator, r)
    \/ Close(operator)

Next ==
  \/ CustomerStep
  \/ OperatorStep
  \/ \E w \in Workers :
       Start(w) \/ StartInVain(w) \/ CallTool(w) \/ StopCalling(w) \/ Finish(w) \/ Crash(w)
  \/ LeaseExpires
  \/ \E d \in Deliverers :
       \/ List(d)
       \/ ClaimNotice(d)
       \/ Send(d)
       \/ FailToSend(d)
       \/ Record(d)
       \/ CrashDelivery(d)
  \/ \E n \in DOMAIN notices : NoticeLeaseExpires(n)

Spec == Init /\ [][Next]_vars

NoticeIds == 1 .. 2 * MaxGeneration + 1 + MaxJobs + MaxRequests

\* The cron starts both jobs every five seconds; a model call is cut off after
\* conversation_job_timeout_seconds and Telegram's calls return; time passes.
Fairness ==
  /\ \A w \in Workers : WF_vars(Start(w)) /\ WF_vars(StopCalling(w)) /\ WF_vars(Finish(w))
  /\ WF_vars(LeaseExpires)
  /\ \A d \in Deliverers :
       WF_vars(List(d)) /\ WF_vars(ClaimNotice(d)) /\ WF_vars(Send(d)) /\ WF_vars(Record(d))
  /\ \A n \in NoticeIds : WF_vars(n \in DOMAIN notices /\ NoticeLeaseExpires(n))

FairSpec == Spec /\ Fairness

-----------------------------------------------------------------------------
(* Properties                                                              *)

\* The transcript is what OneVoice allows: runs that lost their lease, were
\* overtaken by an operator, crashed or were started again answer nothing
\* twice, out of turn, or over an operator (claim, process_conversation).
Voice == INSTANCE OneVoice WITH
  Assistant <- Nobody, Questions <- 1 .. MaxJobs, speaker <- chat.operator, open <- OpenJobs
SpeaksWithOneVoice == Voice!Spec

\* However often and by whomever a job is run again, one tool call of it makes
\* one sales request at most (DurableTools.run, the receipts in tool_results).
ToolsActOnce ==
  \A q, r \in DOMAIN requests :
    requests[q].by = requests[r].by /\ requests[q].call = requests[r].call
      => q = r \/ requests[r].by = 0

\* No handoff is refused by the unique event key of its own notice: a chat
\* that changes hands does so under a new generation (handoff, uq event_key).
HandoffNoticesUnique ==
  \A m, n \in DOMAIN notices :
    notices[m].kind = "operator" /\ notices[n].kind = "operator"
      /\ notices[m].event = notices[n].event => m = n

\* A notice is given up as sent only when Telegram has taken it, or an
\* operator's arrival has retired it (deliver_conversation_notifications).
SentMeansDelivered ==
  \A n \in DOMAIN notices : notices[n].sent => notices[n].copies > 0 \/ notices[n].retired

\* A customer reads a notice twice only if a lease on it has run out in
\* between: each further copy costs one.
CopiesCostLapses ==
  \A n \in DOMAIN notices : notices[n].copies <= notices[n].lapses + 1

\* Each question is in the end answered, or an operator's, or dropped with
\* its blocked customer, whatever workers crash.
EveryQuestionSettles ==
  \A j \in 1 .. MaxJobs :
    (j \in DOMAIN jobs /\ j \in OpenJobs) ~> (j \in DOMAIN jobs /\ j \notin OpenJobs)

\* Each notice is in the end sent or retired.
EveryNoticeLeaves ==
  \A n \in NoticeIds :
    n \in DOMAIN notices ~> (n \in DOMAIN notices /\ notices[n].sent)

\* "A conversation cannot return to AI while any request is open."
\* (docs/GUIDED_SALES_RELEASE.md:19)
RequestsHoldTheConversation ==
  [][(chat.status # "ai" /\ chat'.status = "ai")
       => ~ \E r \in DOMAIN requests : requests[r].open]_vars

=============================================================================
