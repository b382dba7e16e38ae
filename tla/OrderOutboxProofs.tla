------------------------- MODULE OrderOutboxProofs -------------------------
(***************************************************************************)
(* What the order outbox and the reminders guarantee for any number of     *)
(* rows, queues and runs, any lease, any backoff, any loss of answers and  *)
(* any number of runs that die, proved with TLAPS.                         *)
(***************************************************************************)
EXTENDS OrderOutbox, Reminders, TLAPS

\* MAX_ATTEMPTS is one more than the number of retry delays.
LEMMA MaxAttemptsPositive == MaxAttempts \in Nat /\ MaxAttempts > 0
  BY OutboxAssumption DEF MaxAttempts

\* Arithmetic of the attempt bound, kept apart because it is not linear.
LEMMA ProductNat ==
  ASSUME NEW m \in Nat, NEW n \in Nat
  PROVE  /\ m * n \in Nat
         /\ m * (n + 1) = m * n + m
  OBVIOUS

\* An idle run holds a well-typed claim.
LEMMA NoClaimType == NoClaim \in Claims
  BY DEF NoClaim, Claims

\* A finished run holds nothing.
LEMMA FinishType ==
  ASSUME TypeOK, NEW w \in Workers, Finish(w)
  PROVE  phase' \in [Workers -> Phases] /\ claim' \in [Workers -> Claims]
  BY NoClaimType DEF TypeOK, Finish, Phases

\* Recording a result keeps the types of the row it settles.
LEMMA SettleType ==
  ASSUME TypeOK, NEW i, NEW st \in Statuses,
         status' = [status EXCEPT ![i] = st],
         lease' = [lease EXCEPT ![i] = 0],
         token' = [token EXCEPT ![i] = 0]
  PROVE  /\ status' \in [Ids -> Statuses]
         /\ lease' \in [Ids -> 0 .. LeaseDuration]
         /\ token' \in [Ids -> Nat]
<1>1. CASE i \in Ids
  BY <1>1, OutboxAssumption DEF TypeOK
<1>2. CASE i \notin Ids
  <2>1. status' = status /\ lease' = lease /\ token' = token
    BY <1>2 DEF TypeOK
  <2> QED BY <2>1 DEF TypeOK
<1> QED BY <1>1, <1>2

\* Remaining time stays a natural number, and never grows.
LEMMA ElapseType ==
  ASSUME NEW t \in [Ids -> Nat]
  PROVE  /\ Elapse(t) \in [Ids -> Nat]
         /\ \A i \in Ids : Elapse(t)[i] <= t[i]
  BY DEF Elapse

-----------------------------------------------------------------------------
\* Every step keeps the types.
LEMMA TypeInductive ==
  ASSUME TypeOK, [Next]_vars
  PROVE  TypeOK'
<1> USE OutboxAssumption, MaxAttemptsPositive
<1>1. ASSUME NEW q \in Queues, NEW i \in Ids, Enqueue(q, i) PROVE TypeOK'
  BY <1>1 DEF TypeOK, Enqueue, runVars, history, Statuses
<1>2. ASSUME NEW q \in Queues, NEW i \in Ids, NEW j \in Ids,
             EnqueueWithLocation(q, i, j)
      PROVE  TypeOK'
  BY <1>2 DEF TypeOK, EnqueueWithLocation, runVars, history, Statuses
<1>3. ASSUME NEW w \in Workers, NEW i \in Ids, Exhaust(w, i) PROVE TypeOK'
  BY <1>3 DEF TypeOK, Exhaust, runVars, history, Statuses
<1>4. ASSUME NEW w \in Workers, NEW i \in Ids, NEW lag \in 0 .. MaxLag,
             Claim(w, i, lag)
      PROVE  TypeOK'
  <2>1. attempts[i] + 1 \in 0 .. MaxAttempts /\ issued[i] + 1 \in Nat
    BY <1>4 DEF TypeOK, Claim, SendsLeft
  <2>2. (IF lag < LeaseDuration THEN LeaseDuration - lag ELSE 0)
          \in 0 .. LeaseDuration
    OBVIOUS
  <2>3. [id |-> i, attempts |-> attempts[i] + 1, token |-> issued[i] + 1]
          \in Claims
    BY <2>1 DEF Claims
  <2> QED BY <1>4, <2>1, <2>2, <2>3 DEF TypeOK, Claim, Statuses, Phases
<1>5. ASSUME NEW w \in Workers, Conclude(w) PROVE TypeOK'
  <2>1. CASE TelegramAccepts(w)
    <3>1. claim[w].token \in Nat
      BY DEF TypeOK, Claims
    <3> QED BY <2>1, <3>1 DEF TypeOK, TelegramAccepts, rowVars, Phases
  <2>2. CASE TelegramRefuses(w)
    BY <2>2 DEF TypeOK, TelegramRefuses, rowVars, history, Phases
  <2>3. CASE Suppress(w)
    BY <2>3 DEF TypeOK, Suppress, rowVars, history, Phases
  <2>4. CASE MarkSent(w)
    <3>1. phase' \in [Workers -> Phases] /\ claim' \in [Workers -> Claims]
      BY <2>4, FinishType DEF MarkSent
    <3>2. /\ status' \in [Ids -> Statuses]
          /\ lease' \in [Ids -> 0 .. LeaseDuration]
          /\ token' \in [Ids -> Nat]
      <4>1. CASE Owns(w)
        <5>1. /\ status' = [status EXCEPT ![claim[w].id] = "sent"]
              /\ lease' = [lease EXCEPT ![claim[w].id] = 0]
              /\ token' = [token EXCEPT ![claim[w].id] = 0]
          BY <2>4, <4>1 DEF MarkSent
        <5> QED BY <5>1, SettleType DEF Statuses
      <4>2. CASE ~Owns(w)
        BY <2>4, <4>2 DEF TypeOK, MarkSent
      <4> QED BY <4>1, <4>2
    <3> QED BY <2>4, <3>1, <3>2 DEF TypeOK, MarkSent, history
  <2>5. CASE MarkFailed(w)
    <3>1. phase' \in [Workers -> Phases] /\ claim' \in [Workers -> Claims]
      BY <2>5, FinishType DEF MarkFailed
    <3>2. /\ status' \in [Ids -> Statuses]
          /\ lease' \in [Ids -> 0 .. LeaseDuration]
          /\ token' \in [Ids -> Nat]
      <4>1. CASE Owns(w)
        <5>1. PICK st \in {"failed", "pending"} :
                /\ status' = [status EXCEPT ![claim[w].id] = st]
                /\ lease' = [lease EXCEPT ![claim[w].id] = 0]
                /\ token' = [token EXCEPT ![claim[w].id] = 0]
          BY <2>5, <4>1 DEF MarkFailed
        <5> QED BY <5>1, SettleType DEF Statuses
      <4>2. CASE ~Owns(w)
        BY <2>5, <4>2 DEF TypeOK, MarkFailed
      <4> QED BY <4>1, <4>2
    <3>3. wait' \in [Ids -> Nat]
      <4>1. \A k \in 1 .. Len(RetryDelays) : RetryDelays[k] \in Nat
        OBVIOUS
      <4>2. CASE Owns(w)
        <5>1. PICK d \in RetryAfters \cup {0} \cup
                        {RetryDelays[k] : k \in 1 .. Len(RetryDelays)} :
                wait' = [wait EXCEPT ![claim[w].id] = d]
          BY <2>5, <4>2 DEF MarkFailed
        <5>2. d \in Nat
          BY <4>1
        <5> QED BY <5>1, <5>2 DEF TypeOK
      <4>3. CASE ~Owns(w)
        BY <2>5, <4>3 DEF MarkFailed, TypeOK
      <4> QED BY <4>2, <4>3
    <3> QED BY <2>5, <3>1, <3>2, <3>3 DEF TypeOK, MarkFailed, history
  <2> QED BY <1>5, <2>1, <2>2, <2>3, <2>4, <2>5 DEF Conclude
<1>6. ASSUME NEW w \in Workers, Crash(w) PROVE TypeOK'
  BY <1>6, FinishType DEF TypeOK, Crash, rowVars, history
<1>7. ASSUME NEW i \in Ids, ManualRetry(i) PROVE TypeOK'
  BY <1>7 DEF TypeOK, ManualRetry, runVars, Statuses
<1>8. CASE Tick
  <2>1. Elapse(wait) \in [Ids -> Nat]
    BY ElapseType DEF TypeOK
  <2>2. Elapse(lease) \in [Ids -> 0 .. LeaseDuration]
    BY DEF TypeOK, Elapse
  <2> QED BY <1>8, <2>1, <2>2 DEF TypeOK, Tick, runVars, history
<1>9. CASE UNCHANGED vars
  BY <1>9 DEF TypeOK, vars, rowVars, runVars, history
<1> QED BY <1>1, <1>2, <1>3, <1>4, <1>5, <1>6, <1>7, <1>8, <1>9
        DEF Next, ClaimSome

\* Every variable keeps its type.
THEOREM TypeCorrect == Spec => []TypeOK
<1>1. Init => TypeOK
  BY OutboxAssumption, MaxAttemptsPositive, NoClaimType
     DEF Init, TypeOK, Statuses, Phases
<1> QED BY <1>1, TypeInductive, PTL DEF Spec

-----------------------------------------------------------------------------
\* New rows join at the end of their queue, so no leased row is behind them.
LEMMA EnqueueInv ==
  ASSUME IInv, NEW q \in Queues, NEW S \in SUBSET Ids, NewKeys(S, q),
         queue' = [k \in Ids |-> IF k \in S THEN q ELSE queue[k]],
         status' = [k \in Ids |-> IF k \in S THEN "pending" ELSE status[k]],
         NEW i \in Ids, NEW r, replyTo' = [replyTo EXCEPT ![i] = r],
         \/ r = replyTo[i]
         \/ i \in S /\ r \in S /\ r < i,
         UNCHANGED <<attempts, token, runVars, history>>,
         TypeOK'
  PROVE  IInv'
<1> USE DEF TypeOK, history, runVars
<1>0. \A k \in S : status[k] = "absent" /\ queue[k] = NoQueue /\ replyTo[k] = 0
                     /\ issued[k] = 0 /\ token[k] = 0
  BY DEF IInv, RowsAgree, NewKeys
<1>1. RowsAgree'
  BY <1>0 DEF IInv, RowsAgree
<1>2. RunsAgree' /\ TokensUnique'
  BY DEF IInv, RunsAgree, TokensUnique
<1>3. HeadOfLine'
  <2> SUFFICES ASSUME NEW a \in Ids, NEW b \in Ids, Earlier(b, a)',
                      issued[a] > 0 \/ status'[a] \in {"sending", "sent", "failed"}
               PROVE  status'[b] = "sent"
    BY DEF HeadOfLine
  <2>1. a \notin S
    BY <1>0
  <2>2. b \notin S
    BY <2>1 DEF Earlier, NewKeys, Ids
  <2> QED BY <2>1, <2>2 DEF IInv, HeadOfLine, Earlier
<1>4. SentUnderLatestLease'
  BY DEF IInv, SentUnderLatestLease
<1>5. LocationsFollow'
  <2> SUFFICES ASSUME NEW x \in Ids, replyTo'[x] # 0
               PROVE  /\ replyTo'[x] < x
                      /\ queue'[replyTo'[x]] = queue'[x]
                      /\ replyTo'[replyTo'[x]] = 0
    BY DEF LocationsFollow, IsLocation
  <2>1. CASE x \in S
    <3>1. x = i /\ replyTo'[x] = r /\ r \in S /\ r < i
      BY <2>1, <1>0
    <3>2. r # i
      BY <3>1, OutboxAssumption DEF Ids
    <3>3. replyTo'[r] = replyTo[r]
      BY <3>1, <3>2
    <3>4. replyTo[r] = 0 /\ queue'[r] = q /\ queue'[x] = q
      BY <3>1, <2>1, <1>0
    <3> QED BY <3>1, <3>3, <3>4
  <2>2. CASE x \notin S
    <3>0. \A k \in Ids \ S : replyTo'[k] = replyTo[k] /\ queue'[k] = queue[k]
      OBVIOUS
    <3>1. replyTo'[x] = replyTo[x] /\ replyTo[x] \in Ids
      BY <2>2, <3>0
    <3>2. /\ replyTo[x] < x
          /\ queue[replyTo[x]] = queue[x]
          /\ replyTo[replyTo[x]] = 0
      BY <3>1 DEF IInv, LocationsFollow, IsLocation
    <3>3. queue[x] # NoQueue
      BY <3>1, OutboxAssumption DEF IInv, RowsAgree
    <3>4. replyTo[x] \notin S
      BY <3>2, <3>3, <1>0
    <3> QED BY <2>2, <3>0, <3>1, <3>2, <3>4
  <2> QED BY <2>1, <2>2
<1>6. LeasesCounted'
  BY DEF IInv, LeasesCounted
<1> QED BY <1>1, <1>2, <1>3, <1>4, <1>5, <1>6 DEF IInv

\* Only a head is leased, under a token nobody holds.
LEMMA ClaimInv ==
  ASSUME IInv, NEW w \in Workers, NEW i \in Ids, NEW lag \in 0 .. MaxLag,
         Claim(w, i, lag), TypeOK'
  PROVE  IInv'
<1> USE DEF TypeOK, IInv
<1>1. /\ issued' = [issued EXCEPT ![i] = issued[i] + 1]
      /\ \A k \in Ids : issued[k] <= issued'[k]
      /\ issued'[i] > issued[i]
  BY DEF Claim
<1>0. /\ status' = [status EXCEPT ![i] = "sending"] /\ UNCHANGED queue
      /\ status[i] \in {"pending", "sending"}
  BY DEF Claim, Eligible
<1>2. RowsAgree'
  BY <1>1 DEF RowsAgree, Claim, Eligible
<1>3. RunsAgree'
  BY <1>1 DEF RunsAgree, Claim
<1>4. TokensUnique'
  BY DEF TokensUnique, RunsAgree, Claim
<1>5. HeadOfLine'
  <2> SUFFICES ASSUME NEW a \in Ids, NEW b \in Ids, Earlier(b, a)',
                      issued'[a] > 0 \/ status'[a] \in {"sending", "sent", "failed"}
               PROVE  status'[b] = "sent"
    BY DEF HeadOfLine
  <2>1. Earlier(b, a)
    BY <1>0 DEF Earlier
  <2>2. status[b] = "sent"
    BY <2>1, <1>1 DEF HeadOfLine, Claim, IsHead
  <2> QED BY <2>2 DEF Claim, Eligible
<1>6. SentUnderLatestLease'
  BY DEF SentUnderLatestLease, Claim, Eligible
<1>7. LocationsFollow'
  BY DEF LocationsFollow, IsLocation, Claim
<1>8. LeasesCounted'
  <2>1. \A k \in Ids : retries[k] \in Nat /\ MaxAttempts * retries[k] \in Nat
    <3> SUFFICES ASSUME NEW k \in Ids
                 PROVE  retries[k] \in Nat /\ MaxAttempts * retries[k] \in Nat
      OBVIOUS
    <3>1. retries[k] \in Nat
      BY OutboxAssumption
    <3> QED BY <3>1, MaxAttemptsPositive, ProductNat
  <2> QED BY <2>1 DEF LeasesCounted, Claim
<1> QED BY <1>2, <1>3, <1>4, <1>5, <1>6, <1>7, <1>8

\* What a run does on the network touches no row.
LEMMA NetworkInv ==
  ASSUME IInv, NEW w \in Workers,
         TelegramAccepts(w) \/ TelegramRefuses(w) \/ Suppress(w), TypeOK'
  PROVE  IInv'
<1> USE DEF TypeOK, IInv, TelegramAccepts, TelegramRefuses, Suppress, MaySend,
            rowVars, history
<1>1. /\ UNCHANGED <<rowVars, claim, issued, retries>>
      /\ phase[w] = "sending"
      /\ \A v \in Workers \ {w} : phase'[v] = phase[v]
      /\ \A i \in Ids : accepted[i] \subseteq accepted'[i]
  OBVIOUS
<1>2. \A i \in Ids : accepted'[i] \subseteq accepted[i] \cup
                       (IF i = claim[w].id THEN {claim[w].token} ELSE {})
  OBVIOUS
<1>3. RowsAgree'
  BY <1>1, <1>2 DEF RowsAgree, RunsAgree
<1>4. RunsAgree'
  <2>1. phase'[w] = "accepted" => claim[w].token \in accepted'[claim[w].id]
    BY DEF RunsAgree
  <2> QED BY <1>1, <2>1 DEF RunsAgree
<1>5. TokensUnique'
  BY <1>1 DEF TokensUnique
<1>6. HeadOfLine' /\ SentUnderLatestLease' /\ LocationsFollow' /\ LeasesCounted'
  BY <1>1 DEF HeadOfLine, Earlier, SentUnderLatestLease, LocationsFollow,
              IsLocation, LeasesCounted
<1> QED BY <1>3, <1>4, <1>5, <1>6

RunsOnlyFinish ==
  \A w \in Workers :
    phase'[w] = "idle" \/ (phase'[w] = phase[w] /\ claim'[w] = claim[w])

\* One row that was not sent yet is settled, or made pending again.
LEMMA SettleInv ==
  ASSUME IInv, NEW i \in Ids, NEW st \in {"pending", "failed", "sent"},
         status[i] \in {"pending", "sending", "failed"},
         status' = [status EXCEPT ![i] = st],
         token' = [token EXCEPT ![i] = 0],
         UNCHANGED <<queue, replyTo, issued, accepted>>,
         RunsOnlyFinish,
         st # "pending" => IsHead(i),
         st = "sent" => issued[i] \in accepted[i],
         LeasesCounted', TypeOK'
  PROVE  IInv'
<1> USE DEF TypeOK, IInv
<1>1. RowsAgree'
  BY DEF RowsAgree
<1>2. RunsAgree'
  BY DEF RunsAgree, RunsOnlyFinish
<1>3. TokensUnique'
  BY DEF TokensUnique, RunsOnlyFinish
<1>4. HeadOfLine'
  <2> SUFFICES ASSUME NEW a \in Ids, NEW b \in Ids, Earlier(b, a)',
                      issued[a] > 0 \/ status'[a] \in {"sending", "sent", "failed"}
               PROVE  status'[b] = "sent"
    BY DEF HeadOfLine
  <2>1. Earlier(b, a)
    BY DEF Earlier
  <2>2. status[b] = "sent"
    BY <2>1 DEF HeadOfLine, IsHead
  <2> QED BY <2>2
<1>5. SentUnderLatestLease'
  BY DEF SentUnderLatestLease
<1>6. LocationsFollow'
  BY DEF LocationsFollow, IsLocation
<1> QED BY <1>1, <1>2, <1>3, <1>4, <1>5, <1>6

\* A run that ends without settling a row, or time that passes.
LEMMA UnsettledInv ==
  ASSUME IInv, RunsOnlyFinish, TypeOK',
         UNCHANGED <<queue, replyTo, status, attempts, token, issued, accepted,
                     retries>>
  PROVE  IInv'
<1> USE DEF TypeOK, IInv
<1>1. RunsAgree' /\ TokensUnique'
  BY DEF RunsAgree, TokensUnique, RunsOnlyFinish
<1>2. RowsAgree' /\ HeadOfLine' /\ SentUnderLatestLease'
  BY DEF RowsAgree, HeadOfLine, Earlier, SentUnderLatestLease
<1>3. LocationsFollow' /\ LeasesCounted'
  BY DEF LocationsFollow, IsLocation, LeasesCounted
<1> QED BY <1>1, <1>2, <1>3

\* A run that ends leaves every other run as it was.
LEMMA FinishOnly ==
  ASSUME TypeOK, NEW w \in Workers, Finish(w)
  PROVE  RunsOnlyFinish
  BY DEF TypeOK, Finish, RunsOnlyFinish

\* The row of a run that still owns it is at the head of its queue.
LEMMA OwnedIsHead ==
  ASSUME IInv, NEW w \in Workers, phase[w] # "idle", Owns(w)
  PROVE  /\ claim[w].id \in Ids
         /\ status[claim[w].id] = "sending"
         /\ IsHead(claim[w].id)
         /\ claim[w].token = issued[claim[w].id]
  BY DEF IInv, RunsAgree, RowsAgree, Owns, HeadOfLine, IsHead

\* Recording a result, fenced by the lease token.
LEMMA MarkInv ==
  ASSUME IInv, NEW w \in Workers, MarkSent(w) \/ MarkFailed(w), TypeOK'
  PROVE  IInv'
<1>1. RunsOnlyFinish
  BY FinishOnly DEF IInv, MarkSent, MarkFailed
<1>2. UNCHANGED <<queue, replyTo, attempts, issued, accepted, retries>>
  BY DEF MarkSent, MarkFailed, history
<1>3. LeasesCounted'
  BY <1>2 DEF IInv, LeasesCounted
<1>4. CASE ~Owns(w)
  <2>1. UNCHANGED <<status, token>>
    BY <1>4 DEF MarkSent, MarkFailed
  <2> QED BY <1>1, <1>2, <2>1, UnsettledInv
<1>5. CASE Owns(w)
  <2>1. phase[w] # "idle"
    BY DEF MarkSent, MarkFailed
  <2>2. PICK st \in {"pending", "failed", "sent"} :
          /\ status' = [status EXCEPT ![claim[w].id] = st]
          /\ token' = [token EXCEPT ![claim[w].id] = 0]
          /\ st = "sent" => phase[w] = "accepted"
    <3>1. CASE MarkSent(w)
      BY <1>5, <3>1 DEF MarkSent
    <3>2. CASE MarkFailed(w)
      BY <1>5, <3>2 DEF MarkFailed
    <3> QED BY <3>1, <3>2
  <2>3. st = "sent" => issued[claim[w].id] \in accepted[claim[w].id]
    BY <1>5, <2>1, <2>2, OwnedIsHead DEF IInv, RunsAgree
  <2> QED BY <1>1, <1>2, <1>3, <1>5, <2>1, <2>2, <2>3, OwnedIsHead, SettleInv
<1> QED BY <1>4, <1>5

\* A row whose last lease ran out is given up at the head of its queue.
LEMMA ExhaustInv ==
  ASSUME IInv, NEW w \in Workers, NEW i \in Ids, Exhaust(w, i), TypeOK'
  PROVE  IInv'
<1>1. LeasesCounted' /\ RunsOnlyFinish
  BY DEF IInv, LeasesCounted, Exhaust, runVars, history, RunsOnlyFinish
<1>2. status[i] \in {"pending", "sending", "failed"} /\ IsHead(i)
  BY DEF Exhaust, Eligible
<1> QED BY <1>1, <1>2, SettleInv DEF Exhaust, history

\* A failed row is made pending with a fresh budget of attempts.
LEMMA ManualRetryInv ==
  ASSUME IInv, NEW i \in Ids, ManualRetry(i), TypeOK'
  PROVE  IInv'
<1>1. RunsOnlyFinish
  BY DEF ManualRetry, runVars, RunsOnlyFinish
<1>2. LeasesCounted'
  <2> SUFFICES ASSUME NEW k \in Ids
               PROVE  issued[k] <= MaxAttempts * retries'[k] + attempts'[k]
    BY DEF LeasesCounted, ManualRetry
  <2>1. issued[k] <= MaxAttempts * retries[k] + attempts[k]
    BY DEF IInv, LeasesCounted
  <2>2. CASE k = i
    <3>1. retries[i] \in Nat /\ issued[i] \in Nat /\ attempts[i] \in 0 .. MaxAttempts
      BY OutboxAssumption DEF IInv, TypeOK
    <3>2. retries'[i] = retries[i] + 1 /\ attempts'[i] = 0
      BY DEF IInv, TypeOK, ManualRetry
    <3>3. MaxAttempts * (retries[i] + 1) = MaxAttempts * retries[i] + MaxAttempts
          /\ MaxAttempts * retries[i] \in Nat
      BY <3>1, MaxAttemptsPositive, ProductNat
    <3>4. issued[i] <= MaxAttempts * (retries[i] + 1)
      BY <2>1, <2>2, <3>1, <3>3, MaxAttemptsPositive
    <3>5. MaxAttempts * (retries[i] + 1) \in Nat
      BY <3>1, MaxAttemptsPositive, ProductNat
    <3> QED BY <2>2, <3>2, <3>4, <3>5
  <2>3. CASE k # i
    BY <2>1, <2>3 DEF IInv, TypeOK, ManualRetry
  <2> QED BY <2>2, <2>3
<1>3. status[i] \in {"pending", "sending", "failed"}
  BY DEF ManualRetry
<1> QED BY <1>1, <1>2, <1>3, SettleInv DEF ManualRetry

-----------------------------------------------------------------------------
\* Every step of the outbox keeps the inductive invariant.
LEMMA Inductive ==
  ASSUME IInv, [Next]_vars
  PROVE  IInv'
<1>0. TypeOK'
  BY TypeInductive DEF IInv
<1>1. ASSUME NEW q \in Queues, NEW i \in Ids, Enqueue(q, i) PROVE IInv'
  <2>1. /\ queue' = [k \in Ids |-> IF k \in {i} THEN q ELSE queue[k]]
        /\ status' = [k \in Ids |-> IF k \in {i} THEN "pending" ELSE status[k]]
        /\ replyTo' = [replyTo EXCEPT ![i] = replyTo[i]]
    BY <1>1 DEF IInv, TypeOK, Enqueue
  <2>2. NewKeys({i}, q) /\ UNCHANGED <<attempts, token, runVars, history>>
    BY <1>1 DEF Enqueue
  <2> QED BY <1>0, <2>1, <2>2, EnqueueInv
<1>2. ASSUME NEW q \in Queues, NEW i \in Ids, NEW j \in Ids,
             EnqueueWithLocation(q, i, j)
      PROVE  IInv'
  <2> DEFINE S == {i, j}
  <2>1. /\ queue' = [k \in Ids |-> IF k \in S THEN q ELSE queue[k]]
        /\ status' = [k \in Ids |-> IF k \in S THEN "pending" ELSE status[k]]
        /\ replyTo' = [replyTo EXCEPT ![j] = i]
    BY <1>2 DEF IInv, TypeOK, EnqueueWithLocation
  <2>2. /\ NewKeys(S, q)
        /\ UNCHANGED <<attempts, token, runVars, history>>
    BY <1>2 DEF EnqueueWithLocation
  <2>3. S \in SUBSET Ids /\ j \in S /\ i \in S /\ i < j
    BY <1>2 DEF EnqueueWithLocation
  <2> HIDE DEF S
  <2> QED BY <1>0, <2>1, <2>2, <2>3, EnqueueInv
<1>3. ASSUME NEW w \in Workers, ClaimSome(w) PROVE IInv'
  BY <1>0, <1>3, ClaimInv, ExhaustInv DEF ClaimSome
<1>4. ASSUME NEW w \in Workers, Conclude(w) PROVE IInv'
  BY <1>0, <1>4, NetworkInv, MarkInv DEF Conclude
<1>5. ASSUME NEW w \in Workers, Crash(w) PROVE IInv'
  <2>1. RunsOnlyFinish
    BY <1>5, FinishOnly DEF Crash, IInv
  <2> QED BY <1>0, <1>5, <2>1, UnsettledInv DEF Crash, rowVars, history
<1>6. ASSUME NEW i \in Ids, ManualRetry(i) PROVE IInv'
  BY <1>0, <1>6, ManualRetryInv
<1>7. CASE Tick
  BY <1>0, <1>7, UnsettledInv DEF Tick, runVars, history, RunsOnlyFinish
<1>8. CASE UNCHANGED vars
  BY <1>0, <1>8, UnsettledInv DEF vars, rowVars, runVars, history, RunsOnlyFinish
<1> QED BY <1>1, <1>2, <1>3, <1>4, <1>5, <1>6, <1>7, <1>8 DEF Next

\* The columns of the rows, the claims in memory and the history of leases
\* agree in every reachable state.
THEOREM Invariance == Spec => []IInv
<1>1. Init => IInv
  <2> SUFFICES ASSUME Init PROVE IInv
    OBVIOUS
  <2>1. TypeOK
    BY OutboxAssumption, MaxAttemptsPositive, NoClaimType
       DEF Init, TypeOK, Statuses, Phases
  <2>2. RowsAgree /\ RunsAgree /\ TokensUnique
    BY DEF Init, RowsAgree, RunsAgree, TokensUnique
  <2>3. HeadOfLine /\ SentUnderLatestLease /\ LocationsFollow
    BY DEF Init, HeadOfLine, SentUnderLatestLease, LocationsFollow, IsLocation
  <2>4. LeasesCounted
    BY MaxAttemptsPositive DEF Init, LeasesCounted
  <2> QED BY <2>1, <2>2, <2>3, <2>4 DEF IInv
<1> QED BY <1>1, Inductive, PTL DEF Spec

-----------------------------------------------------------------------------
(* Nothing overtakes in a queue, with any number of overlapping runs.       *)
THEOREM NothingOvertakes == Spec => []HeadOfLine
  BY Invariance, PTL DEF IInv

\* A row whose lease was granted has only sent, so accepted, rows before it.
LEMMA FirstCopies ==
  ASSUME IInv
  PROVE  FirstCopiesInOrder
<1> SUFFICES ASSUME NEW i \in Ids, NEW j \in Ids, Earlier(j, i), accepted[i] # {}
             PROVE  accepted[j] # {}
  BY DEF FirstCopiesInOrder
<1>1. issued[i] > 0
  BY DEF IInv, RowsAgree, TypeOK
<1>2. status[j] = "sent"
  BY <1>1 DEF IInv, HeadOfLine
<1> QED BY <1>2 DEF IInv, SentUnderLatestLease

(* The recipient reads the events of an order in the order they happened.   *)
THEOREM ReadInOrder == Spec => []FirstCopiesInOrder
  BY Invariance, FirstCopies, PTL

(* "sent" always stands for a message Telegram took under the last lease.   *)
THEOREM SentIsTrue == Spec => []SentUnderLatestLease
  BY Invariance, PTL DEF IInv

\* The leases of a row are counted by its attempts and manual retries.
LEMMA AttemptBound ==
  ASSUME IInv
  PROVE  NoSixthSend
<1> SUFFICES ASSUME NEW i \in Ids
             PROVE  issued[i] <= MaxAttempts * (1 + retries[i])
  BY DEF NoSixthSend, IInv, RowsAgree
<1>1. /\ retries[i] \in Nat /\ issued[i] \in Nat
      /\ attempts[i] \in Nat /\ attempts[i] <= MaxAttempts
  BY OutboxAssumption, MaxAttemptsPositive DEF IInv, TypeOK
<1>2. MaxAttempts * (retries[i] + 1) = MaxAttempts * retries[i] + MaxAttempts
      /\ MaxAttempts * retries[i] \in Nat
  BY <1>1, MaxAttemptsPositive, ProductNat
<1>3. issued[i] <= MaxAttempts * retries[i] + attempts[i]
  BY DEF IInv, LeasesCounted
<1>4. 1 + retries[i] = retries[i] + 1
  BY <1>1
<1>5. issued[i] <= MaxAttempts * retries[i] + MaxAttempts
  BY <1>1, <1>2, <1>3, MaxAttemptsPositive
<1> QED BY <1>2, <1>4, <1>5

(* Crashes and expired leases never buy a row an extra send.                *)
THEOREM SendsBounded == Spec => []NoSixthSend
  BY Invariance, AttemptBound, PTL

\* Two owners in one queue would hold the same row under the same token.
LEMMA OneOwner ==
  ASSUME IInv
  PROVE  OneOwnerPerQueue
<1> SUFFICES ASSUME NEW v \in Workers, NEW w \in Workers,
                    phase[v] # "idle", Owns(v), phase[w] # "idle", Owns(w),
                    queue[claim[v].id] = queue[claim[w].id]
             PROVE  v = w
  BY DEF OneOwnerPerQueue
<1>1. /\ claim[v].id \in Ids /\ status[claim[v].id] = "sending" /\ IsHead(claim[v].id)
      /\ claim[w].id \in Ids /\ status[claim[w].id] = "sending" /\ IsHead(claim[w].id)
      /\ claim[v].token = issued[claim[v].id]
      /\ claim[w].token = issued[claim[w].id]
  BY OwnedIsHead
<1>2. claim[v].id = claim[w].id
  BY <1>1, OutboxAssumption DEF IsHead, Earlier, Ids
<1> QED BY <1>1, <1>2 DEF IInv, TokensUnique

(* Two overlapping runs never both decide about one queue.                  *)
THEOREM Exclusive == Spec => []OneOwnerPerQueue
  BY Invariance, OneOwner, PTL

\* A leased location is behind its message, which is therefore sent.
LEMMA LocationReady ==
  ASSUME IInv
  PROVE  LocationHasItsMessage
<1> SUFFICES ASSUME NEW w \in Workers, phase[w] = "sending",
                    IsLocation(claim[w].id)
             PROVE  ParentSent(claim[w].id)
  BY DEF LocationHasItsMessage
<1> DEFINE i == claim[w].id
<1>1. i \in Ids /\ issued[i] > 0
  BY DEF IInv, RunsAgree, TypeOK
<1>2. /\ replyTo[i] \in Ids /\ replyTo[i] < i
      /\ queue[replyTo[i]] = queue[i] /\ ~IsLocation(replyTo[i])
  BY <1>1 DEF IInv, LocationsFollow, IsLocation, TypeOK
<1>3. queue[i] # NoQueue
  BY <1>1, OutboxAssumption DEF IInv, RowsAgree
<1>4. Earlier(replyTo[i], i)
  BY <1>2, <1>3 DEF Earlier, IInv, RowsAgree
<1>5. status[replyTo[i]] = "sent"
  BY <1>1, <1>2, <1>4 DEF IInv, HeadOfLine
<1> QED BY <1>2, <1>5 DEF ParentSent

(* No pin is ever refused for want of the message it replies to.            *)
THEOREM PinFollowsMessage == Spec => []LocationHasItsMessage
  BY Invariance, LocationReady, PTL

-----------------------------------------------------------------------------
Seen == {i \in Ids : accepted[i] # {}}
Confirmed == {i \in Ids : status[i] = "sent"}

\* Every step of the outbox is a step of InOrderDelivery, or invisible.
LEMMA RefinementStep ==
  ASSUME IInv, [Next]_vars
  PROVE  [Promise!Next]_(Promise!vars)
<1>1. ASSUME NEW q \in Queues, NEW S \in SUBSET Ids, S # {}, NewKeys(S, q),
             queue' = [k \in Ids |-> IF k \in S THEN q ELSE queue[k]],
             status' = [k \in Ids |-> IF k \in S THEN "pending" ELSE status[k]],
             UNCHANGED accepted
      PROVE  Promise!Post(S, q)
  <2>1. \A k \in S : status[k] = "absent" /\ queue[k] = NoQueue
    BY <1>1 DEF NewKeys, IInv, RowsAgree
  <2>2. Seen' = Seen /\ Confirmed' = Confirmed
    BY <1>1, <2>1 DEF Seen, Confirmed
  <2> QED BY <1>1, <2>1, <2>2 DEF Promise!Post, NewKeys, Seen, Confirmed
<1>2. ASSUME NEW q \in Queues, NEW i \in Ids, Enqueue(q, i)
      PROVE  Promise!Post({i}, q)
  BY <1>1, <1>2 DEF Enqueue, history, IInv, TypeOK
<1>3. ASSUME NEW q \in Queues, NEW i \in Ids, NEW j \in Ids,
             EnqueueWithLocation(q, i, j)
      PROVE  Promise!Post({i, j}, q)
  BY <1>1, <1>3 DEF EnqueueWithLocation, history, IInv, TypeOK
<1>4. ASSUME NEW w \in Workers, TelegramAccepts(w), NEW i \in Ids, i = claim[w].id
      PROVE  Promise!See(i) \/ UNCHANGED Promise!vars
  <2>1. i \in Ids /\ issued[i] > 0
    BY <1>4 DEF TelegramAccepts, MaySend, IInv, RunsAgree, TypeOK
  <2>2. queue[i] # NoQueue
    BY <2>1, OutboxAssumption DEF IInv, RowsAgree
  <2>3. \A j \in Ids : j < i /\ queue[j] = queue[i] => status[j] = "sent"
    BY <2>1, <2>2 DEF IInv, HeadOfLine, Earlier, RowsAgree
  <2>4. accepted' = [accepted EXCEPT ![i] = @ \cup {claim[w].token}]
        /\ UNCHANGED <<queue, status>>
    BY <1>4 DEF TelegramAccepts, rowVars
  <2>5. Seen' = Seen \cup {i} /\ Confirmed' = Confirmed
    BY <2>1, <2>4 DEF Seen, Confirmed, IInv, TypeOK
  <2>6. CASE i \in Seen
    BY <2>4, <2>5, <2>6 DEF Promise!vars, Seen, Confirmed
  <2>7. CASE i \notin Seen
    BY <2>1, <2>2, <2>3, <2>4, <2>5, <2>7
       DEF Promise!See, Promise!Before, Seen, Confirmed
  <2> QED BY <2>6, <2>7
<1>5. ASSUME NEW w \in Workers, MarkSent(w), Owns(w), NEW i \in Ids, i = claim[w].id
      PROVE  Promise!Confirm(i)
  <2>1. /\ i \in Ids /\ status[i] = "sending" /\ IsHead(i)
        /\ claim[w].token = issued[i]
    BY <1>5, OwnedIsHead DEF MarkSent
  <2>2. i \in Seen
    BY <1>5, <2>1 DEF MarkSent, IInv, RunsAgree, Seen
  <2>3. \A j \in Ids : j < i /\ queue[j] = queue[i] => status[j] = "sent"
    BY <2>1, OutboxAssumption DEF IsHead, Earlier, IInv, RowsAgree
  <2>4. status' = [status EXCEPT ![i] = "sent"] /\ UNCHANGED <<queue, accepted>>
    BY <1>5 DEF MarkSent, history
  <2>5. Confirmed' = Confirmed \cup {i} /\ Seen' = Seen
    BY <2>1, <2>4 DEF Confirmed, Seen, IInv, TypeOK
  <2> QED BY <2>1, <2>2, <2>3, <2>4, <2>5
          DEF Promise!Confirm, Promise!Before, Seen, Confirmed
<1>6. ASSUME UNCHANGED <<queue, accepted>>,
             \A i \in Ids : (status[i] = "sent") <=> (status'[i] = "sent")
      PROVE  UNCHANGED Promise!vars
  <2>1. Seen' = Seen /\ Confirmed' = Confirmed
    BY <1>6 DEF Seen, Confirmed
  <2> QED BY <1>6, <2>1 DEF Promise!vars, Seen, Confirmed
<1>7. ASSUME NEW w \in Workers, NEW i \in Ids,
             Exhaust(w, i) \/ \E lag \in 0 .. MaxLag : Claim(w, i, lag)
      PROVE  UNCHANGED Promise!vars
  BY <1>6, <1>7 DEF Exhaust, Claim, Eligible, history, IInv, TypeOK
<1>8. ASSUME NEW w \in Workers,
             \/ TelegramRefuses(w) \/ Suppress(w) \/ Crash(w)
             \/ (MarkSent(w) \/ MarkFailed(w)) /\ ~Owns(w)
      PROVE  UNCHANGED Promise!vars
  BY <1>6, <1>8 DEF TelegramRefuses, Suppress, Crash, MarkSent, MarkFailed,
                    rowVars, history
<1>9. ASSUME NEW w \in Workers, MarkFailed(w), Owns(w)
      PROVE  UNCHANGED Promise!vars
  <2>1. claim[w].id \in Ids /\ status[claim[w].id] = "sending"
    BY <1>9, OwnedIsHead DEF MarkFailed
  <2>2. PICK st \in {"failed", "pending"} :
          status' = [status EXCEPT ![claim[w].id] = st]
    BY <1>9 DEF MarkFailed
  <2>3. UNCHANGED <<queue, accepted>>
    BY <1>9 DEF MarkFailed, history
  <2> QED BY <1>6, <2>1, <2>2, <2>3 DEF IInv, TypeOK
<1>10. ASSUME NEW i \in Ids, ManualRetry(i)
       PROVE  UNCHANGED Promise!vars
  BY <1>6, <1>10 DEF ManualRetry, IInv, TypeOK
<1>11. CASE Tick
  BY <1>6, <1>11 DEF Tick, history
<1>12. CASE UNCHANGED vars
  BY <1>6, <1>12 DEF vars, rowVars, history
<1> QED
  <2>1. ASSUME NEW w \in Workers, ClaimSome(w) \/ Conclude(w) \/ Crash(w)
        PROVE  [Promise!Next]_(Promise!vars)
    <3>1. CASE ClaimSome(w)
      BY <3>1, <1>7 DEF ClaimSome
    <3>2. CASE Conclude(w)
      <4>1. CASE TelegramAccepts(w)
        <5>1. claim[w].id \in Ids
          BY <4>1 DEF TelegramAccepts, MaySend, IInv, RunsAgree
        <5>2. PICK i \in Ids : i = claim[w].id
          BY <5>1
        <5>3. Promise!See(i) \/ UNCHANGED Promise!vars
          BY <4>1, <5>2, <1>4
        <5> QED BY <5>3 DEF Promise!Next
      <4>2. CASE MarkSent(w) /\ Owns(w)
        <5>1. claim[w].id \in Ids
          BY <4>2, OwnedIsHead DEF MarkSent
        <5>2. PICK i \in Ids : i = claim[w].id
          BY <5>1
        <5>3. Promise!Confirm(i)
          BY <4>2, <5>2, <1>5
        <5> QED BY <5>3 DEF Promise!Next
      <4>3. CASE MarkFailed(w) /\ Owns(w)
        BY <4>3, <1>9
      <4> QED BY <3>2, <4>1, <4>2, <4>3, <1>8 DEF Conclude
    <3>3. CASE Crash(w)
      BY <3>3, <1>8
    <3> QED BY <2>1, <3>1, <3>2, <3>3
  <2>2. ASSUME NEW q \in Queues, NEW i \in Ids,
               Enqueue(q, i) \/ \E j \in Ids : EnqueueWithLocation(q, i, j)
        PROVE  Promise!Next
    BY <2>2, <1>2, <1>3 DEF Promise!Next
  <2> QED BY <2>1, <2>2, <1>10, <1>11, <1>12 DEF Next

(* Leases, retries, crashes and stale runs are invisible to the recipient:  *)
(* the outbox implements in-order delivery.                                 *)
THEOREM Refinement == Spec => ImplementsInOrderDelivery
<1>1. Init => Promise!Init
  <2> SUFFICES ASSUME Init PROVE Promise!Init
    OBVIOUS
  <2>1. Seen = {} /\ Confirmed = {}
    BY DEF Init, Seen, Confirmed
  <2> QED BY <2>1 DEF Init, Promise!Init, Seen, Confirmed
<1> QED BY <1>1, RefinementStep, Invariance, PTL
        DEF Spec, Promise!Spec, ImplementsInOrderDelivery

-----------------------------------------------------------------------------
\* Action by action, who may take a row out of "sending".
LEMMA SettlingStep ==
  ASSUME IInv, [Next]_vars, NEW i \in Ids
  PROVE  /\ status[i] = "sent" => status'[i] = "sent" /\ token'[i] = token[i]
         /\ status[i] = "sending" /\ status'[i] # "sending" =>
              \/ lease[i] = 0
              \/ \E w \in Workers : claim[w].id = i /\ claim[w].token = token[i]
<1> USE DEF IInv, TypeOK
<1>1. ASSUME NEW q \in Queues, NEW k \in Ids,
             Enqueue(q, k) \/ \E j \in Ids : EnqueueWithLocation(q, k, j)
      PROVE  (status[i] = "absent" \/ status'[i] = status[i]) /\ UNCHANGED token
  BY <1>1 DEF Enqueue, EnqueueWithLocation, NewKeys
<1>2. ASSUME NEW w \in Workers, NEW k \in Ids,
             Exhaust(w, k) \/ \E lag \in 0 .. MaxLag : Claim(w, k, lag)
      PROVE  \/ status'[i] = status[i] /\ token'[i] = token[i]
             \/ status[i] = "pending"
             \/ status[i] = "sending" /\ lease[i] = 0
  BY <1>2 DEF Exhaust, Claim, Eligible
<1>3. ASSUME NEW w \in Workers, MarkSent(w) \/ MarkFailed(w), Owns(w)
      PROVE  \/ status'[i] = status[i] /\ token'[i] = token[i]
             \/ /\ status[i] = "sending"
                /\ claim[w].id = i /\ claim[w].token = token[i]
  <2>1. claim[w].id \in Ids /\ status[claim[w].id] = "sending"
    BY <1>3, OwnedIsHead DEF MarkSent, MarkFailed
  <2>2. PICK st \in {"sent", "failed", "pending"} :
          /\ status' = [status EXCEPT ![claim[w].id] = st]
          /\ token' = [token EXCEPT ![claim[w].id] = 0]
    BY <1>3 DEF MarkSent, MarkFailed
  <2> QED BY <1>3, <2>1, <2>2 DEF Owns
<1>4. ASSUME NEW w \in Workers,
             \/ TelegramAccepts(w) \/ TelegramRefuses(w) \/ Suppress(w) \/ Crash(w)
             \/ (MarkSent(w) \/ MarkFailed(w)) /\ ~Owns(w)
      PROVE  UNCHANGED <<status, token>>
  BY <1>4 DEF TelegramAccepts, TelegramRefuses, Suppress, Crash, MarkSent,
              MarkFailed, rowVars
<1>5. ASSUME NEW k \in Ids, ManualRetry(k)
      PROVE  \/ status'[i] = status[i] /\ token'[i] = token[i]
             \/ status[i] = "failed"
  BY <1>5 DEF ManualRetry
<1>6. CASE Tick \/ UNCHANGED vars
  BY <1>6 DEF Tick, vars, rowVars
<1> QED
  BY <1>1, <1>2, <1>3, <1>4, <1>5, <1>6 DEF Next, ClaimSome, Conclude

(* A sent row is final, and a leased row is settled by the holder of its    *)
(* lease unless the lease has run out.                                      *)
THEOREM OnlyTheOwnerSettles == Spec => SettledByOwner
<1>1. IInv /\ [Next]_vars =>
        [\A i \in Ids :
           /\ status[i] = "sent" => status'[i] = "sent" /\ token'[i] = token[i]
           /\ status[i] = "sending" /\ status'[i] # "sending" =>
                \/ lease[i] = 0
                \/ \E w \in Workers : claim[w].id = i /\ claim[w].token = token[i]]_vars
  BY SettlingStep
<1> QED BY <1>1, Invariance, PTL DEF Spec, SettledByOwner

-----------------------------------------------------------------------------
\* The reminders: records of a run.
RunRecords == [at : {"idle", "next"} \cup Orders, list : SUBSET Orders,
               left : SUBSET Admins, heard : BOOLEAN, events : SUBSET Orders]

\* The types that the argument needs.
RemindTypes ==
    /\ reminded \subseteq Orders
    /\ lock \subseteq Schedulers
    /\ worker \in [Schedulers -> RunRecords]
    /\ told \in [Orders -> [Admins -> Nat]]
    /\ errors \in Nat
    /\ deaths \in Nat

\* Whoever is under way holds the lock, alone; who is not has nothing at hand.
OneRun ==
    /\ \A w \in Schedulers : worker[w].at = "idle" => worker[w] = Idle
    /\ \A w \in Schedulers : worker[w].at # "idle" <=> w \in lock
    /\ \A v, w \in lock : v = w

\* What a run has still to reach was not reminded of before, nor by itself.
ListIsNew ==
    \A w \in Schedulers :
        /\ worker[w].list \cap (reminded \cup worker[w].events) = {}
        /\ worker[w].at \in Orders => worker[w].at \in worker[w].list

\* The run that is to record that order o was told to a.
ToldBy(w, o, a) ==
    \/ o \in worker[w].events
    \/ worker[w].at = o /\ worker[w].heard /\ a \notin worker[w].left

\* An administrator told once more than the failures explain was told by a
\* committed run, or by one that is about to record it.
RemindedOrRecorded ==
    \A o \in Orders \ reminded : \A a \in Admins :
        told[o][a] <= deaths + errors \/ \E w \in Schedulers : ToldBy(w, o, a)

RemindInv == RemindTypes /\ OneRun /\ ListIsNew /\ RepeatsCostAFailure /\ RemindedOrRecorded


LEMMA RemindInitially == RemindInit => RemindInv
<1> SUFFICES ASSUME RemindInit PROVE RemindInv
    OBVIOUS
<1>1. RemindTypes
    BY DEF RemindInit, RemindTypes, RunRecords, Idle
<1>2. OneRun /\ ListIsNew
    BY RemindersAssumption DEF RemindInit, OneRun, ListIsNew, Idle
<1>3. RepeatsCostAFailure /\ RemindedOrRecorded
    BY DEF RemindInit, RepeatsCostAFailure, RemindedOrRecorded
<1>4. QED
    BY <1>1, <1>2, <1>3 DEF RemindInv

\* While a run is under way all others are idle.
LEMMA OthersIdle ==
    ASSUME OneRun, NEW w \in Schedulers, worker[w].at # "idle",
           NEW v \in Schedulers, v # w
    PROVE  worker[v] = Idle
BY DEF OneRun

LEMMA StartRunKeeps ==
    ASSUME RemindInv, NEW w \in Schedulers, StartRun(w)
    PROVE  RemindInv'
<1> USE DEF RemindInv, StartRun, LockFree, ToRemind
<1>1. PICK run : run = [Idle EXCEPT !.at = "next", !.list = ToRemind]
    OBVIOUS
<1>2. /\ run.at = "next" /\ run.list = ToRemind /\ run.left = {} /\ run.heard = FALSE /\ run.events = {}
      /\ run = [at |-> "next", list |-> ToRemind, left |-> {}, heard |-> FALSE, events |-> {}]
    BY <1>1 DEF Idle
<1>3. \A v \in Schedulers : worker[v] = Idle
    BY DEF OneRun
<1>4. /\ worker' = [worker EXCEPT ![w] = run]
      /\ \A v \in Schedulers : worker'[v] = IF v = w THEN run ELSE Idle
    BY <1>1, <1>3 DEF RemindTypes
<1>5. RemindTypes'
  <2>1. run \in RunRecords
    BY <1>2 DEF RunRecords
  <2>2. QED
    BY <1>4, <2>1 DEF RemindTypes
<1>6. OneRun'
    BY <1>2, <1>4 DEF OneRun, Idle, RemindTypes
<1>7. ListIsNew'
  <2>1. Idle.list = {} /\ Idle.at \notin Orders /\ run.at \notin Orders
    BY <1>2, RemindersAssumption DEF Idle
  <2>2. run.list \cap (reminded' \cup run.events) = {}
    BY <1>2
  <2>3. QED
    BY <1>4, <2>1, <2>2 DEF ListIsNew
<1>8. RepeatsCostAFailure' /\ RemindedOrRecorded'
  <2>1. \A v \in Schedulers, o \in Orders, a \in Admins : ~ToldBy(v, o, a)
    BY <1>3, RemindersAssumption DEF ToldBy, Idle
  <2>2. QED
    BY <2>1 DEF RepeatsCostAFailure, RemindedOrRecorded, RemindTypes
<1>9. QED
    BY <1>5, <1>6, <1>7, <1>8

LEMMA TakeOrderKeeps ==
    ASSUME RemindInv, NEW w \in Schedulers, TakeOrder(w)
    PROVE  RemindInv'
<1> USE DEF RemindInv
<1>1. PICK o \in worker[w].list : worker' = [worker EXCEPT ![w] = [@ EXCEPT !.at = o, !.left = Admins, !.heard = FALSE]]
    BY DEF TakeOrder
<1>2. UNCHANGED <<order, blocked, reminded, lock, told, errors, deaths>> /\ worker[w].at = "next"
    BY DEF TakeOrder
<1>3. o \in Orders /\ o # "idle" /\ o # "next"
    BY RemindersAssumption DEF RemindTypes, RunRecords
<1>4. PICK run : run = [worker[w] EXCEPT !.at = o, !.left = Admins, !.heard = FALSE]
    OBVIOUS
<1>5. /\ run.at = o /\ run.list = worker[w].list /\ run.left = Admins /\ run.heard = FALSE
      /\ run.events = worker[w].events
      /\ run \in RunRecords
    BY <1>3, <1>4 DEF RemindTypes, RunRecords
<1>6. \A v \in Schedulers : worker'[v] = IF v = w THEN run ELSE worker[v]
    BY <1>1, <1>4 DEF RemindTypes
<1>7. RemindTypes'
    BY <1>1, <1>2, <1>4, <1>5 DEF RemindTypes
<1>8. OneRun'
    BY <1>2, <1>3, <1>5, <1>6 DEF OneRun
<1>9. ListIsNew'
    BY <1>2, <1>5, <1>6 DEF ListIsNew
<1>10. RepeatsCostAFailure' /\ RemindedOrRecorded'
  <2>1. \A v \in Schedulers, p \in Orders, a \in Admins : ToldBy(v, p, a) => ToldBy(v, p, a)'
    BY <1>2, <1>5, <1>6, RemindersAssumption DEF ToldBy
  <2>2. QED
    BY <1>2, <2>1 DEF RepeatsCostAFailure, RemindedOrRecorded, RemindTypes
<1>11. QED
    BY <1>7, <1>8, <1>9, <1>10

\* One administrator is dealt with, who was told at most once more, and counted
\* as told or as a failure.
LEMMA ToldOne ==
    ASSUME RemindInv, NEW w \in Schedulers, worker[w].at \in Orders,
           NEW a \in worker[w].left, NEW heard \in BOOLEAN,
           UNCHANGED <<order, blocked, reminded, lock, deaths>>,
           heard \in {worker[w].heard, TRUE},
           worker' = [worker EXCEPT ![w].left = @ \ {a}, ![w].heard = heard],
           told' \in {told, [told EXCEPT ![worker[w].at][a] = @ + 1]},
           errors' \in {errors, errors + 1},
           told' = told \/ heard \/ errors' = errors + 1
    PROVE  RemindInv'
<1> USE DEF RemindInv
<1>0. PICK o : o = worker[w].at
    OBVIOUS
<1>1. /\ o \in Orders /\ o # "idle" /\ o # "next" /\ a \in Admins
      /\ o \in worker[w].list /\ o \notin reminded /\ o \notin worker[w].events
    BY <1>0, RemindersAssumption DEF RemindTypes, RunRecords, ListIsNew
<1>2. PICK run : run = [worker[w] EXCEPT !.left = @ \ {a}, !.heard = heard]
    OBVIOUS
<1>3. /\ run.at = o /\ run.list = worker[w].list /\ run.left = worker[w].left \ {a}
      /\ run.heard = heard /\ run.events = worker[w].events
      /\ run \in RunRecords
  <2>1. worker[w] \in RunRecords
    BY DEF RemindTypes
  <2>2. QED
    BY <1>0, <1>2, <2>1 DEF RunRecords
<1>4. /\ worker' = [worker EXCEPT ![w] = run]
      /\ \A v \in Schedulers : worker'[v] = IF v = w THEN run ELSE worker[v]
    BY <1>2 DEF RemindTypes
<1>5. /\ told' \in [Orders -> [Admins -> Nat]]
      /\ errors' \in Nat
      /\ deaths' = deaths
      /\ \A p \in Orders, b \in Admins : (p # o \/ b # a) => told'[p][b] = told[p][b]
      /\ told'[o][a] \in {told[o][a], told[o][a] + 1}
      /\ told'[o][a] = told[o][a] \/ heard \/ errors' = errors + 1
      /\ errors' >= errors
  <2>1. /\ told \in [Orders -> [Admins -> Nat]] /\ errors \in Nat
        /\ told[o][a] \in Nat /\ told[o][a] + 1 \in Nat /\ errors + 1 \in Nat
    BY <1>1 DEF RemindTypes
  <2>2. CASE told' = told
    BY <1>1, <2>1, <2>2
  <2>3. CASE told' = [told EXCEPT ![o][a] = @ + 1]
    BY <1>1, <2>1, <2>3
  <2>4. QED
    BY <1>0, <2>2, <2>3
<1>6. RemindTypes'
    BY <1>3, <1>4, <1>5 DEF RemindTypes
<1>7. OneRun'
    BY <1>0, <1>1, <1>3, <1>4 DEF OneRun
<1>8. ListIsNew'
    BY <1>0, <1>3, <1>4 DEF ListIsNew
<1>9. told[o][a] <= deaths + errors
  <2>1. \A v \in Schedulers : ~ToldBy(v, o, a)
    BY <1>0, <1>1, OthersIdle DEF ToldBy, Idle
  <2>2. QED
    BY <1>1, <2>1 DEF RemindedOrRecorded
<1>10. RepeatsCostAFailure'
  <2>1. told'[o][a] <= 1 + deaths + errors'
    BY <1>1, <1>5, <1>9 DEF RemindTypes
  <2>2. \A p \in Orders, b \in Admins : told[p][b] \in Nat /\ told[p][b] <= 1 + deaths + errors
    BY DEF RemindTypes, RepeatsCostAFailure
  <2>3. QED
    BY <1>5, <2>1, <2>2 DEF RemindTypes, RepeatsCostAFailure
<1>11. RemindedOrRecorded'
  <2> SUFFICES ASSUME NEW p \in Orders \ reminded, NEW b \in Admins,
                      ~(told'[p][b] <= deaths + errors')
               PROVE  \E v \in Schedulers : ToldBy(v, p, b)'
    BY <1>5 DEF RemindedOrRecorded
  <2>1. CASE p = o /\ b = a
    <3>1. heard
      BY <1>1, <1>5, <1>9, <2>1 DEF RemindTypes
    <3>2. ToldBy(w, o, a)'
      BY <1>3, <1>4, <3>1 DEF ToldBy
    <3>3. QED
      BY <2>1, <3>2
  <2>2. CASE p # o \/ b # a
    <3>1. ~(told[p][b] <= deaths + errors)
      BY <1>5, <2>2 DEF RemindTypes
    <3>2. PICK v \in Schedulers : ToldBy(v, p, b)
      BY <3>1 DEF RemindedOrRecorded
    <3>3. ToldBy(v, p, b)'
      BY <1>0, <1>3, <1>4, <3>2 DEF ToldBy
    <3>4. QED
      BY <3>3
  <2>3. QED
    BY <2>1, <2>2
<1>12. QED
    BY <1>6, <1>7, <1>8, <1>10, <1>11

LEMMA TellKeeps ==
    ASSUME RemindInv, NEW w \in Schedulers, Tell(w)
    PROVE  RemindInv'
<1>1. worker[w].at \in Orders /\ UNCHANGED <<order, blocked, reminded, lock, deaths>>
    BY DEF Tell
<1>2. PICK a \in worker[w].left :
        \/ /\ worker' = [worker EXCEPT ![w].left = @ \ {a}]
           /\ UNCHANGED <<told, errors>>
        \/ /\ told' = [told EXCEPT ![worker[w].at][a] = @ + 1]
           /\ worker' = [worker EXCEPT ![w].left = @ \ {a}, ![w].heard = TRUE]
           /\ UNCHANGED errors
        \/ /\ errors' = errors + 1
           /\ worker' = [worker EXCEPT ![w].left = @ \ {a}]
           /\ told' \in {told, [told EXCEPT ![worker[w].at][a] = @ + 1]}
    BY DEF Tell
<1>3. worker[w].heard \in BOOLEAN
    BY DEF RemindInv, RemindTypes, RunRecords
<1>4. [worker EXCEPT ![w].left = @ \ {a}] = [worker EXCEPT ![w].left = @ \ {a}, ![w].heard = worker[w].heard]
  <2>1. worker[w] \in RunRecords
    BY DEF RemindInv, RemindTypes
  <2>2. [worker[w] EXCEPT !.left = @ \ {a}] = [worker[w] EXCEPT !.left = @ \ {a}, !.heard = worker[w].heard]
    BY <2>1 DEF RunRecords
  <2>3. QED
    BY <2>2 DEF RemindInv, RemindTypes
<1>5. CASE worker' = [worker EXCEPT ![w].left = @ \ {a}] /\ UNCHANGED <<told, errors>>
    BY <1>1, <1>3, <1>4, <1>5, ToldOne
<1>6. CASE /\ told' = [told EXCEPT ![worker[w].at][a] = @ + 1]
           /\ worker' = [worker EXCEPT ![w].left = @ \ {a}, ![w].heard = TRUE]
           /\ UNCHANGED errors
    BY <1>1, <1>6, ToldOne
<1>7. CASE /\ errors' = errors + 1
           /\ worker' = [worker EXCEPT ![w].left = @ \ {a}]
           /\ told' \in {told, [told EXCEPT ![worker[w].at][a] = @ + 1]}
    BY <1>1, <1>3, <1>4, <1>7, ToldOne
<1>8. QED
    BY <1>2, <1>5, <1>6, <1>7

LEMMA LogEventKeeps ==
    ASSUME RemindInv, NEW w \in Schedulers, LogEvent(w)
    PROVE  RemindInv'
<1> USE DEF RemindInv
<1> DEFINE o == worker[w].at
<1>1. /\ o \in Orders /\ o # "idle" /\ o # "next" /\ worker[w].left = {}
      /\ UNCHANGED <<order, blocked, reminded, lock, told, errors, deaths>>
    BY RemindersAssumption DEF LogEvent
<1>2. PICK run : run = [worker[w] EXCEPT !.at = "next", !.list = @ \ {o}, !.events = @ \cup Heard(w)]
    OBVIOUS
<1>3. /\ run.at = "next" /\ run.list = worker[w].list \ {o} /\ run.left = {} /\ run.heard = worker[w].heard
      /\ run.events = worker[w].events \cup Heard(w) /\ Heard(w) \subseteq {o}
      /\ run \in RunRecords
    BY <1>1, <1>2 DEF RemindTypes, RunRecords, Heard
<1>4. \A v \in Schedulers : worker'[v] = IF v = w THEN run ELSE worker[v]
    BY <1>2 DEF RemindTypes, LogEvent
<1>5. RemindTypes'
    BY <1>1, <1>3, <1>4 DEF RemindTypes, LogEvent
<1>6. OneRun'
    BY <1>1, <1>3, <1>4 DEF OneRun
<1>7. ListIsNew'
    BY <1>1, <1>3, <1>4, RemindersAssumption DEF ListIsNew
<1>8. \A v \in Schedulers, p \in Orders, a \in Admins : ToldBy(v, p, a) => ToldBy(v, p, a)'
    BY <1>1, <1>3, <1>4 DEF ToldBy, Heard
<1>9. QED
    BY <1>1, <1>5, <1>6, <1>7, <1>8 DEF RepeatsCostAFailure, RemindedOrRecorded

\* Committing, or dying at the cost of a failure.
LEMMA EndKeeps ==
    ASSUME RemindInv, NEW w \in Schedulers, worker[w].at # "idle",
           worker' = [worker EXCEPT ![w] = Idle], lock' = lock \ {w},
           UNCHANGED <<told, errors>>,
           \/ worker[w].at = "next" /\ reminded' = reminded \cup worker[w].events /\ deaths' = deaths
           \/ reminded' = reminded /\ deaths' = deaths + 1
    PROVE  RemindInv'
<1> USE DEF RemindInv
<1>1. \A v \in Schedulers : worker'[v] = Idle
    BY OthersIdle DEF RemindTypes
<1>2. RemindTypes'
  <2>1. Idle \in RunRecords
    BY DEF RunRecords, Idle
  <2>2. worker[w] \in RunRecords /\ worker[w].events \subseteq Orders
    BY DEF RemindTypes, RunRecords
  <2>3. QED
    BY <2>1, <2>2 DEF RemindTypes
<1>3. OneRun'
  <2>1. lock' = {}
    BY DEF OneRun, RemindTypes
  <2>2. QED
    BY <1>1, <2>1 DEF OneRun, Idle
<1>4. ListIsNew'
    BY <1>1, RemindersAssumption DEF ListIsNew, Idle
<1>5. RepeatsCostAFailure'
    BY DEF RepeatsCostAFailure, RemindTypes
<1>6. RemindedOrRecorded'
  <2> SUFFICES ASSUME NEW o \in Orders \ reminded', NEW a \in Admins
               PROVE  told[o][a] <= deaths' + errors
    BY DEF RemindedOrRecorded
  <2>1. CASE deaths' = deaths + 1
    BY <2>1 DEF RepeatsCostAFailure, RemindTypes
  <2>2. CASE worker[w].at = "next" /\ reminded' = reminded \cup worker[w].events /\ deaths' = deaths
    <3>1. \A v \in Schedulers : ~ToldBy(v, o, a)
      BY <2>2, OthersIdle, RemindersAssumption DEF ToldBy, Idle
    <3>2. QED
      BY <2>2, <3>1 DEF RemindedOrRecorded
  <2>3. QED
    BY <2>1, <2>2
<1>7. QED
    BY <1>2, <1>3, <1>4, <1>5, <1>6

LEMMA RemindConsecution == RemindInv /\ [RemindNext]_remindVars => RemindInv'
<1> SUFFICES ASSUME RemindInv, [RemindNext]_remindVars PROVE RemindInv'
    OBVIOUS
<1>1. ASSUME NEW w \in Schedulers, Run(w) PROVE RemindInv'
    BY <1>1, StartRunKeeps, TakeOrderKeeps, TellKeeps, LogEventKeeps, EndKeeps DEF Run, Commit
<1>2. ASSUME NEW w \in Schedulers, RunDies(w) PROVE RemindInv'
    BY <1>2, EndKeeps DEF RunDies
<1>3. ASSUME UNCHANGED <<reminded, lock, worker, told, errors, deaths>> PROVE RemindInv'
    BY <1>3 DEF RemindInv, RemindTypes, OneRun, ListIsNew, RepeatsCostAFailure, RemindedOrRecorded, ToldBy
<1>4. QED
    BY <1>1, <1>2, <1>3 DEF RemindNext, BecomesDue, Handle, Block, remindVars

\* Every state of the reminder job is one that RemindInv describes.
THEOREM RemindInvariance == RemindSpec => []RemindInv
BY RemindInitially, RemindConsecution, PTL DEF RemindSpec

\* An administrator is told of an order again only for a run that died or a
\* message that did not seem to arrive (_remind_unconfirmed_orders_impl).
THEOREM RemindersAreCounted == RemindSpec => []RepeatsCostAFailure
<1>1. RemindInv => RepeatsCostAFailure
    BY DEF RemindInv
<1>2. QED
    BY <1>1, RemindInvariance, PTL
=============================================================================
