---------------------------- MODULE ClientProofs ----------------------------
(***************************************************************************)
(* Proofs about ResilientClient, for any numbers of workers, entries,      *)
(* direct batches and closers and any limits.  What Queue and Retry        *)
(* promise is imported (QP, RP): every step of the client is a step of     *)
(* theirs, so their invariants are part of TypeInv.  Then: the workers     *)
(* stand by until Close, the key outlives them, every entry has one owner, *)
(* the statistics are exact, and the client implements Ledger.             *)
(***************************************************************************)
EXTENDS ResilientClient, SequenceTheorems, FiniteSetTheorems, TLAPS

-----------------------------------------------------------------------------
(* What is proved of Queue and of Retry, for the queue and the retryer of  *)
(* the client.                                                             *)

QP == INSTANCE QueueProofs WITH
        Consumers <- Workers, MaxSize <- QueueSize,
        closed <- queueClosed, pc <- dequeuePc
RP == INSTANCE RetryProofs WITH Callers <- Senders

LEMMA QueueAssumed == QP!QueueAssumption
  BY ClientAssumption DEF QP!QueueAssumption, ClientAssumption, AllEntries

LEMMA RetryAssumed == RP!RetryAssumption
  BY ClientAssumption DEF RP!RetryAssumption, ClientAssumption

\* Q names the module the client is built from, QP the module with its proofs;
\* they define the same steps.
LEMMA SameQueue ==
  /\ Q!QueueInit <=> QP!QueueInit
  /\ [Q!QueueNext]_(Q!queueVars) => [QP!QueueNext]_(QP!queueVars)
  /\ Q!QueueTypeOK <=> QP!QueueTypeOK
  /\ Q!QueueTypeOK' <=> QP!QueueTypeOK'
<1>1. /\ Q!QueueInit <=> QP!QueueInit
      /\ Q!queueVars = QP!queueVars
      /\ Q!queueVars' = QP!queueVars'
      /\ Q!QueueTypeOK <=> QP!QueueTypeOK
      /\ Q!QueueTypeOK' <=> QP!QueueTypeOK'
  BY DEF Q!QueueInit, QP!QueueInit, Q!queueVars, QP!queueVars,
     Q!QueueTypeOK, QP!QueueTypeOK, Q!Positions, QP!Positions
<1>2. Q!QueueNext => QP!QueueNext
  <2> USE DEF Q!Goto, QP!Goto, Q!ReturnNil, QP!ReturnNil, Q!Parked, QP!Parked,
      Q!WakeAll, QP!WakeAll, Q!BatchSizeFor, QP!BatchSizeFor
  <2>1. \A e : Q!Enqueue(e) => QP!Enqueue(e)
    BY DEF Q!Enqueue, QP!Enqueue, Q!Accepts, QP!Accepts, Q!Signal, QP!Signal
  <2>2. \A n : Q!DequeueBatch(n) => QP!DequeueBatch(n)
    BY DEF Q!DequeueBatch, QP!DequeueBatch
  <2>3. (Q!Clear => QP!Clear) /\ (Q!Close => QP!Close) /\ (Q!Cancel => QP!Cancel)
    BY DEF Q!Clear, QP!Clear, Q!Close, QP!Close, Q!Cancel, QP!Cancel
  <2>4. \A c : (Q!Call(c) => QP!Call(c)) /\ (Q!Return(c) => QP!Return(c))
    BY DEF Q!Call, QP!Call, Q!Return, QP!Return
  <2>5. \A c : Q!DequeueStep(c) => QP!DequeueStep(c)
    BY DEF Q!DequeueStep, QP!DequeueStep, Q!TakeHead, QP!TakeHead,
       Q!FoundEmpty, QP!FoundEmpty, Q!ClosedCheck, QP!ClosedCheck,
       Q!SelectCtxDone, QP!SelectCtxDone, Q!SelectClosed, QP!SelectClosed,
       Q!SelectNotEmpty, QP!SelectNotEmpty, Q!SelectPark, QP!SelectPark,
       Q!DrainedNil, QP!DrainedNil
  <2> QED
    BY <2>1, <2>2, <2>3, <2>4, <2>5 DEF Q!QueueNext, QP!QueueNext
<1> QED
  BY <1>1, <1>2

LEMMA SameRetryer ==
  /\ R!RetryInit <=> RP!RetryInit
  /\ [R!RetryNext]_(R!retryVars) => [RP!RetryNext]_(RP!retryVars)
  /\ R!RetryTypeOK <=> RP!RetryTypeOK
  /\ R!RetryTypeOK' <=> RP!RetryTypeOK'
<1> USE DEF R!RetryPositions, RP!RetryPositions, R!Outcomes, RP!Outcomes, R!Errors,
    RP!Errors, R!Counted, RP!Counted, R!Final, RP!Final, R!RateLimited, RP!RateLimited
<1>1. /\ R!RetryInit <=> RP!RetryInit
      /\ R!retryVars = RP!retryVars
      /\ R!retryVars' = RP!retryVars'
      /\ R!RetryTypeOK <=> RP!RetryTypeOK
      /\ R!RetryTypeOK' <=> RP!RetryTypeOK'
  BY DEF R!RetryInit, RP!RetryInit, R!retryVars, RP!retryVars, R!callVars,
     RP!callVars, R!RetryTypeOK, RP!RetryTypeOK
<1>2. R!RetryNext => RP!RetryNext
  <2> USE DEF R!Move, RP!Move, R!Finish, RP!Finish, R!At, RP!At, R!sharedVars,
      RP!sharedVars, R!Saturate, RP!Saturate
  <2>1. \A c : R!CallFn(c) => RP!CallFn(c)
    BY DEF R!CallFn, RP!CallFn
  <2>2. \A c : (R!Begin(c) => RP!Begin(c)) /\ (R!Collect(c) => RP!Collect(c))
    BY DEF R!Begin, RP!Begin, R!Collect, RP!Collect
  <2>3. \A c : R!Top(c) => RP!Top(c)
    BY <2>1 DEF R!Top, RP!Top, R!OverBudget, RP!OverBudget,
       R!GiveUpAtTop, RP!GiveUpAtTop, R!StartProbing,
       RP!StartProbing
  <2>4. \A c : R!FnReturns(c) => RP!FnReturns(c)
    BY DEF R!FnReturns, RP!FnReturns, R!FnSucceeds, RP!FnSucceeds,
       R!FnRateLimited, RP!FnRateLimited, R!Answers, RP!Answers,
       R!FnFailsForGood, RP!FnFailsForGood, R!FnFailsRetryably, RP!FnFailsRetryably,
       R!FailureCap, RP!FailureCap
  <2>5. \A c : /\ R!WaitCancelled(c) => RP!WaitCancelled(c)
               /\ R!RateWaitElapsed(c) => RP!RateWaitElapsed(c)
               /\ R!BackoffElapsed(c) => RP!BackoffElapsed(c)
    BY DEF R!WaitCancelled, RP!WaitCancelled, R!RateWaitElapsed, RP!RateWaitElapsed,
       R!BackoffElapsed, RP!BackoffElapsed
  <2>6. \A c : R!Probing(c) => RP!Probing(c)
    BY <2>1 DEF R!Probing, RP!Probing, R!ProbingOver, RP!ProbingOver,
       R!ProbeSucceeds, RP!ProbeSucceeds, R!ProbeFails, RP!ProbeFails,
       R!ProbeWaitElapsed, RP!ProbeWaitElapsed, R!ProbeWaitCancelled,
       RP!ProbeWaitCancelled
  <2>7. /\ R!CancelContext => RP!CancelContext
        /\ \A enabled : R!EnableResilientMode(enabled) => RP!EnableResilientMode(enabled)
        /\ R!SetHealthCheckURL => RP!SetHealthCheckURL
    BY DEF R!CancelContext, RP!CancelContext, R!EnableResilientMode,
       RP!EnableResilientMode, R!SetHealthCheckURL, RP!SetHealthCheckURL,
       R!callVars, RP!callVars
  <2> QED
    BY <2>2, <2>3, <2>4, <2>5, <2>6, <2>7
       DEF R!RetryNext, RP!RetryNext, R!RetryStep, RP!RetryStep
<1> QED
  BY <1>1, <1>2

-----------------------------------------------------------------------------
(* The client's steps as steps of its queue and its retryer.               *)

\* What a goroutine has in its hands, by where it is.
HandsInv ==
  /\ \A w \in Workers :
       /\ batch[w] \in Seq(Entries)
       /\ wpc[w] \in {"loop", "pausing", "exit"} => batch[w] = <<>>
       /\ wpc[w] \in {"requeueing", "filling"} => Len(batch[w]) = 1
       /\ rpc[w] # "idle" => wpc[w] = "sending"
  /\ \A b \in Batches :
       /\ batch[b] \in Seq(ToSet(BatchOf[b]))
       /\ bpc[b] # "sending" => batch[b] = <<>>
       /\ rpc[b] # "idle" => bpc[b] = "sending"

\* Only a DequeueWithContext that has returned has something to hand over.
TakenInv == \A w \in Workers : dequeuePc[w] # "returned" => taken[w] = None

\* The invariants of the queue and of the retryer come with their proofs.
TypeInv == ClientTypeOK /\ HandsInv /\ TakenInv /\ QP!QueueInv /\ RP!RetryInv

LEMMA StepOfRetry == [ClientNext]_clientVars => [R!RetryNext]_(R!retryVars)
<1> SUFFICES ASSUME [ClientNext]_clientVars PROVE [R!RetryNext]_(R!retryVars)
  OBVIOUS
<1> DEFINE Same == UNCHANGED R!retryVars
<1> DEFINE Step(c) == R!Begin(c) \/ R!RetryStep(c) \/ R!Collect(c)
<1> USE DEF R!retryVars, R!callVars, loopVars
<1>1. ASSUME NEW e \in Entries, CheckOpen(e) \/ Sending(e) PROVE Same
  BY <1>1 DEF CheckOpen, Sending, DropAtAdmission, Admit, EnqueueAccepted,
     EnqueueRefused, CountQueued, producerOnly, lifeVars, Q!Enqueue
<1>2. ASSUME NEW c \in Senders, RetryLoop(c) \/ Exchange(c) PROVE Step(c)
  BY <1>2 DEF RetryLoop, Exchange, ExchangeSucceeds, ExchangeRateLimited,
     ExchangeOverQuota, ExchangeRejected, ExchangeFails, R!RetryStep, R!FnReturns,
     R!Final, R!Counted
<1>3. ASSUME NEW w \in Workers, WorkerStep(w) PROVE Same \/ Step(w)
  <2>1. w \in Senders
    BY DEF Senders
  <2>2. CASE WorkerDequeues(w)
    BY <2>2 DEF WorkerDequeues, Q!Call, Q!DequeueStep, Q!TakeHead, Q!FoundEmpty,
       Q!ClosedCheck, Q!ReturnNil, Q!SelectCtxDone, Q!SelectClosed,
       Q!SelectNotEmpty, Q!SelectPark, Q!DrainedNil
  <2>3. CASE WorkerTakes(w)
    BY <2>3 DEF WorkerTakes, Q!Return
  <2>4. CASE RequeueAccepted(w) \/ RequeueRefused(w)
    BY <2>4 DEF RequeueAccepted, RequeueRefused, Q!Enqueue
  <2>5. CASE PauseElapsed(w) \/ PauseCancelled(w)
    BY <2>5 DEF PauseElapsed, PauseCancelled
  <2>6. CASE FillBatch(w) \/ WorkerReports(w)
    BY <2>6 DEF FillBatch, WorkerReports
  <2> QED
    BY <1>2, <1>3, <2>1, <2>2, <2>3, <2>4, <2>5, <2>6 DEF WorkerStep
<1>4. ASSUME NEW b \in Batches, BatchCheckOpen(b) \/ BatchStep(b)
      PROVE  Same \/ Step(b)
  <2>1. b \in Senders
    BY DEF Senders
  <2>2. CASE BatchCheckOpen(b) \/ BatchInvalid(b)
    BY <2>2 DEF BatchCheckOpen, BatchInvalid
  <2>3. ASSUME NEW rest, BatchBegins(b, rest) PROVE Same \/ Step(b)
    BY <2>3 DEF BatchBegins
  <2>4. CASE BatchReports(b)
    BY <2>4 DEF BatchReports
  <2> QED
    BY <1>2, <1>4, <2>1, <2>2, <2>3, <2>4 DEF BatchStep
<1>5. ASSUME NEW k \in Closers, CloseChecks(k) \/ Closing(k)
      PROVE  Same \/ R!CancelContext
  BY <1>5 DEF CloseChecks, Closing, CloseStores, CloseFlushed,
     CloseFlushTimesOut, CloseCancels, CloseQueue, CloseJoins, CloseZeroesKey,
     Q!Close
<1>6. CASE PauseExpires \/ UNCHANGED clientVars
  BY <1>6 DEF PauseExpires, clientVars, lifeVars
<1>7. CASE \/ \E enabled \in BOOLEAN : EnableResilientMode(enabled)
           \/ PublishHealthURL
  BY <1>7 DEF EnableResilientMode, PublishHealthURL, R!RetryNext
<1> HIDE DEF Same, Step
<1> QED
  <2>1. Same => [R!RetryNext]_(R!retryVars)
    BY DEF Same
  <2>2. \A c \in Senders : Step(c) => R!RetryNext
    BY DEF Step, R!RetryNext
  <2>3. R!CancelContext => R!RetryNext
    BY DEF R!RetryNext
  <2> QED
    BY <1>1, <1>3, <1>4, <1>5, <1>6, <1>7, <2>1, <2>2, <2>3
       DEF ClientNext, Senders

LEMMA StepOfQueue ==
  Q!QueueTypeOK /\ HandsInv /\ [ClientNext]_clientVars
    => [Q!QueueNext]_(Q!queueVars)
<1> SUFFICES ASSUME Q!QueueTypeOK, HandsInv, [ClientNext]_clientVars
             PROVE  [Q!QueueNext]_(Q!queueVars)
  OBVIOUS
<1> DEFINE Same == UNCHANGED Q!queueVars
<1> DEFINE Goal == Same \/ Q!QueueNext
<1> USE DEF Q!queueVars, fifoVars
<1>1. ASSUME NEW e \in Entries, CheckOpen(e) \/ Sending(e) PROVE Goal
  <2>1. CASE EnqueueAccepted(e)
    BY <2>1 DEF EnqueueAccepted, Q!QueueNext
  <2>2. CASE ~EnqueueAccepted(e)
    BY <1>1, <2>2 DEF CheckOpen, Sending, DropAtAdmission, Admit,
       EnqueueRefused, CountQueued, producerOnly, lifeVars
  <2> QED
    BY <2>1, <2>2
<1>2. ASSUME NEW c \in Senders, RetryLoop(c) \/ Exchange(c) PROVE Same
  <2>1. CASE RetryLoop(c)
    <3>1. UNCHANGED ctxDone
      BY <2>1 DEF RetryLoop, R!Top, R!GiveUpAtTop, R!StartProbing, R!CallFn,
         R!WaitCancelled, R!RateWaitElapsed, R!BackoffElapsed, R!Probing,
         R!ProbingOver, R!ProbeSucceeds, R!ProbeFails, R!ProbeWaitElapsed,
         R!ProbeWaitCancelled, R!sharedVars
    <3> QED
      BY <2>1, <3>1 DEF RetryLoop, exchangeRest
  <2>2. CASE Exchange(c)
    BY <2>2 DEF Exchange, ExchangeSucceeds, ExchangeRateLimited,
       ExchangeOverQuota, ExchangeRejected, ExchangeFails, R!FnSucceeds,
       R!FnRateLimited, R!FnFailsForGood, R!FnFailsRetryably, R!sharedVars,
       exchangeRest
  <2> QED
    BY <1>2, <2>1, <2>2
<1>3. ASSUME NEW w \in Workers, WorkerStep(w) PROVE Goal
  <2>1. w \in Senders
    BY DEF Senders
  <2>2. CASE WorkerDequeues(w) \/ WorkerTakes(w)
    BY <2>2 DEF WorkerDequeues, WorkerTakes, Q!QueueNext
  <2>3. CASE RequeueAccepted(w)
    <3>1. batch[w][1] \in Entries
      BY <2>3 DEF RequeueAccepted, HandsInv
    <3> QED
      BY <2>3, <3>1 DEF RequeueAccepted, Q!QueueNext
  <2>4. CASE RequeueRefused(w) \/ PauseElapsed(w) \/ PauseCancelled(w)
    BY <2>4 DEF RequeueRefused, PauseElapsed, PauseCancelled
  <2>5. CASE FillBatch(w)
    <3> DEFINE n == IF BatchSize - 1 <= QueueSize THEN BatchSize - 1 ELSE QueueSize
    <3>1. n \in 0..QueueSize /\ BatchSize - 1 \in Nat
      BY ClientAssumption DEF ClientAssumption
    <3>2. Q!BatchSizeFor(n) = Q!BatchSizeFor(BatchSize - 1)
      BY <3>1, ClientAssumption DEF Q!BatchSizeFor, Q!QueueTypeOK, ClientAssumption
    <3>3. Q!DequeueBatch(n)
      BY <2>5, <3>2 DEF FillBatch, Q!DequeueBatch
    <3> HIDE DEF n
    <3> QED
      BY <3>1, <3>3 DEF Q!QueueNext
  <2>6. CASE WorkerReports(w)
    BY <2>6 DEF WorkerReports, R!Collect, R!sharedVars
  <2> QED
    BY <1>2, <1>3, <2>1, <2>2, <2>3, <2>4, <2>5, <2>6 DEF WorkerStep
<1>4. ASSUME NEW b \in Batches, BatchCheckOpen(b) \/ BatchStep(b) PROVE Same
  <2>1. b \in Senders
    BY DEF Senders
  <2>2. CASE BatchCheckOpen(b) \/ BatchInvalid(b)
    BY <2>2 DEF BatchCheckOpen, BatchInvalid, batchRest
  <2>3. ASSUME NEW rest, BatchBegins(b, rest) PROVE Same
    BY <2>3 DEF BatchBegins, batchRest, R!Begin, R!sharedVars
  <2>4. CASE BatchReports(b)
    BY <2>4 DEF BatchReports, batchRest, R!Collect, R!sharedVars
  <2> QED
    BY <1>2, <1>4, <2>1, <2>2, <2>3, <2>4 DEF BatchStep
<1>5. ASSUME NEW k \in Closers, CloseChecks(k) \/ Closing(k) PROVE Goal
  BY <1>5 DEF CloseChecks, Closing, CloseStores, CloseFlushed,
     CloseFlushTimesOut, CloseCancels, CloseQueue, CloseJoins, CloseZeroesKey,
     Q!QueueNext
<1>6. CASE PauseExpires \/ UNCHANGED clientVars
  BY <1>6 DEF PauseExpires, clientVars, lifeVars
<1>7. CASE \/ \E enabled \in BOOLEAN : EnableResilientMode(enabled)
           \/ PublishHealthURL
  BY <1>7 DEF EnableResilientMode, PublishHealthURL, R!EnableResilientMode,
     R!SetHealthCheckURL
<1> HIDE DEF Same, Goal
<1> QED
  <2>1. Goal => [Q!QueueNext]_(Q!queueVars)
    BY DEF Goal, Same
  <2>2. Same => Goal
    BY DEF Goal
  <2> QED
    BY <1>1, <1>3, <1>4, <1>5, <1>6, <1>7, <2>1, <2>2 DEF ClientNext

LEMMA TakenStep ==
  Q!QueueTypeOK /\ TakenInv /\ [Q!QueueNext]_(Q!queueVars) => TakenInv'
<1> SUFFICES ASSUME Q!QueueTypeOK, TakenInv, [Q!QueueNext]_(Q!queueVars)
             PROVE  TakenInv'
  OBVIOUS
<1> USE DEF TakenInv, Q!QueueTypeOK, Q!Positions
<1>1. CASE \E e \in Entries : Q!Enqueue(e)
  BY <1>1 DEF Q!Enqueue, Q!Signal, Q!Parked
<1>2. CASE Q!Close \/ Q!Cancel
  BY <1>2 DEF Q!Close, Q!Cancel, Q!WakeAll, Q!Parked
<1>3. ASSUME NEW c \in Workers, Q!Call(c) \/ Q!DequeueStep(c) \/ Q!Return(c)
      PROVE  TakenInv'
  BY <1>3 DEF Q!Call, Q!Return, Q!DequeueStep, Q!TakeHead, Q!FoundEmpty,
     Q!ClosedCheck, Q!ReturnNil, Q!SelectCtxDone, Q!SelectClosed,
     Q!SelectNotEmpty, Q!SelectPark, Q!DrainedNil, Q!Goto
<1> QED
  BY <1>1, <1>2, <1>3 DEF Q!QueueNext, Q!Clear, Q!DequeueBatch, Q!queueVars

-----------------------------------------------------------------------------
(* Sequences and the sets of their elements.                               *)

LEMMA ElementsTyped ==
  ASSUME NEW S, NEW s \in Seq(S)
  PROVE  ToSet(s) \subseteq S /\ s \in Seq(ToSet(s))
<1>1. s \in [1..Len(s) -> S] /\ Len(s) \in Nat
  OBVIOUS
<1> QED
  BY <1>1 DEF ToSet

LEMMA AppendElements ==
  ASSUME NEW S, NEW s \in Seq(S), NEW x \in S
  PROVE  /\ ToSet(Append(s, x)) = ToSet(s) \cup {x}
         /\ IsInjective(s) /\ x \notin ToSet(s) => IsInjective(Append(s, x))
<1> DEFINE t == Append(s, x)
<1>1. /\ t \in Seq(S) /\ Len(t) = Len(s) + 1 /\ t[Len(s) + 1] = x
      /\ \A i \in 1..Len(s) : t[i] = s[i]
      /\ DOMAIN s = 1..Len(s) /\ DOMAIN t = 1..(Len(s) + 1) /\ Len(s) \in Nat
  BY AppendProperties
<1> HIDE DEF t
<1> QED
  BY <1>1 DEF t, ToSet, IsInjective

LEMMA ConcatElements ==
  ASSUME NEW S, NEW s \in Seq(S), NEW t \in Seq(S)
  PROVE  /\ s \o t \in Seq(S)
         /\ ToSet(s \o t) = ToSet(s) \cup ToSet(t)
         /\ IsInjective(s) /\ IsInjective(t) /\ ToSet(s) \cap ToSet(t) = {}
              => IsInjective(s \o t)
<1> DEFINE u == s \o t
<1>1. /\ u \in Seq(S) /\ Len(u) = Len(s) + Len(t)
      /\ \A i \in 1..Len(u) : u[i] = IF i <= Len(s) THEN s[i] ELSE t[i - Len(s)]
      /\ DOMAIN s = 1..Len(s) /\ DOMAIN t = 1..Len(t) /\ DOMAIN u = 1..Len(u)
      /\ Len(s) \in Nat /\ Len(t) \in Nat
  BY ConcatProperties
<1> HIDE DEF u
<1>2. ToSet(u) \subseteq ToSet(s) \cup ToSet(t)
  <2> SUFFICES ASSUME NEW i \in 1..Len(u)
               PROVE  u[i] \in ToSet(s) \/ u[i] \in ToSet(t)
    BY <1>1 DEF ToSet
  <2>1. CASE i <= Len(s)
    BY <1>1, <2>1 DEF ToSet
  <2>2. CASE i > Len(s)
    <3>1. i - Len(s) \in 1..Len(t) /\ u[i] = t[i - Len(s)]
      BY <1>1, <2>2
    <3> QED
      BY <1>1, <3>1 DEF ToSet
  <2> QED
    BY <1>1, <2>1, <2>2
<1>3. ToSet(s) \subseteq ToSet(u)
  BY <1>1 DEF ToSet
<1>4. ToSet(t) \subseteq ToSet(u)
  <2> SUFFICES ASSUME NEW i \in 1..Len(t) PROVE t[i] \in ToSet(u)
    BY <1>1 DEF ToSet
  <2>1. i + Len(s) \in 1..Len(u) /\ u[i + Len(s)] = t[i]
    BY <1>1
  <2> QED
    BY <1>1, <2>1 DEF ToSet
<1>5. ASSUME IsInjective(s), IsInjective(t), ToSet(s) \cap ToSet(t) = {}
      PROVE  IsInjective(u)
  <2> SUFFICES ASSUME NEW i \in 1..Len(u), NEW j \in 1..Len(u), u[i] = u[j]
               PROVE  i = j
    BY <1>1 DEF IsInjective
  <2>1. \A m, n \in 1..Len(s) : s[m] = s[n] => m = n
    BY <1>1, <1>5 DEF IsInjective
  <2>2. \A m, n \in 1..Len(t) : t[m] = t[n] => m = n
    BY <1>1, <1>5 DEF IsInjective
  <2>3. \A m \in 1..Len(s), n \in 1..Len(t) : s[m] # t[n]
    BY <1>1, <1>5 DEF ToSet
  <2>4. ASSUME NEW k \in 1..Len(u), k > Len(s)
        PROVE  k - Len(s) \in 1..Len(t) /\ u[k] = t[k - Len(s)]
    BY <1>1, <2>4
  <2>5. ASSUME NEW k \in 1..Len(u), ~(k > Len(s))
        PROVE  k \in 1..Len(s) /\ u[k] = s[k]
    BY <1>1, <2>5
  <2>6. CASE i > Len(s) /\ j > Len(s)
    <3>1. i - Len(s) = j - Len(s)
      BY <2>2, <2>4, <2>6
    <3> QED
      BY <1>1, <3>1
  <2>7. CASE ~(i > Len(s) /\ j > Len(s))
    BY <2>1, <2>3, <2>4, <2>5, <2>7
  <2> QED
    BY <2>6, <2>7
<1> QED
  BY <1>1, <1>2, <1>3, <1>4, <1>5 DEF u

\* A sequence cut in two: no element is lost, and none is on both sides.
LEMMA CutElements ==
  ASSUME NEW S, NEW s \in Seq(S), NEW k \in 0..Len(s)
  PROVE  LET head == SubSeq(s, 1, k)
             tail == SubSeq(s, k + 1, Len(s))
         IN  /\ head \in Seq(S) /\ tail \in Seq(S)
             /\ Len(head) = k /\ Len(tail) = Len(s) - k
             /\ ToSet(s) = ToSet(head) \cup ToSet(tail)
             /\ IsInjective(s) => /\ IsInjective(head) /\ IsInjective(tail)
                                  /\ ToSet(head) \cap ToSet(tail) = {}
<1> DEFINE head == SubSeq(s, 1, k)
<1> DEFINE tail == SubSeq(s, k + 1, Len(s))
<1>1. /\ DOMAIN s = 1..Len(s) /\ Len(s) \in Nat /\ k \in Nat /\ k <= Len(s)
      /\ \A i \in 1..Len(s) : s[i] \in S
  OBVIOUS
<1>2. /\ head \in Seq(S) /\ Len(head) = k /\ DOMAIN head = 1..k
      /\ \A i \in 1..k : head[i] = s[i]
  <2>1. \A i \in 1..k : s[i] \in S /\ 1 + i - 1 = i
    BY <1>1
  <2> HIDE DEF head
  <2>2. /\ head \in Seq(S) /\ Len(head) = IF 1 <= k THEN k - 1 + 1 ELSE 0
        /\ \A i \in 1..(k - 1 + 1) : head[i] = s[1 + i - 1]
    BY <1>1, <2>1, SubSeqProperties DEF head
  <2> QED
    BY <1>1, <2>1, <2>2, LenProperties
<1>3. /\ tail \in Seq(S) /\ Len(tail) = Len(s) - k /\ DOMAIN tail = 1..(Len(s) - k)
      /\ \A i \in 1..(Len(s) - k) : tail[i] = s[i + k]
  <2>1. /\ \A i \in (k + 1)..Len(s) : s[i] \in S
        /\ \A i \in 1..(Len(s) - k) : (k + 1) + i - 1 = i + k
        /\ k + 1 \in Int /\ Len(s) \in Int
    BY <1>1
  <2> HIDE DEF tail
  <2>2. /\ tail \in Seq(S)
        /\ Len(tail) = IF k + 1 <= Len(s) THEN Len(s) - (k + 1) + 1 ELSE 0
        /\ \A i \in 1..(Len(s) - (k + 1) + 1) : tail[i] = s[(k + 1) + i - 1]
    BY <2>1, SubSeqProperties DEF tail
  <2>3. Len(s) - (k + 1) + 1 = Len(s) - k /\ (k + 1 <= Len(s) \/ Len(s) - k = 0)
    <3>1. \A m, n \in Nat : m <= n =>
            n - (m + 1) + 1 = n - m /\ (m + 1 <= n \/ n - m = 0)
      OBVIOUS
    <3> QED
      BY <1>1, <3>1
  <2>4. Len(tail) = Len(s) - k
    BY <1>1, <2>2, <2>3
  <2>5. DOMAIN tail = 1..Len(tail)
    BY <2>2, LenProperties
  <2> QED
    BY <2>1, <2>2, <2>3, <2>4, <2>5
<1> HIDE DEF head, tail
<1>4. ToSet(head) \subseteq ToSet(s) /\ ToSet(tail) \subseteq ToSet(s)
  <2>1. ToSet(head) \subseteq ToSet(s)
    BY <1>1, <1>2 DEF ToSet
  <2>2. \A i \in 1..(Len(s) - k) : i + k \in 1..Len(s)
    BY <1>1
  <2> QED
    BY <1>1, <1>3, <2>1, <2>2 DEF ToSet
<1>5. ToSet(s) \subseteq ToSet(head) \cup ToSet(tail)
  <2> SUFFICES ASSUME NEW i \in 1..Len(s)
               PROVE  s[i] \in ToSet(head) \/ s[i] \in ToSet(tail)
    BY <1>1 DEF ToSet
  <2>1. CASE i <= k
    BY <1>1, <1>2, <2>1 DEF ToSet
  <2>2. CASE i > k
    <3>1. i - k \in 1..(Len(s) - k) /\ tail[i - k] = s[i]
      BY <1>1, <1>3, <2>2
    <3> QED
      BY <1>3, <3>1 DEF ToSet
  <2> QED
    BY <1>1, <2>1, <2>2
<1>6. ASSUME IsInjective(s)
      PROVE  /\ IsInjective(head) /\ IsInjective(tail)
             /\ ToSet(head) \cap ToSet(tail) = {}
  <2>1. \A i, j \in 1..Len(s) : s[i] = s[j] => i = j
    BY <1>1, <1>6 DEF IsInjective
  <2>2. IsInjective(head)
    BY <1>1, <1>2, <2>1 DEF IsInjective
  <2>3. IsInjective(tail)
    <3> SUFFICES ASSUME NEW i \in 1..(Len(s) - k), NEW j \in 1..(Len(s) - k),
                        tail[i] = tail[j]
                 PROVE  i = j
      BY <1>3 DEF IsInjective
    <3>1. i + k = j + k
      BY <1>1, <1>3, <2>1
    <3> QED
      BY <1>1, <3>1
  <2>4. ASSUME NEW i \in 1..k, NEW j \in 1..(Len(s) - k), head[i] = tail[j]
        PROVE  FALSE
    <3>1. i = j + k
      BY <1>1, <1>2, <1>3, <2>1, <2>4
    <3> QED
      BY <1>1, <3>1
  <2> QED
    BY <1>2, <1>3, <2>2, <2>3, <2>4 DEF ToSet
<1> QED
  BY <1>2, <1>3, <1>4, <1>5, <1>6 DEF head, tail

LEMMA TakeFirst ==
  ASSUME NEW S, NEW s \in Seq(S), s # <<>>
  PROVE  /\ Head(s) \in S /\ Tail(s) \in Seq(S)
         /\ ToSet(s) = ToSet(Tail(s)) \cup {Head(s)}
         /\ IsInjective(s) => IsInjective(Tail(s)) /\ Head(s) \notin ToSet(Tail(s))
<1>1. Len(s) \in Nat /\ 1 \in 0..Len(s)
  BY EmptySeq
<1>2. Head(s) = s[1] /\ Tail(s) = SubSeq(s, 1 + 1, Len(s)) /\ s[1] \in S
  BY <1>1
<1>3. /\ SubSeq(s, 1, 1) \in Seq(S) /\ Len(SubSeq(s, 1, 1)) = 1
      /\ SubSeq(s, 1, 1)[1] = s[1]
  BY <1>1
<1>4. ToSet(SubSeq(s, 1, 1)) = {s[1]}
  BY <1>3 DEF ToSet
<1> DEFINE head == SubSeq(s, 1, 1)
<1> DEFINE tail == SubSeq(s, 1 + 1, Len(s))
<1>5. /\ head \in Seq(S) /\ tail \in Seq(S)
      /\ ToSet(s) = ToSet(head) \cup ToSet(tail)
      /\ IsInjective(s) => /\ IsInjective(head) /\ IsInjective(tail)
                           /\ ToSet(head) \cap ToSet(tail) = {}
  BY <1>1, CutElements
<1>6. ToSet(head) = {Head(s)} /\ tail = Tail(s)
  BY <1>2, <1>4
<1> HIDE DEF head, tail
<1> QED
  BY <1>2, <1>5, <1>6

\* Whatever BeforeSend removes, the rest is of the batch, each entry once.
LEMMA RestOfBatch ==
  ASSUME NEW S, NEW s \in Seq(S), NEW rest \in Subsequences(s)
  PROVE  /\ rest \in Seq(ToSet(s))
         /\ ToSet(rest) \subseteq ToSet(s)
         /\ IsInjective(s) => IsInjective(rest)
<1>1. PICK n \in 0..Len(s) :
        rest \in {[i \in 1..n |-> s[at[i]]] :
                    at \in {f \in [1..n -> 1..Len(s)] :
                              \A i, j \in 1..n : i < j => f[i] < f[j]}}
  BY DEF Subsequences
<1>2. PICK at \in [1..n -> 1..Len(s)] :
        /\ \A i, j \in 1..n : i < j => at[i] < at[j]
        /\ rest = [i \in 1..n |-> s[at[i]]]
  BY <1>1
<1>3. Len(s) \in Nat /\ n \in Nat /\ DOMAIN s = 1..Len(s)
  OBVIOUS
<1>4. \A i \in 1..n : s[at[i]] \in ToSet(s)
  BY <1>2, <1>3 DEF ToSet
<1>5. rest \in Seq(ToSet(s)) /\ DOMAIN rest = 1..n
  BY <1>2, <1>3, <1>4
<1>6. ASSUME IsInjective(s), NEW i \in 1..n, NEW j \in 1..n, rest[i] = rest[j]
      PROVE  i = j
  <2>1. at[i] = at[j]
    BY <1>2, <1>3, <1>6 DEF IsInjective
  <2>2. ~(i < j) /\ ~(j < i)
    BY <1>2, <2>1
  <2> QED
    BY <1>3, <2>2
<1> QED
  BY <1>5, <1>6, ElementsTyped DEF IsInjective

-----------------------------------------------------------------------------
(* Types.                                                                  *)

\* The steps within Retry, whatever the exchange brings.
LEMMA LoopMoves ==
  ASSUME NEW c \in Senders, RetryLoop(c) \/ Exchange(c)
  PROVE  /\ rpc[c] # "idle"
         /\ \E p \in R!RetryPositions \ {"idle"} : rpc' = [rpc EXCEPT ![c] = p]
         /\ UNCHANGED exchangeRest
<1> USE DEF R!At, R!Move, R!Finish, R!RetryPositions
<1>1. CASE RetryLoop(c)
  <2>1. UNCHANGED exchangeRest
    BY <1>1 DEF RetryLoop
  <2>2. CASE R!Top(c)
    BY <2>1, <2>2 DEF R!Top, R!GiveUpAtTop, R!StartProbing, R!CallFn
  <2>3. CASE R!WaitCancelled(c) \/ R!RateWaitElapsed(c) \/ R!BackoffElapsed(c)
    BY <2>1, <2>3 DEF R!WaitCancelled, R!RateWaitElapsed, R!BackoffElapsed
  <2>4. CASE R!ProbeFails(c)
    <3>1. rpc[c] = "probe"
      BY <2>4 DEF R!ProbeFails
    <3>2. \/ rpc' = [rpc EXCEPT ![c] = "probeWait"]
          \/ rpc' = [rpc EXCEPT ![c] = "probe"]
      BY <2>4 DEF R!ProbeFails
    <3> QED
      BY <2>1, <3>1, <3>2
  <2>5. CASE R!ProbingOver(c) \/ R!ProbeSucceeds(c) \/ R!ProbeWaitElapsed(c)
               \/ R!ProbeWaitCancelled(c)
    BY <2>1, <2>5 DEF R!ProbingOver, R!ProbeSucceeds, R!ProbeWaitElapsed,
       R!ProbeWaitCancelled, R!CallFn
  <2> QED
    BY <1>1, <2>2, <2>3, <2>4, <2>5 DEF RetryLoop, R!Probing
<1>2. CASE Exchange(c)
  <2>1. UNCHANGED exchangeRest
    BY <1>2 DEF Exchange, ExchangeSucceeds, ExchangeRateLimited,
       ExchangeOverQuota, ExchangeRejected, ExchangeFails
  <2>2. CASE ExchangeSucceeds(c) \/ ExchangeRateLimited(c)
    BY <2>1, <2>2 DEF ExchangeSucceeds, ExchangeRateLimited, R!FnSucceeds,
       R!FnRateLimited
  <2>3. CASE ExchangeOverQuota(c) \/ ExchangeRejected(c)
    BY <2>1, <2>3 DEF ExchangeOverQuota, ExchangeRejected, R!FnFailsForGood
  <2>4. CASE ExchangeFails(c)
    BY <2>1, <2>4 DEF ExchangeFails, R!FnFailsForGood, R!FnFailsRetryably
  <2> QED
    BY <1>2, <2>2, <2>3, <2>4 DEF Exchange
<1> QED
  BY <1>1, <1>2

LEMMA SenderKinds ==
  /\ Workers \subseteq Senders /\ Batches \subseteq Senders
  /\ \A c \in Senders : c \in Workers \/ c \in Batches
  /\ \A w \in Workers : w \notin Batches
  /\ Entries \subseteq AllEntries /\ BatchEntries \subseteq AllEntries
  /\ \A b \in Batches : ToSet(BatchOf[b]) \subseteq BatchEntries
  BY ClientAssumption DEF ClientAssumption, Senders, AllEntries, BatchEntries

LEMMA HandsKept ==
  ASSUME HandsInv, UNCHANGED <<wpc, bpc, batch>>,
         \A c \in Senders : rpc'[c] = rpc[c] \/ rpc[c] # "idle"
  PROVE  HandsInv'
  BY SenderKinds DEF HandsInv

LEMMA SettleType ==
  ASSUME OwnTypeOK, NEW s, NEW f \in Fates, Settle(s, f)
  PROVE  fate' \in [AllEntries -> Fates]
  BY DEF OwnTypeOK, Settle

LEMMA StatsType ==
  ASSUME OwnTypeOK, NEW s, Len(s) \in Nat
  PROVE  /\ \A r \in DropReasons :
              recordDrop(r, s) => /\ drops' \in [DropReasons -> Nat]
                                  /\ fate' \in [AllEntries -> Fates]
                                  /\ UNCHANGED <<totalQueued, totalSent>>
         /\ RecordSent(s) => /\ totalSent' \in Nat
                             /\ fate' \in [AllEntries -> Fates]
                             /\ UNCHANGED <<totalQueued, drops>>
<1>1. ASSUME NEW r \in DropReasons, recordDrop(r, s)
      PROVE  /\ drops' \in [DropReasons -> Nat]
             /\ fate' \in [AllEntries -> Fates]
             /\ UNCHANGED <<totalQueued, totalSent>>
  BY <1>1, SettleType DEF recordDrop, Fates, OwnTypeOK
<1>2. ASSUME RecordSent(s)
      PROVE  /\ totalSent' \in Nat
             /\ fate' \in [AllEntries -> Fates]
             /\ UNCHANGED <<totalQueued, drops>>
  BY <1>2, SettleType DEF RecordSent, Fates, OwnTypeOK
<1> QED
  BY <1>1, <1>2

LEMMA InitTypes == ClientInit => TypeInv
<1> SUFFICES ASSUME ClientInit PROVE TypeInv
  OBVIOUS
<1>1. QP!QueueInv /\ Q!QueueTypeOK /\ TakenInv
  <2>1. Q!QueueInit
    BY DEF ClientInit
  <2>2. QP!QueueInv
    BY <2>1, SameQueue, QP!InitInv, QueueAssumed
  <2> QED
    BY <2>1, <2>2, SameQueue DEF Q!QueueInit, QP!QueueInv, TakenInv
<1>2. RP!RetryInv /\ R!RetryTypeOK
  <2>1. RP!RetryInv
    BY SameRetryer, RP!InitInv, RetryAssumed DEF ClientInit
  <2> QED
    BY <2>1, SameRetryer DEF RP!RetryInv
<1>3. OwnTypeOK
  <2>1. batch \in [Senders -> Seq(AllEntries)] /\ fate \in [AllEntries -> Fates]
    BY DEF ClientInit, Fates
  <2>2. drops \in [DropReasons -> Nat] /\ deliveries \in [AllEntries -> 0..2]
    BY DEF ClientInit
  <2> QED
    BY <2>1, <2>2 DEF ClientInit, OwnTypeOK
<1>4. HandsInv
  <2>1. /\ \A c \in Senders : batch[c] = <<>> /\ rpc[c] = "idle"
        /\ \A w \in Workers : wpc[w] = "loop"
    BY DEF ClientInit, R!RetryInit
  <2>2. \A S : <<>> \in Seq(S)
    OBVIOUS
  <2>3. \A w \in Workers : w \in Senders
    BY DEF Senders
  <2>4. \A b \in Batches : b \in Senders
    BY DEF Senders
  <2> QED
    BY <2>1, <2>2, <2>3, <2>4 DEF HandsInv
<1> QED
  BY <1>1, <1>2, <1>3, <1>4 DEF TypeInv, ClientTypeOK

LEMMA ProducerTypes ==
  ASSUME TypeInv, NEW e \in Entries, CheckOpen(e) \/ Sending(e)
  PROVE  OwnTypeOK' /\ HandsInv'
<1> USE DEF TypeInv, ClientTypeOK
<1>1. UNCHANGED <<wpc, bpc, batch, rpc, clientClosed, keyZeroed, kpc, paused,
                  quotaBlocked, deliveries, replyLost>>
  BY DEF CheckOpen, Sending, DropAtAdmission, Admit, EnqueueAccepted,
     EnqueueRefused, CountQueued, producerOnly, lifeVars, limitVars, serverVars,
     loopVars
<1>2. HandsInv'
  BY <1>1, HandsKept
<1>3. /\ totalQueued' \in Nat /\ totalSent' \in Nat
      /\ drops' \in [DropReasons -> Nat] /\ fate' \in [AllEntries -> Fates]
  <2> USE DEF statVars
  <2>0. Len(<<e>>) \in Nat
    OBVIOUS
  <2>1. CASE CheckOpen(e)
    BY <2>1, SettleType DEF CheckOpen, Fates, OwnTypeOK
  <2>2. ASSUME NEW r \in {"validation_error", "before_send", "quota_exceeded"},
               DropAtAdmission(e, r)
        PROVE  /\ totalQueued' \in Nat /\ totalSent' \in Nat
               /\ drops' \in [DropReasons -> Nat]
               /\ fate' \in [AllEntries -> Fates]
    <3>1. r \in DropReasons /\ recordDrop(r, <<e>>)
      BY <2>2 DEF DropReasons, DropAtAdmission
    <3> QED
      BY <2>0, <3>1, StatsType DEF OwnTypeOK
  <2>3. CASE Admit(e) \/ EnqueueAccepted(e) \/ CountQueued(e)
    BY <2>3 DEF Admit, EnqueueAccepted, CountQueued, OwnTypeOK
  <2>4. CASE EnqueueRefused(e)
    <3>1. recordDrop("queue_overflow", <<e>>)
      BY <2>4 DEF EnqueueRefused
    <3> QED
      BY <2>0, <3>1, StatsType DEF OwnTypeOK, DropReasons
  <2> QED
    BY <2>1, <2>2, <2>3, <2>4 DEF Sending
<1>4. ppc' \in [Entries -> {"new", "admitting", "enqueueing", "counting",
                            "queued", "gone"}]
  BY DEF OwnTypeOK, CheckOpen, Sending, DropAtAdmission, Admit, EnqueueAccepted,
     EnqueueRefused, CountQueued, ProducerGoes
<1> QED
  BY <1>1, <1>2, <1>3, <1>4 DEF OwnTypeOK

WorkerPositions == {"loop", "requeueing", "pausing", "filling", "sending", "exit"}

LEMMA WorkerHands ==
  ASSUME TypeInv, NEW w \in Workers,
         NEW p \in WorkerPositions, NEW s \in Seq(Entries), NEW q,
         wpc' = [wpc EXCEPT ![w] = p], batch' = [batch EXCEPT ![w] = s],
         rpc' = [rpc EXCEPT ![w] = q], UNCHANGED bpc,
         p \in {"loop", "pausing", "exit"} => s = <<>>,
         p \in {"requeueing", "filling"} => Len(s) = 1,
         q # "idle" => p = "sending"
  PROVE  /\ HandsInv'
         /\ wpc' \in [Workers -> WorkerPositions]
         /\ batch' \in [Senders -> Seq(AllEntries)]
<1>1. /\ wpc \in [Workers -> WorkerPositions]
      /\ batch \in [Senders -> Seq(AllEntries)]
      /\ rpc \in [Senders -> R!RetryPositions]
      /\ HandsInv
  BY DEF TypeInv, ClientTypeOK, OwnTypeOK, R!RetryTypeOK, WorkerPositions
<1>2. /\ w \in Senders /\ w \notin Batches
      /\ \A v \in Workers : v \in Senders
      /\ \A b \in Batches : b \in Senders
  BY SenderKinds
<1>3. s \in Seq(AllEntries)
  BY SenderKinds, SeqMonotonic
<1>4. /\ wpc'[w] = p /\ batch'[w] = s /\ rpc'[w] = q
      /\ \A v \in Workers \ {w} :
           wpc'[v] = wpc[v] /\ batch'[v] = batch[v] /\ rpc'[v] = rpc[v]
      /\ \A b \in Batches : batch'[b] = batch[b] /\ rpc'[b] = rpc[b]
  BY <1>1, <1>2
<1>5. HandsInv'
  BY <1>1, <1>4 DEF HandsInv
<1> QED
  BY <1>1, <1>3, <1>5

LEMMA BatchHands ==
  ASSUME TypeInv, NEW b \in Batches,
         NEW p \in {"new", "preparing", "sending", "over"},
         NEW s \in Seq(ToSet(BatchOf[b])), NEW q,
         bpc' = [bpc EXCEPT ![b] = p], batch' = [batch EXCEPT ![b] = s],
         rpc' = [rpc EXCEPT ![b] = q], UNCHANGED wpc,
         p # "sending" => s = <<>> /\ q = "idle"
  PROVE  /\ HandsInv'
         /\ bpc' \in [Batches -> {"new", "preparing", "sending", "over"}]
         /\ batch' \in [Senders -> Seq(AllEntries)]
<1>1. /\ bpc \in [Batches -> {"new", "preparing", "sending", "over"}]
      /\ batch \in [Senders -> Seq(AllEntries)]
      /\ rpc \in [Senders -> R!RetryPositions]
      /\ HandsInv
  BY DEF TypeInv, ClientTypeOK, OwnTypeOK, R!RetryTypeOK
<1>2. /\ b \in Senders /\ b \notin Workers
      /\ \A d \in Batches : d \in Senders
      /\ \A w \in Workers : w \in Senders
  BY SenderKinds
<1>3. s \in Seq(AllEntries)
  BY SenderKinds, SeqMonotonic
<1>4. /\ bpc'[b] = p /\ batch'[b] = s /\ rpc'[b] = q
      /\ \A d \in Batches \ {b} :
           bpc'[d] = bpc[d] /\ batch'[d] = batch[d] /\ rpc'[d] = rpc[d]
      /\ \A w \in Workers : batch'[w] = batch[w] /\ rpc'[w] = rpc[w]
  BY <1>1, <1>2
<1>5. HandsInv'
  BY <1>1, <1>4 DEF HandsInv
<1> QED
  BY <1>1, <1>3, <1>5

LEMMA LoopTypes ==
  ASSUME TypeInv, NEW c \in Senders, RetryLoop(c) \/ Exchange(c)
  PROVE  OwnTypeOK' /\ HandsInv'
<1> USE DEF TypeInv, ClientTypeOK, exchangeRest, statVars, limitVars, serverVars
<1>1. /\ rpc[c] # "idle" /\ UNCHANGED exchangeRest
      /\ \E p \in R!RetryPositions \ {"idle"} : rpc' = [rpc EXCEPT ![c] = p]
  BY LoopMoves
<1>2. HandsInv'
  BY <1>1, HandsKept DEF R!RetryTypeOK
<1>3. /\ paused' \in BOOLEAN
      /\ quotaBlocked' \subseteq {Category[e] : e \in AllEntries}
      /\ deliveries' \in [AllEntries -> 0..2] /\ replyLost' \subseteq AllEntries
  <2>0. OwnTypeOK
    OBVIOUS
  <2>1. batch[c] \in Seq(AllEntries) /\ ToSet(batch[c]) \subseteq AllEntries
    BY ElementsTyped DEF OwnTypeOK
  <2>2. Accepted(c) => deliveries' \in [AllEntries -> 0..2]
    BY DEF Accepted, R!Saturate, OwnTypeOK
  <2>3. CASE RetryLoop(c)
    BY <2>3 DEF RetryLoop, OwnTypeOK
  <2>4. CASE ExchangeSucceeds(c) \/ ExchangeRejected(c) \/ ExchangeRateLimited(c)
    BY <2>2, <2>4 DEF ExchangeSucceeds, ExchangeRejected, ExchangeRateLimited,
       OwnTypeOK
  <2>5. CASE ExchangeOverQuota(c)
    <3>1. PICK e \in ToSet(batch[c]) : Category[e] \in OverQuota
      BY <2>5 DEF ExchangeOverQuota
    <3>2. batch[c][1] \in AllEntries
      BY <2>1, <3>1 DEF ToSet
    <3> QED
      BY <2>5, <3>2 DEF ExchangeOverQuota, OwnTypeOK
  <2>6. CASE ExchangeFails(c)
    <3>1. UNCHANGED limitVars
      BY <2>6 DEF ExchangeFails
    <3>2. CASE UNCHANGED serverVars
      BY <3>1, <3>2 DEF OwnTypeOK
    <3>3. CASE Accepted(c) /\ replyLost' = replyLost \cup ToSet(batch[c])
      BY <2>1, <2>2, <3>1, <3>3 DEF OwnTypeOK
    <3> QED
      BY <2>6, <3>2, <3>3 DEF ExchangeFails
  <2> QED
    BY <2>3, <2>4, <2>5, <2>6 DEF Exchange
<1> QED
  BY <1>1, <1>2, <1>3 DEF OwnTypeOK

\* What FillBatch takes is the head of the queue, and the rest stays there.
LEMMA FilledBatch ==
  ASSUME TypeInv, NEW w \in Workers
  PROVE  LET n == Q!BatchSizeFor(BatchSize - 1)
         IN  /\ n \in 0..Len(items)
             /\ Q!Batch(BatchSize - 1) = SubSeq(items, 1, n)
             /\ Q!Batch(BatchSize - 1) \in Seq(Entries)
             /\ batch[w] \o Q!Batch(BatchSize - 1) \in Seq(Entries)
<1> DEFINE n == Q!BatchSizeFor(BatchSize - 1)
<1>1. items \in Seq(Entries) /\ batch[w] \in Seq(Entries)
  BY DEF TypeInv, ClientTypeOK, Q!QueueTypeOK, HandsInv
<1>2. BatchSize - 1 \in Nat /\ Len(items) \in Nat
  BY <1>1, ClientAssumption DEF ClientAssumption
<1>3. n \in 0..Len(items)
  BY <1>2 DEF Q!BatchSizeFor
<1> HIDE DEF n
<1>4. SubSeq(items, 1, n) \in Seq(Entries)
  BY <1>1, <1>3, CutElements
<1> QED
  BY <1>1, <1>3, <1>4, ConcatProperties DEF Q!Batch, n

LEMMA WorkerTypes ==
  ASSUME TypeInv, NEW w \in Workers, WorkerStep(w)
  PROVE  OwnTypeOK' /\ HandsInv'
<1> DEFINE StatsOK == /\ totalQueued' \in Nat /\ totalSent' \in Nat
                      /\ drops' \in [DropReasons -> Nat]
                      /\ fate' \in [AllEntries -> Fates]
<1>0. /\ w \in Senders
      /\ rpc \in [Senders -> R!RetryPositions]
      /\ batch \in [Senders -> Seq(AllEntries)]
      /\ batch[w] \in Seq(Entries) /\ Len(batch[w]) \in Nat
      /\ OwnTypeOK /\ HandsInv
  BY SenderKinds DEF TypeInv, ClientTypeOK, R!RetryTypeOK, OwnTypeOK, HandsInv
<1>1. CASE RetryLoop(w) \/ Exchange(w)
  BY <1>0, <1>1, LoopTypes
<1>2. CASE ~(RetryLoop(w) \/ Exchange(w))
  <2>1. UNCHANGED <<limitVars, clientClosed, keyZeroed, kpc, serverVars, ppc, bpc>>
    BY <1>2 DEF WorkerStep, WorkerDequeues, WorkerTakes, RequeueAccepted,
       RequeueRefused, PauseElapsed, PauseCancelled, FillBatch, WorkerReports,
       workerRest
  <2>2. StatsOK
    <3>1. CASE UNCHANGED statVars
      BY <1>0, <3>1 DEF OwnTypeOK, statVars
    <3>2. ASSUME NEW r \in DropReasons, recordDrop(r, batch[w]) PROVE StatsOK
      BY <1>0, <3>2, StatsType DEF OwnTypeOK
    <3>3. CASE RecordSent(batch[w])
      BY <1>0, <3>3, StatsType DEF OwnTypeOK
    <3>4. \A o : ReasonFor(o) \in DropReasons
      BY DEF ReasonFor, DropReasons
    <3>5. CASE RequeueRefused(w) \/ WorkerReports(w)
      BY <3>2, <3>3, <3>4, <3>5 DEF RequeueRefused, WorkerReports, DropReasons
    <3> QED
      BY <1>2, <3>1, <3>5 DEF WorkerStep, WorkerDequeues, WorkerTakes,
         RequeueAccepted, PauseElapsed, PauseCancelled, FillBatch
  <2> DEFINE Hands3 == /\ HandsInv'
                       /\ wpc' \in [Workers -> WorkerPositions]
                       /\ batch' \in [Senders -> Seq(AllEntries)]
  <2>3. wpc \in [Workers -> WorkerPositions]
    BY <1>0 DEF OwnTypeOK, WorkerPositions
  <2>4. wpc[w] # "sending" =>
          rpc[w] = "idle" /\ (UNCHANGED rpc => rpc' = [rpc EXCEPT ![w] = "idle"])
    BY <1>0 DEF HandsInv
  <2>5. <<>> \in Seq(Entries) /\ \A x \in Entries : <<x>> \in Seq(Entries)
    OBVIOUS
  <2>6. ASSUME WorkerDequeues(w) PROVE Hands3
    <3>1. UNCHANGED <<rpc, wpc, batch>>
      BY <2>6 DEF WorkerDequeues, loopVars
    <3> QED
      BY <1>0, <2>1, <2>3, <3>1, HandsKept
  <2>7. ASSUME WorkerTakes(w) PROVE Hands3
    <3>1. taken[w] = None \/ taken[w] \in Entries
      BY DEF TypeInv, ClientTypeOK, Q!QueueTypeOK
    <3>2. wpc[w] = "loop" /\ UNCHANGED rpc
      BY <2>7 DEF WorkerTakes, loopVars
    <3>3. batch[w] = <<>>
      BY <1>0, <3>2 DEF HandsInv
    <3>4. CASE taken[w] = None
      <4>1. wpc' = [wpc EXCEPT ![w] = "exit"] /\ batch' = [batch EXCEPT ![w] = <<>>]
        BY <1>0, <2>7, <3>3, <3>4 DEF WorkerTakes, WorkerGoes
      <4> QED
        BY <2>1, <2>4, <2>5, <3>2, <4>1, WorkerHands DEF WorkerPositions
    <3>5. CASE taken[w] # None
      <4>1. /\ \/ wpc' = [wpc EXCEPT ![w] = "requeueing"]
               \/ wpc' = [wpc EXCEPT ![w] = "filling"]
            /\ batch' = [batch EXCEPT ![w] = <<taken[w]>>]
        BY <2>7, <3>5 DEF WorkerTakes, WorkerGoes, Hands
      <4>2. <<taken[w]>> \in Seq(Entries) /\ Len(<<taken[w]>>) = 1
        BY <3>1, <3>5
      <4> QED
        BY <2>1, <2>4, <3>2, <4>1, <4>2, WorkerHands DEF WorkerPositions
    <3> QED
      BY <3>4, <3>5
  <2>8. ASSUME RequeueAccepted(w) \/ RequeueRefused(w) PROVE Hands3
    <3>1. /\ wpc[w] = "requeueing" /\ UNCHANGED rpc
          /\ wpc' = [wpc EXCEPT ![w] = "pausing"]
          /\ batch' = [batch EXCEPT ![w] = <<>>]
      BY <2>8 DEF RequeueAccepted, RequeueRefused, loopVars, WorkerGoes, Hands
    <3> QED
      BY <2>1, <2>4, <2>5, <3>1, WorkerHands DEF WorkerPositions
  <2>9. ASSUME PauseElapsed(w) \/ PauseCancelled(w) PROVE Hands3
    <3>1. /\ wpc[w] = "pausing" /\ UNCHANGED <<rpc, batch>>
          /\ \/ wpc' = [wpc EXCEPT ![w] = "loop"]
             \/ wpc' = [wpc EXCEPT ![w] = "exit"]
      BY <2>9 DEF PauseElapsed, PauseCancelled, loopVars, WorkerGoes
    <3>2. batch' = [batch EXCEPT ![w] = <<>>]
      BY <1>0, <3>1 DEF HandsInv
    <3>3. rpc' = [rpc EXCEPT ![w] = "idle"]
      BY <2>4, <3>1
    <3>4. PICK p \in {"loop", "exit"} : wpc' = [wpc EXCEPT ![w] = p]
      BY <3>1
    <3>5. p \in WorkerPositions /\ p \notin {"requeueing", "filling"}
      BY DEF WorkerPositions
    <3> QED
      BY <2>1, <2>5, <3>2, <3>3, <3>4, <3>5, WorkerHands
  <2>10. ASSUME FillBatch(w) PROVE Hands3
    <3> DEFINE s == batch[w] \o Q!Batch(BatchSize - 1)
    <3>1. /\ wpc' = [wpc EXCEPT ![w] = "sending"]
          /\ batch' = [batch EXCEPT ![w] = s]
          /\ rpc' = [rpc EXCEPT ![w] = "top"]
      BY <2>10 DEF FillBatch, WorkerGoes, Hands, R!Begin, R!Move
    <3>2. s \in Seq(Entries)
      BY <1>0, FilledBatch
    <3> HIDE DEF s
    <3> QED
      BY <2>1, <3>1, <3>2, WorkerHands DEF WorkerPositions
  <2>11. ASSUME WorkerReports(w) PROVE Hands3
    <3>1. /\ wpc' = [wpc EXCEPT ![w] = "loop"]
          /\ batch' = [batch EXCEPT ![w] = <<>>]
          /\ rpc' = [rpc EXCEPT ![w] = "idle"]
      BY <2>11 DEF WorkerReports, WorkerGoes, Hands, R!Collect, R!Move
    <3> QED
      BY <2>1, <2>5, <3>1, WorkerHands DEF WorkerPositions
  <2>12. Hands3
    BY <1>2, <2>6, <2>7, <2>8, <2>9, <2>10, <2>11, Zenon DEF WorkerStep
  <2> QED
    BY <1>0, <2>1, <2>2, <2>12 DEF OwnTypeOK, WorkerPositions, limitVars, serverVars
<1> QED
  BY <1>1, <1>2

LEMMA BatchTypes ==
  ASSUME TypeInv, NEW b \in Batches, BatchCheckOpen(b) \/ BatchStep(b)
  PROVE  OwnTypeOK' /\ HandsInv'
<1> DEFINE StatsOK == /\ totalQueued' \in Nat /\ totalSent' \in Nat
                      /\ drops' \in [DropReasons -> Nat]
                      /\ fate' \in [AllEntries -> Fates]
<1> DEFINE Hands3 ==
      /\ HandsInv'
      /\ bpc' \in [Batches -> {"new", "preparing", "sending", "over"}]
      /\ batch' \in [Senders -> Seq(AllEntries)]
<1>0. /\ b \in Senders
      /\ rpc \in [Senders -> R!RetryPositions]
      /\ batch \in [Senders -> Seq(AllEntries)] /\ Len(batch[b]) \in Nat
      /\ batch[b] \in Seq(ToSet(BatchOf[b]))
      /\ fate \in [AllEntries -> Fates]
      /\ OwnTypeOK /\ HandsInv
  BY SenderKinds DEF TypeInv, ClientTypeOK, R!RetryTypeOK, OwnTypeOK, HandsInv
<1>1. CASE RetryLoop(b) \/ Exchange(b)
  BY <1>0, <1>1, LoopTypes
<1>2. CASE ~(RetryLoop(b) \/ Exchange(b))
  <2>1. UNCHANGED <<limitVars, clientClosed, keyZeroed, kpc, serverVars, ppc, wpc>>
    BY <1>2 DEF BatchCheckOpen, BatchStep, BatchInvalid, BatchBegins,
       BatchReports, batchRest
  <2>2. bpc[b] # "sending" =>
          /\ batch[b] = <<>> /\ rpc[b] = "idle"
          /\ UNCHANGED <<rpc, batch>> =>
               rpc' = [rpc EXCEPT ![b] = "idle"] /\ batch' = [batch EXCEPT ![b] = <<>>]
    BY <1>0 DEF HandsInv
  <2>3. <<>> \in Seq(ToSet(BatchOf[b]))
    OBVIOUS
  <2>4. ASSUME BatchCheckOpen(b) \/ BatchInvalid(b)
        PROVE  StatsOK /\ Hands3
    <3>1. /\ bpc[b] # "sending" /\ UNCHANGED <<rpc, batch>>
          /\ \E p \in {"over", "preparing"} : bpc' = [bpc EXCEPT ![b] = p]
          /\ UNCHANGED <<totalQueued, totalSent, drops>>
          /\ UNCHANGED fate \/ Settle(BatchOf[b], "refused")
      BY <2>4 DEF BatchCheckOpen, BatchInvalid, BatchGoes, loopVars
    <3>2. Hands3
      <4>1. PICK p \in {"over", "preparing"} : bpc' = [bpc EXCEPT ![b] = p]
        BY <3>1
      <4>2. rpc' = [rpc EXCEPT ![b] = "idle"] /\ batch' = [batch EXCEPT ![b] = <<>>]
        BY <2>2, <3>1
      <4>3. p \in {"new", "preparing", "sending", "over"} /\ p # "sending"
        OBVIOUS
      <4> QED
        BY <2>1, <2>3, <4>1, <4>2, <4>3, BatchHands
    <3>3. StatsOK
      BY <1>0, <3>1, SettleType DEF OwnTypeOK, Fates
    <3> QED
      BY <3>2, <3>3
  <2>5. ASSUME NEW rest \in Subsequences(BatchOf[b]), BatchBegins(b, rest)
        PROVE  StatsOK /\ Hands3
    <3>1. BatchOf[b] \in Seq(BatchEntries)
      BY ClientAssumption DEF ClientAssumption
    <3>2. rest \in Seq(ToSet(BatchOf[b]))
      BY <3>1, RestOfBatch
    <3>3. /\ bpc[b] # "sending" /\ UNCHANGED <<totalQueued, totalSent, drops>>
          /\ fate' = [e \in AllEntries |->
               IF e \in ToSet(BatchOf[b]) \ ToSet(rest) THEN "filtered" ELSE fate[e]]
      BY <2>5 DEF BatchBegins
    <3>4. StatsOK
      BY <1>0, <3>3 DEF OwnTypeOK, Fates
    <3>5. CASE rest = <<>>
      <4>1. bpc' = [bpc EXCEPT ![b] = "over"] /\ UNCHANGED <<rpc, batch>>
        BY <2>5, <3>5 DEF BatchBegins, BatchGoes, loopVars
      <4> QED
        BY <2>1, <2>2, <2>3, <3>3, <3>4, <4>1, BatchHands
    <3>6. CASE rest # <<>>
      <4>1. /\ bpc' = [bpc EXCEPT ![b] = "sending"]
            /\ batch' = [batch EXCEPT ![b] = rest]
            /\ rpc' = [rpc EXCEPT ![b] = "top"]
        BY <2>5, <3>6 DEF BatchBegins, BatchGoes, Hands, R!Begin, R!Move
      <4> QED
        BY <2>1, <3>2, <3>4, <4>1, BatchHands
    <3> QED
      BY <3>5, <3>6
  <2>6. ASSUME BatchReports(b)
        PROVE  StatsOK /\ Hands3
    <3>1. /\ bpc' = [bpc EXCEPT ![b] = "over"]
          /\ batch' = [batch EXCEPT ![b] = <<>>]
          /\ rpc' = [rpc EXCEPT ![b] = "idle"]
          /\ RecordSent(batch[b]) \/ recordDrop("send_error", batch[b])
      BY <2>6 DEF BatchReports, BatchGoes, Hands, R!Collect, R!Move
    <3>2. Hands3
      BY <2>1, <2>3, <3>1, BatchHands
    <3>3. StatsOK
      BY <1>0, <3>1, StatsType DEF OwnTypeOK, DropReasons
    <3> QED
      BY <3>2, <3>3
  <2>7. StatsOK /\ Hands3
    BY <1>2, <2>4, <2>5, <2>6, Zenon DEF BatchStep
  <2> QED
    BY <1>0, <2>1, <2>7 DEF OwnTypeOK, limitVars, serverVars
<1> QED
  BY <1>1, <1>2

LEMMA OtherTypes ==
  ASSUME TypeInv,
         \/ \E k \in Closers : CloseChecks(k) \/ Closing(k)
         \/ PauseExpires
         \/ \E enabled \in BOOLEAN : EnableResilientMode(enabled)
         \/ PublishHealthURL
         \/ UNCHANGED clientVars
  PROVE  OwnTypeOK' /\ HandsInv'
<1> USE DEF TypeInv, ClientTypeOK
<1>1. ASSUME NEW k \in Closers, CloseChecks(k) \/ Closing(k)
      PROVE  /\ UNCHANGED <<closerRest, loopVars>>
             /\ clientClosed' \in BOOLEAN /\ keyZeroed' \in BOOLEAN
             /\ \E p \in {"storing", "flushing", "cancelling", "closing",
                          "joining", "zeroing", "closed", "skipped"} :
                  kpc' = [kpc EXCEPT ![k] = p]
  <2>1. CASE CloseChecks(k)
    BY <2>1 DEF CloseChecks, CloserGoes, OwnTypeOK
  <2>2. CASE CloseStores(k) \/ CloseFlushed(k) \/ CloseFlushTimesOut(k)
    BY <2>2 DEF CloseStores, CloseFlushed, CloseFlushTimesOut, CloserGoes, OwnTypeOK
  <2>3. CASE CloseCancels(k)
    BY <2>3 DEF CloseCancels, CloserGoes, OwnTypeOK, R!CancelContext, R!callVars,
       loopVars
  <2>4. CASE CloseQueue(k) \/ CloseJoins(k) \/ CloseZeroesKey(k)
    BY <2>4 DEF CloseQueue, CloseJoins, CloseZeroesKey, CloserGoes, OwnTypeOK
  <2> QED
    BY <1>1, <2>1, <2>2, <2>3, <2>4 DEF Closing
<1>2. CASE \E k \in Closers : CloseChecks(k) \/ Closing(k)
  <2>1. PICK k \in Closers : CloseChecks(k) \/ Closing(k)
    BY <1>2
  <2>2. HandsInv'
    BY <1>1, <2>1, HandsKept DEF closerRest, loopVars
  <2>3. kpc' \in [Closers ->
          {"new", "storing", "flushing", "cancelling", "closing", "joining",
           "zeroing", "closed", "skipped"}]
    <3>1. PICK p \in {"storing", "flushing", "cancelling", "closing",
                      "joining", "zeroing", "closed", "skipped"} :
                  kpc' = [kpc EXCEPT ![k] = p]
      BY <1>1, <2>1
    <3> QED
      BY <3>1 DEF OwnTypeOK
  <2>4. OwnTypeOK'
    BY <1>1, <2>1, <2>3 DEF OwnTypeOK, closerRest, statVars, limitVars, serverVars
  <2> QED
    BY <2>2, <2>4
<1>3. CASE PauseExpires \/ UNCHANGED clientVars
  <2>1. UNCHANGED <<wpc, bpc, batch, rpc>>
    BY <1>3 DEF PauseExpires, clientVars, loopVars
  <2>2. HandsInv'
    BY <2>1, HandsKept
  <2>3. OwnTypeOK'
    BY <1>3 DEF OwnTypeOK, PauseExpires, clientVars, statVars, limitVars,
       serverVars, lifeVars
  <2> QED
    BY <2>2, <2>3
<1>4. CASE \/ \E enabled \in BOOLEAN : EnableResilientMode(enabled)
           \/ PublishHealthURL
  <2>1. UNCHANGED <<wpc, bpc, batch, rpc>>
    BY <1>4 DEF EnableResilientMode, PublishHealthURL, R!EnableResilientMode,
       R!SetHealthCheckURL, R!callVars
  <2>2. HandsInv'
    BY <2>1, HandsKept
  <2>3. OwnTypeOK'
    BY <1>4 DEF OwnTypeOK, EnableResilientMode, PublishHealthURL, statVars,
       limitVars, serverVars
  <2> QED
    BY <2>2, <2>3
<1> QED
  BY <1>2, <1>3, <1>4

LEMMA TypeStep == TypeInv /\ [ClientNext]_clientVars => TypeInv'
<1> SUFFICES ASSUME TypeInv, [ClientNext]_clientVars PROVE TypeInv'
  OBVIOUS
<1>1. [Q!QueueNext]_(Q!queueVars)
  BY StepOfQueue DEF TypeInv, ClientTypeOK
<1>2. QP!QueueInv'
  BY <1>1, SameQueue, QP!StepInv, QueueAssumed DEF TypeInv
<1>3. Q!QueueTypeOK' /\ TakenInv'
  BY <1>1, <1>2, SameQueue, TakenStep DEF TypeInv, ClientTypeOK, QP!QueueInv
<1>4. RP!RetryInv'
  BY StepOfRetry, SameRetryer, RP!StepInv, RetryAssumed DEF TypeInv
<1>5. R!RetryTypeOK'
  BY <1>4, SameRetryer DEF RP!RetryInv
<1>6. OwnTypeOK' /\ HandsInv'
  BY ProducerTypes, WorkerTypes, BatchTypes, OtherTypes DEF ClientNext
<1> QED
  BY <1>2, <1>3, <1>4, <1>5, <1>6 DEF TypeInv, ClientTypeOK

LEMMA TypesHold == ClientSpec => []TypeInv
  BY InitTypes, TypeStep, PTL DEF ClientSpec

-----------------------------------------------------------------------------
(* What a step does to the entries: the ten ways they change hands.        *)

Waits(e) == ppc[e] \in {"new", "admitting", "enqueueing"}
Unsent(b) == bpc[b] \in {"new", "preparing"}

OthersWait(E, B) ==
  /\ \A e \in Entries \ E : Waits(e)' <=> Waits(e)
  /\ \A b \in Batches \ B : Unsent(b)' <=> Unsent(b)

\* The entries of s are settled as f, and counted as it.
CountAs(s, f) ==
  /\ Settle(s, f)
  /\ drops' = IF f \in DropReasons THEN [drops EXCEPT ![f] = @ + Len(s)] ELSE drops
  /\ totalSent' = IF f = "sent" THEN totalSent + Len(s) ELSE totalSent

NothingSettled == UNCHANGED <<fate, totalSent, drops>>

Still ==
  /\ OthersWait({}, {})
  /\ UNCHANGED <<items, taken, batch>> /\ NothingSettled

Refuse(e, f) ==
  /\ Waits(e) /\ ~Waits(e)' /\ OthersWait({e}, {})
  /\ CountAs(<<e>>, f) /\ f \notin {"pending", "sent"}
  /\ UNCHANGED <<items, taken, batch>>

RefuseAll(b) ==
  /\ Unsent(b) /\ ~Unsent(b)' /\ OthersWait({}, {b})
  /\ CountAs(BatchOf[b], "refused")
  /\ UNCHANGED <<items, taken, batch>>

PassOn(b, rest) ==
  /\ Unsent(b) /\ ~Unsent(b)' /\ OthersWait({}, {b})
  /\ batch[b] = <<>> /\ batch' = [batch EXCEPT ![b] = rest]
  /\ fate' = [e \in AllEntries |->
       IF e \in ToSet(BatchOf[b]) \ ToSet(rest) THEN "filtered" ELSE fate[e]]
  /\ UNCHANGED <<items, taken, totalSent, drops>>

PutIn(e) ==
  /\ Waits(e) /\ ~Waits(e)' /\ OthersWait({e}, {})
  /\ items' = Append(items, e)
  /\ UNCHANGED <<taken, batch>> /\ NothingSettled

TakeOut(w) ==
  /\ OthersWait({}, {})
  /\ items # <<>> /\ items' = Tail(items)
  /\ taken[w] = None /\ taken' = [taken EXCEPT ![w] = Head(items)]
  /\ UNCHANGED batch /\ NothingSettled

PickUp(w) ==
  /\ OthersWait({}, {})
  /\ taken[w] \in Entries /\ taken' = [taken EXCEPT ![w] = None]
  /\ batch[w] = <<>> /\ batch' = [batch EXCEPT ![w] = <<taken[w]>>]
  /\ UNCHANGED items /\ NothingSettled

PutBack(w) ==
  /\ OthersWait({}, {})
  /\ Len(batch[w]) = 1 /\ batch' = [batch EXCEPT ![w] = <<>>]
  /\ items' = Append(items, batch[w][1])
  /\ UNCHANGED taken /\ NothingSettled

FillUp(w) ==
  /\ OthersWait({}, {})
  /\ \E n \in 0..Len(items) :
       /\ items' = SubSeq(items, n + 1, Len(items))
       /\ batch' = [batch EXCEPT ![w] = batch[w] \o SubSeq(items, 1, n)]
  /\ UNCHANGED taken /\ NothingSettled

Report(c, f) ==
  /\ OthersWait({}, {})
  /\ CountAs(batch[c], f) /\ f # "pending"
  /\ IF f \in NeverSent THEN rpc[c] = "idle"
     ELSE rpc[c] = "done" /\ (f = "sent" <=> outcome[c] = "ok")
  /\ batch' = [batch EXCEPT ![c] = <<>>]
  /\ UNCHANGED <<items, taken>>

EntryMoves ==
  \/ Still
  \/ \E e \in Entries : PutIn(e) \/ \E f \in Fates : Refuse(e, f)
  \/ \E b \in Batches :
       RefuseAll(b) \/ \E rest \in Subsequences(BatchOf[b]) : PassOn(b, rest)
  \/ \E w \in Workers : TakeOut(w) \/ PickUp(w) \/ PutBack(w) \/ FillUp(w)
  \/ \E c \in Senders, f \in Fates : Report(c, f)

LEMMA CountedDrop ==
  ASSUME NEW r \in DropReasons, NEW s, recordDrop(r, s)
  PROVE  CountAs(s, r) /\ r \in Fates /\ r \notin {"pending", "sent"}
  BY DEF recordDrop, CountAs, DropReasons, Fates

LEMMA CountedSent ==
  ASSUME NEW s, RecordSent(s)
  PROVE  CountAs(s, "sent")
  BY DEF RecordSent, CountAs, DropReasons

LEMMA CountedRefused ==
  ASSUME NEW s, Settle(s, "refused"), UNCHANGED <<drops, totalSent>>
  PROVE  CountAs(s, "refused")
  BY DEF CountAs, DropReasons

LEMMA ProducerMoves ==
  ASSUME TypeInv, NEW e \in Entries, CheckOpen(e) \/ Sending(e)
  PROVE  Still \/ PutIn(e) \/ \E f \in Fates : Refuse(e, f)
<1>1. ppc \in [Entries -> {"new", "admitting", "enqueueing", "counting",
                           "queued", "gone"}]
  BY DEF TypeInv, ClientTypeOK, OwnTypeOK
<1>2. UNCHANGED <<batch, bpc>>
  BY DEF CheckOpen, Sending, DropAtAdmission, Admit, EnqueueAccepted,
     EnqueueRefused, CountQueued, producerOnly
<1>3. ASSUME Waits(e), ppc' = [ppc EXCEPT ![e] = "gone"]
      PROVE  Waits(e) /\ ~Waits(e)' /\ OthersWait({e}, {})
  BY <1>1, <1>2, <1>3 DEF Waits, Unsent, OthersWait
<1>4. CASE CheckOpen(e)
  <2>1. UNCHANGED <<items, taken, totalSent, drops>>
    BY <1>4 DEF CheckOpen, fifoVars
  <2>2. CASE clientClosed
    <3>1. Waits(e) /\ ppc' = [ppc EXCEPT ![e] = "gone"] /\ Settle(<<e>>, "refused")
      BY <1>4, <2>2 DEF CheckOpen, ProducerGoes, Waits
    <3> QED
      BY <1>2, <1>3, <2>1, <3>1, CountedRefused DEF Refuse, Fates
  <2>3. CASE ~clientClosed
    <3>1. ppc[e] = "new" /\ ppc' = [ppc EXCEPT ![e] = "admitting"] /\ UNCHANGED fate
      BY <1>4, <2>3 DEF CheckOpen, ProducerGoes
    <3> QED
      BY <1>1, <1>2, <2>1, <3>1 DEF Still, OthersWait, Waits, Unsent, NothingSettled
  <2> QED
    BY <2>2, <2>3
<1>5. ASSUME NEW r \in {"validation_error", "before_send", "quota_exceeded"},
             DropAtAdmission(e, r)
      PROVE  \E f \in Fates : Refuse(e, f)
  <2>1. /\ Waits(e) /\ ppc' = [ppc EXCEPT ![e] = "gone"]
        /\ UNCHANGED <<items, taken>> /\ recordDrop(r, <<e>>)
    BY <1>5 DEF DropAtAdmission, ProducerGoes, Waits, fifoVars
  <2>2. r \in DropReasons
    BY DEF DropReasons
  <2> QED
    BY <1>2, <1>3, <2>1, <2>2, CountedDrop DEF Refuse
<1>6. CASE Admit(e) \/ CountQueued(e)
  <2>1. /\ UNCHANGED <<items, taken, fate, totalSent, drops>>
        /\ \/ ppc[e] = "admitting" /\ ppc' = [ppc EXCEPT ![e] = "enqueueing"]
           \/ ppc[e] = "counting" /\ ppc' = [ppc EXCEPT ![e] = "queued"]
    BY <1>6 DEF Admit, CountQueued, ProducerGoes, fifoVars, statVars
  <2> QED
    BY <1>1, <1>2, <2>1 DEF Still, OthersWait, Waits, Unsent, NothingSettled
<1>7. CASE EnqueueAccepted(e)
  <2>1. /\ ppc[e] = "enqueueing" /\ ppc' = [ppc EXCEPT ![e] = "counting"]
        /\ items' = Append(items, e) /\ UNCHANGED <<taken, fate, totalSent, drops>>
    BY <1>7 DEF EnqueueAccepted, ProducerGoes, Q!Enqueue, statVars
  <2> QED
    BY <1>1, <1>2, <2>1 DEF PutIn, OthersWait, Waits, Unsent, NothingSettled
<1>8. CASE EnqueueRefused(e)
  <2>1. /\ Waits(e) /\ ppc' = [ppc EXCEPT ![e] = "gone"]
        /\ UNCHANGED <<items, taken>> /\ recordDrop("queue_overflow", <<e>>)
    BY <1>8 DEF EnqueueRefused, ProducerGoes, Waits, fifoVars
  <2>2. "queue_overflow" \in DropReasons
    BY DEF DropReasons
  <2> QED
    BY <1>2, <1>3, <2>1, <2>2, CountedDrop DEF Refuse
<1> QED
  BY <1>4, <1>5, <1>6, <1>7, <1>8 DEF Sending

LEMMA WorkerMoves ==
  ASSUME TypeInv, NEW w \in Workers, WorkerStep(w)
  PROVE  \/ Still \/ TakeOut(w) \/ PickUp(w) \/ PutBack(w) \/ FillUp(w)
         \/ \E f \in Fates : Report(w, f)
<1>0. /\ w \in Senders /\ HandsInv /\ TakenInv
      /\ wpc[w] \in {"loop", "pausing", "exit"} => batch[w] = <<>>
      /\ wpc[w] \in {"requeueing", "filling"} => Len(batch[w]) = 1
      /\ taken[w] \in Entries \cup {None}
      /\ taken \in [Workers -> Entries \cup {None}]
      /\ batch \in [Senders -> Seq(AllEntries)]
  BY SenderKinds DEF TypeInv, ClientTypeOK, HandsInv, Q!QueueTypeOK, OwnTypeOK
<1>1. CASE RetryLoop(w) \/ Exchange(w)
  BY <1>0, <1>1, LoopMoves DEF exchangeRest, Still, OthersWait, Waits, Unsent,
     NothingSettled, fifoVars, statVars
<1>2. CASE WorkerDequeues(w)
  <2>1. OthersWait({}, {}) /\ UNCHANGED batch /\ NothingSettled
    BY <1>2 DEF WorkerDequeues, workerRest, statVars, OthersWait, Waits, Unsent,
       NothingSettled
  <2>2. ASSUME NEW p \in {"dequeue", "drain"}, Q!TakeHead(w, p) PROVE TakeOut(w)
    <3>1. taken[w] = None
      BY <1>0, <2>2 DEF Q!TakeHead, TakenInv
    <3> QED
      BY <2>1, <2>2, <3>1 DEF Q!TakeHead, TakeOut
  <2>3. ASSUME dequeuePc[w] # "returned", Q!ReturnNil(w)
        PROVE  UNCHANGED <<items, taken>>
    BY <1>0, <2>3 DEF Q!ReturnNil, TakenInv
  <2>4. CASE Q!ClosedCheck(w) \/ Q!SelectCtxDone(w) \/ Q!DrainedNil(w)
    <3>1. UNCHANGED <<items, taken>>
      BY <2>3, <2>4 DEF Q!ClosedCheck, Q!SelectCtxDone, Q!DrainedNil
    <3> QED
      BY <2>1, <3>1 DEF Still
  <2>5. CASE Q!Call(w) \/ Q!FoundEmpty(w) \/ Q!SelectClosed(w)
               \/ Q!SelectNotEmpty(w) \/ Q!SelectPark(w)
    <3>1. UNCHANGED <<items, taken>>
      BY <2>5 DEF Q!Call, Q!FoundEmpty, Q!SelectClosed, Q!SelectNotEmpty, Q!SelectPark
    <3> QED
      BY <2>1, <3>1 DEF Still
  <2> QED
    BY <1>2, <2>2, <2>4, <2>5 DEF WorkerDequeues, Q!DequeueStep
<1>3. CASE WorkerTakes(w)
  <2>1. /\ OthersWait({}, {}) /\ NothingSettled /\ UNCHANGED items
        /\ batch[w] = <<>> /\ taken' = [taken EXCEPT ![w] = None]
    BY <1>0, <1>3 DEF WorkerTakes, Q!Return, workerRest, statVars, OthersWait, Waits,
       Unsent, NothingSettled
  <2>2. CASE taken[w] = None
    BY <1>0, <1>3, <2>1, <2>2 DEF WorkerTakes, Still
  <2>3. CASE taken[w] # None
    <3>1. taken[w] \in Entries /\ batch' = [batch EXCEPT ![w] = <<taken[w]>>]
      BY <1>0, <1>3, <2>3 DEF WorkerTakes, Hands
    <3> QED
      BY <2>1, <3>1 DEF PickUp
  <2> QED
    BY <2>2, <2>3
<1>4. CASE RequeueAccepted(w)
  BY <1>0, <1>4 DEF RequeueAccepted, Q!Enqueue, Hands, PutBack, workerRest, statVars,
     OthersWait, Waits, Unsent, NothingSettled
<1>5. CASE RequeueRefused(w)
  <2>1. /\ OthersWait({}, {}) /\ UNCHANGED <<items, taken>>
        /\ batch' = [batch EXCEPT ![w] = <<>>]
        /\ recordDrop("ratelimit_backoff", batch[w])
    BY <1>5 DEF RequeueRefused, Hands, workerRest, fifoVars, OthersWait, Waits, Unsent
  <2>2. "ratelimit_backoff" \in DropReasons \cap NeverSent
    BY DEF DropReasons, NeverSent
  <2>3. rpc[w] = "idle"
    BY <1>0, <1>5 DEF RequeueRefused, HandsInv
  <2> QED
    BY <2>1, <2>2, <2>3, CountedDrop DEF Report
<1>6. CASE PauseElapsed(w) \/ PauseCancelled(w)
  BY <1>6 DEF PauseElapsed, PauseCancelled, workerRest, fifoVars, statVars, Still,
     OthersWait, Waits, Unsent, NothingSettled
<1>7. CASE FillBatch(w)
  <2> DEFINE n == Q!BatchSizeFor(BatchSize - 1)
  <2>1. n \in 0..Len(items) /\ Q!Batch(BatchSize - 1) = SubSeq(items, 1, n)
    BY FilledBatch
  <2>2. /\ items' = SubSeq(items, n + 1, Len(items))
        /\ batch' = [batch EXCEPT ![w] = batch[w] \o SubSeq(items, 1, n)]
        /\ UNCHANGED taken
    BY <1>7, <2>1 DEF FillBatch, Hands, Q!DequeueBatch
  <2>3. OthersWait({}, {}) /\ NothingSettled
    BY <1>7 DEF FillBatch, workerRest, statVars, OthersWait, Waits, Unsent,
       NothingSettled
  <2> HIDE DEF n
  <2> QED
    BY <2>1, <2>2, <2>3 DEF FillUp
<1>8. CASE WorkerReports(w)
  <2>1. /\ OthersWait({}, {}) /\ UNCHANGED <<items, taken>>
        /\ batch' = [batch EXCEPT ![w] = <<>>] /\ rpc[w] = "done"
        /\ IF outcome[w] = "ok" THEN RecordSent(batch[w])
           ELSE recordDrop(ReasonFor(outcome[w]), batch[w])
    BY <1>8 DEF WorkerReports, Hands, workerRest, fifoVars, OthersWait, Waits, Unsent,
       R!Collect, R!At
  <2>2. ReasonFor(outcome[w]) \in DropReasons \ NeverSent
    BY DEF ReasonFor, DropReasons, NeverSent
  <2>3. "sent" \in Fates \ NeverSent
    BY DEF Fates, NeverSent
  <2>4. CASE outcome[w] = "ok"
    BY <2>1, <2>3, <2>4, CountedSent DEF Report
  <2>5. CASE outcome[w] # "ok"
    BY <2>1, <2>2, <2>5, CountedDrop DEF Report
  <2> QED
    BY <2>4, <2>5
<1> QED
  BY <1>1, <1>2, <1>3, <1>4, <1>5, <1>6, <1>7, <1>8 DEF WorkerStep

LEMMA BatchMoves ==
  ASSUME TypeInv, NEW b \in Batches, BatchCheckOpen(b) \/ BatchStep(b)
  PROVE  \/ Still \/ RefuseAll(b)
         \/ \E rest \in Subsequences(BatchOf[b]) : PassOn(b, rest)
         \/ \E f \in Fates : Report(b, f)
<1>0. /\ b \in Senders
      /\ bpc \in [Batches -> {"new", "preparing", "sending", "over"}]
      /\ bpc[b] # "sending" => batch[b] = <<>>
      /\ batch \in [Senders -> Seq(AllEntries)]
  BY SenderKinds DEF TypeInv, ClientTypeOK, HandsInv, OwnTypeOK
<1>1. CASE RetryLoop(b) \/ Exchange(b)
  BY <1>0, <1>1, LoopMoves DEF exchangeRest, Still, OthersWait, Waits, Unsent,
     NothingSettled, fifoVars, statVars
<1>2. ASSUME NEW p \in {"sending", "over"}, bpc[b] # "sending",
             bpc' = [bpc EXCEPT ![b] = p], Unsent(b), UNCHANGED ppc
      PROVE  Unsent(b) /\ ~Unsent(b)' /\ OthersWait({}, {b})
  BY <1>0, <1>2 DEF Unsent, OthersWait, Waits
<1>3. CASE BatchCheckOpen(b) \/ BatchInvalid(b)
  <2>1. UNCHANGED <<ppc, items, taken, batch, totalSent, drops>>
    BY <1>3 DEF BatchCheckOpen, BatchInvalid, batchRest, fifoVars
  <2>2. \/ /\ bpc[b] = "new" /\ bpc' = [bpc EXCEPT ![b] = "preparing"]
           /\ UNCHANGED fate
        \/ /\ bpc[b] \in {"new", "preparing"} /\ bpc' = [bpc EXCEPT ![b] = "over"]
           /\ Settle(BatchOf[b], "refused")
    BY <1>3 DEF BatchCheckOpen, BatchInvalid, BatchGoes
  <2>3. CASE /\ bpc[b] = "new" /\ bpc' = [bpc EXCEPT ![b] = "preparing"]
             /\ UNCHANGED fate
    BY <1>0, <2>1, <2>3 DEF Still, OthersWait, Waits, Unsent, NothingSettled
  <2>4. CASE /\ bpc[b] \in {"new", "preparing"} /\ bpc' = [bpc EXCEPT ![b] = "over"]
             /\ Settle(BatchOf[b], "refused")
    BY <1>2, <2>1, <2>4, CountedRefused DEF RefuseAll, Unsent
  <2> QED
    BY <2>2, <2>3, <2>4
<1>4. ASSUME NEW rest \in Subsequences(BatchOf[b]), BatchBegins(b, rest)
      PROVE  PassOn(b, rest)
  <2>1. /\ bpc[b] # "sending" /\ Unsent(b) /\ batch[b] = <<>>
        /\ UNCHANGED <<ppc, items, taken, totalSent, drops>>
        /\ fate' = [e \in AllEntries |->
             IF e \in ToSet(BatchOf[b]) \ ToSet(rest) THEN "filtered" ELSE fate[e]]
    BY <1>0, <1>4 DEF BatchBegins, batchRest, fifoVars, Unsent
  <2>2. CASE rest = <<>>
    <3>1. bpc' = [bpc EXCEPT ![b] = "over"] /\ batch' = [batch EXCEPT ![b] = rest]
      BY <1>0, <1>4, <2>1, <2>2 DEF BatchBegins, BatchGoes
    <3> QED
      BY <1>2, <2>1, <3>1 DEF PassOn
  <2>3. CASE rest # <<>>
    <3>1. bpc' = [bpc EXCEPT ![b] = "sending"] /\ batch' = [batch EXCEPT ![b] = rest]
      BY <1>4, <2>3 DEF BatchBegins, BatchGoes, Hands
    <3> QED
      BY <1>2, <2>1, <3>1 DEF PassOn
  <2> QED
    BY <2>2, <2>3
<1>5. CASE BatchReports(b)
  <2>1. /\ UNCHANGED <<ppc, items, taken>> /\ rpc[b] = "done"
        /\ bpc[b] = "sending" /\ bpc' = [bpc EXCEPT ![b] = "over"]
        /\ batch' = [batch EXCEPT ![b] = <<>>]
        /\ IF outcome[b] = "ok" THEN RecordSent(batch[b])
           ELSE recordDrop("send_error", batch[b])
    BY <1>5 DEF BatchReports, BatchGoes, Hands, batchRest, fifoVars, R!Collect, R!At
  <2>2. OthersWait({}, {})
    BY <1>0, <2>1 DEF OthersWait, Waits, Unsent
  <2>3. "send_error" \in DropReasons \ NeverSent /\ "sent" \in Fates \ NeverSent
    BY DEF DropReasons, Fates, NeverSent
  <2>4. CASE outcome[b] = "ok"
    BY <2>1, <2>2, <2>3, <2>4, CountedSent DEF Report
  <2>5. CASE outcome[b] # "ok"
    BY <2>1, <2>2, <2>3, <2>5, CountedDrop DEF Report
  <2> QED
    BY <2>4, <2>5
<1> QED
  BY <1>1, <1>3, <1>4, <1>5 DEF BatchStep

LEMMA StepMoves == TypeInv /\ [ClientNext]_clientVars => EntryMoves
<1> SUFFICES ASSUME TypeInv, [ClientNext]_clientVars PROVE EntryMoves
  OBVIOUS
<1>1. ASSUME UNCHANGED <<ppc, bpc, items, batch, taken, fate, totalSent, drops>>
      PROVE  Still
  BY <1>1 DEF Still, OthersWait, Waits, Unsent, NothingSettled
<1>2. ASSUME NEW k \in Closers, CloseChecks(k) \/ Closing(k) PROVE Still
  <2>1. UNCHANGED <<ppc, bpc, items, batch, fate, totalSent, drops>>
    BY <1>2 DEF CloseChecks, Closing, CloseStores, CloseFlushed,
       CloseFlushTimesOut, CloseCancels, CloseQueue, CloseJoins, CloseZeroesKey,
       closerRest, statVars, fifoVars, Q!Close, Q!Cancel
  <2>2. CASE CloseCancels(k) /\ ~ctxDone
    <3>1. taken' = [w \in Workers |-> IF w \in Q!Parked THEN None ELSE taken[w]]
      BY <2>2 DEF CloseCancels, Q!Cancel
    <3>2. \A w \in Q!Parked : taken[w] = None
      BY DEF TypeInv, TakenInv, Q!Parked
    <3>3. taken \in [Workers -> Entries \cup {None}]
      BY DEF TypeInv, ClientTypeOK, Q!QueueTypeOK
    <3>4. UNCHANGED taken
      BY <3>1, <3>2, <3>3
    <3> QED
      BY <1>1, <2>1, <3>4
  <2>3. CASE ~(CloseCancels(k) /\ ~ctxDone)
    <3>1. UNCHANGED taken
      BY <1>2, <2>3 DEF CloseChecks, Closing, CloseStores, CloseFlushed,
         CloseFlushTimesOut, CloseCancels, CloseQueue, CloseJoins,
         CloseZeroesKey, fifoVars, Q!Close
    <3> QED
      BY <1>1, <2>1, <3>1
  <2> QED
    BY <2>2, <2>3
<1>3. CASE \/ PauseExpires \/ PublishHealthURL \/ UNCHANGED clientVars
           \/ \E enabled \in BOOLEAN : EnableResilientMode(enabled)
  <2>1. UNCHANGED <<ppc, bpc, items, batch, taken, fate, totalSent, drops>>
    BY <1>3 DEF PauseExpires, PublishHealthURL, EnableResilientMode, clientVars,
       fifoVars, statVars
  <2> QED
    BY <1>1, <2>1 DEF EntryMoves
<1>4. ASSUME NEW c \in Senders, NEW f \in Fates, Report(c, f) PROVE EntryMoves
  BY <1>4 DEF EntryMoves
<1>5. ASSUME NEW e \in Entries, CheckOpen(e) \/ Sending(e) PROVE EntryMoves
  BY <1>5, ProducerMoves DEF EntryMoves
<1>6. ASSUME NEW w \in Workers, WorkerStep(w) PROVE EntryMoves
  BY <1>6, <1>4, WorkerMoves, SenderKinds DEF EntryMoves
<1>7. ASSUME NEW b \in Batches, BatchCheckOpen(b) \/ BatchStep(b) PROVE EntryMoves
  BY <1>7, <1>4, BatchMoves, SenderKinds DEF EntryMoves
<1>8. Still => EntryMoves
  BY DEF EntryMoves
<1> QED
  BY <1>2, <1>3, <1>5, <1>6, <1>7, <1>8 DEF ClientNext

-----------------------------------------------------------------------------
(* Types, the retries and the key.                                         *)

\* Whatever the workers, senders and closers do in whatever order, every
\* variable of the client keeps its type: the queue never exceeds its size,
\* and every goroutine is at a position its function has.
THEOREM ClientTypeCorrect == ClientSpec => []ClientTypeOK
<1>1. TypeInv => ClientTypeOK
  BY DEF TypeInv
<1> QED
  BY <1>1, TypesHold, PTL

\* Sending with the client retries exactly: for workers and SendLogBatch callers
\* alike a given-up request failed MaxRetries + 1 times with a counted error, and
\* after Close has cancelled the context each begins at most one more.
THEOREM ClientRetriesExactly ==
  ClientSpec => [](R!BudgetSpentExactly /\ R!OneLateStartAtMost)
<1>1. TypeInv => R!BudgetSpentExactly /\ R!OneLateStartAtMost
  <2> SUFFICES ASSUME RP!RetryInv PROVE R!BudgetSpentExactly /\ R!OneLateStartAtMost
    BY DEF TypeInv
  <2>1. \A c \in Senders : MaxRetries >= 0 => failures[c] <= MaxRetries + 1
    BY DEF RP!RetryInv, RP!ChargedExactly, RP!ChargedFor
  <2>2. \A c \in Senders :
          outcome[c] = "exhausted" =>
            MaxRetries >= 0 /\ failures[c] = MaxRetries + 1 /\ lastErr[c] \in R!Counted
    BY DEF RP!RetryInv, RP!Exhausted, RP!Counted, R!Counted
  <2>3. \A c \in Senders : lateStarts[c] <= 1
    BY DEF RP!RetryInv, RP!LateAreLeaving
  <2> QED
    BY <2>1, <2>2, <2>3 DEF R!BudgetSpentExactly, R!OneLateStartAtMost
<1> QED
  BY <1>1, TypesHold, PTL

-----------------------------------------------------------------------------
(* Standing by.                                                            *)

\* Whatever marks the end of the client comes after c.cancel().
CancelledFirst ==
  /\ queueClosed => ctxDone
  /\ \A k \in Closers :
       kpc[k] \in {"closing", "joining", "zeroing", "closed"} => ctxDone
  /\ \A w \in Workers : wpc[w] = "exit" => ctxDone

\* Only a Close closes the queue or gets on with its own steps.
LEMMA WhoCloses ==
  ASSUME TypeInv, [ClientNext]_clientVars
  PROVE  \/ UNCHANGED <<queueClosed, kpc>>
         \/ \E k \in Closers : CloseChecks(k) \/ Closing(k)
<1> DEFINE Same == UNCHANGED <<queueClosed, kpc>>
<1>1. ASSUME NEW e \in Entries, CheckOpen(e) \/ Sending(e) PROVE Same
  BY <1>1 DEF CheckOpen, Sending, DropAtAdmission, Admit, EnqueueAccepted,
     EnqueueRefused, CountQueued, producerOnly, lifeVars, fifoVars, Q!Enqueue
<1>2. ASSUME NEW c \in Senders, RetryLoop(c) \/ Exchange(c) PROVE Same
  BY <1>2, LoopMoves DEF exchangeRest, fifoVars
<1>3. ASSUME NEW w \in Workers, WorkerStep(w) PROVE Same
  <2>1. CASE RetryLoop(w) \/ Exchange(w)
    BY <1>2, <2>1, SenderKinds
  <2>2. CASE WorkerDequeues(w)
    BY <2>2 DEF WorkerDequeues, workerRest, Q!Call, Q!DequeueStep, Q!TakeHead,
       Q!FoundEmpty, Q!ClosedCheck, Q!ReturnNil, Q!SelectCtxDone, Q!SelectClosed,
       Q!SelectNotEmpty, Q!SelectPark, Q!DrainedNil
  <2>3. CASE \/ WorkerTakes(w) \/ RequeueAccepted(w) \/ RequeueRefused(w)
             \/ PauseElapsed(w) \/ PauseCancelled(w) \/ FillBatch(w)
             \/ WorkerReports(w)
    BY <2>3 DEF WorkerTakes, RequeueAccepted, RequeueRefused, PauseElapsed,
       PauseCancelled, FillBatch, WorkerReports, workerRest, fifoVars, Q!Return,
       Q!Enqueue, Q!DequeueBatch
  <2> QED
    BY <1>3, <2>1, <2>2, <2>3 DEF WorkerStep
<1>4. ASSUME NEW b \in Batches, BatchCheckOpen(b) \/ BatchStep(b) PROVE Same
  <2>1. CASE RetryLoop(b) \/ Exchange(b)
    BY <1>2, <2>1, SenderKinds
  <2>2. CASE ~(RetryLoop(b) \/ Exchange(b))
    BY <1>4, <2>2 DEF BatchCheckOpen, BatchStep, BatchInvalid, BatchBegins,
       BatchReports, batchRest, fifoVars
  <2> QED
    BY <2>1, <2>2
<1>5. CASE PauseExpires \/ UNCHANGED clientVars
  BY <1>5 DEF PauseExpires, clientVars, lifeVars, fifoVars
<1>6. CASE PublishHealthURL \/ \E enabled \in BOOLEAN : EnableResilientMode(enabled)
  BY <1>6 DEF PublishHealthURL, EnableResilientMode, fifoVars
<1> HIDE DEF Same
<1> QED
  BY <1>1, <1>3, <1>4, <1>5, <1>6 DEF ClientNext, Same

\* A worker leaves on a nil result or by its cancelled pause.
LEMMA HowWorkersLeave ==
  ASSUME TypeInv, [ClientNext]_clientVars,
         NEW w \in Workers, wpc'[w] = "exit", wpc[w] # "exit"
  PROVE  ctxDone \/ (dequeuePc[w] = "returned" /\ taken[w] = None)
<1>0. wpc \in [Workers -> WorkerPositions]
  BY DEF TypeInv, ClientTypeOK, OwnTypeOK, WorkerPositions
<1>1. ASSUME NEW e \in Entries, CheckOpen(e) \/ Sending(e) PROVE FALSE
  BY <1>1 DEF CheckOpen, Sending, DropAtAdmission, Admit, EnqueueAccepted,
     EnqueueRefused, CountQueued, producerOnly
<1>2. ASSUME NEW c \in Senders, RetryLoop(c) \/ Exchange(c) PROVE FALSE
  BY <1>2, LoopMoves DEF exchangeRest
<1>3. ASSUME NEW v \in Workers, WorkerStep(v)
      PROVE  ctxDone \/ (dequeuePc[w] = "returned" /\ taken[w] = None)
  <2>1. CASE RetryLoop(v) \/ Exchange(v)
    BY <1>2, <2>1, SenderKinds
  <2>2. CASE WorkerDequeues(v)
    BY <2>2 DEF WorkerDequeues
  <2>3. CASE WorkerTakes(v)
    <3>1. /\ dequeuePc[v] = "returned"
          /\ \/ taken[v] = None /\ wpc' = [wpc EXCEPT ![v] = "exit"]
             \/ \E p \in {"requeueing", "filling"} : wpc' = [wpc EXCEPT ![v] = p]
      BY <2>3 DEF WorkerTakes, Q!Return, WorkerGoes
    <3> QED
      BY <1>0, <3>1
  <2>4. CASE PauseCancelled(v)
    BY <2>4 DEF PauseCancelled
  <2>5. CASE \/ RequeueAccepted(v) \/ RequeueRefused(v) \/ PauseElapsed(v)
             \/ FillBatch(v) \/ WorkerReports(v)
    <3>1. \E p \in {"pausing", "loop", "sending"} : wpc' = [wpc EXCEPT ![v] = p]
      BY <2>5 DEF RequeueAccepted, RequeueRefused, PauseElapsed, FillBatch,
         WorkerReports, WorkerGoes
    <3> QED
      BY <1>0, <3>1
  <2> QED
    BY <1>3, <2>1, <2>2, <2>3, <2>4, <2>5 DEF WorkerStep
<1>4. ASSUME NEW b \in Batches, BatchCheckOpen(b) \/ BatchStep(b) PROVE FALSE
  BY <1>2, <1>4, SenderKinds DEF BatchCheckOpen, BatchStep, BatchInvalid, BatchBegins,
     BatchReports, batchRest
<1>5. ASSUME NEW k \in Closers, CloseChecks(k) \/ Closing(k) PROVE FALSE
  BY <1>5 DEF CloseChecks, Closing, CloseStores, CloseFlushed, CloseFlushTimesOut,
     CloseCancels, CloseQueue, CloseJoins, CloseZeroesKey, closerRest
<1>6. CASE \/ PauseExpires \/ PublishHealthURL \/ UNCHANGED clientVars
           \/ \E enabled \in BOOLEAN : EnableResilientMode(enabled)
  <2>1. UNCHANGED wpc
    BY <1>6 DEF PauseExpires, PublishHealthURL, EnableResilientMode, clientVars
  <2> QED
    BY <2>1
<1> QED
  BY <1>1, <1>3, <1>4, <1>5, <1>6 DEF ClientNext

LEMMA CancelledStep ==
  TypeInv /\ CancelledFirst /\ [ClientNext]_clientVars => CancelledFirst'
<1> SUFFICES ASSUME TypeInv, CancelledFirst, [ClientNext]_clientVars
             PROVE  CancelledFirst'
  OBVIOUS
<1>1. ctxDone => ctxDone'
  <2>1. [QP!QueueNext]_(QP!queueVars)
    BY StepOfQueue, SameQueue DEF TypeInv, ClientTypeOK
  <2> QED
    BY <2>1, QP!ShutdownStays, QueueAssumed
<1>2. \A w \in Workers : wpc'[w] = "exit" => ctxDone'
  <2> SUFFICES ASSUME NEW w \in Workers, wpc'[w] = "exit", ~ctxDone PROVE FALSE
    BY <1>1
  <2>1. dequeuePc[w] = "returned" /\ taken[w] = None
    BY HowWorkersLeave DEF CancelledFirst
  <2>2. ctxDone \/ queueClosed
    BY <2>1 DEF TypeInv, QP!QueueInv, QP!NilMeansOver
  <2> QED
    BY <2>2 DEF CancelledFirst
<1>3. CASE UNCHANGED <<queueClosed, kpc>>
  BY <1>1, <1>2, <1>3 DEF CancelledFirst
<1>4. ASSUME NEW k \in Closers, CloseChecks(k) \/ Closing(k) PROVE CancelledFirst'
  <2>1. kpc \in [Closers ->
          {"new", "storing", "flushing", "cancelling", "closing", "joining",
           "zeroing", "closed", "skipped"}]
    BY DEF TypeInv, ClientTypeOK, OwnTypeOK
  <2>2. CASE CloseChecks(k) \/ CloseStores(k) \/ CloseFlushed(k) \/ CloseFlushTimesOut(k)
    <3>1. /\ UNCHANGED queueClosed
          /\ \E p \in {"storing", "skipped", "flushing", "cancelling"} :
               kpc' = [kpc EXCEPT ![k] = p]
      BY <2>2 DEF CloseChecks, CloseStores, CloseFlushed, CloseFlushTimesOut,
         CloserGoes, fifoVars
    <3> QED
      BY <1>1, <1>2, <2>1, <3>1 DEF CancelledFirst
  <2>3. CASE CloseCancels(k)
    <3>1. ctxDone'
      BY <2>3 DEF CloseCancels, Q!Cancel
    <3> QED
      BY <1>2, <3>1 DEF CancelledFirst
  <2>4. CASE CloseQueue(k) \/ CloseJoins(k) \/ CloseZeroesKey(k)
    <3>1. ctxDone
      BY <2>4 DEF CloseQueue, CloseJoins, CloseZeroesKey, CloserGoes, CancelledFirst
    <3> QED
      BY <1>1, <1>2, <3>1 DEF CancelledFirst
  <2> QED
    BY <1>4, <2>2, <2>3, <2>4 DEF Closing
<1> QED
  BY <1>3, <1>4, WhoCloses

\* Nothing is left lying in an open client: the workers stay until Close cancels
\* the context, and while an entry waits one of them is awake or will be woken;
\* after that none sleeps through the shutdown.
THEOREM WorkersAreStandingBy == ClientSpec => []WorkersStandBy
<1>1. ClientInit => CancelledFirst
  BY DEF ClientInit, Q!QueueInit, CancelledFirst
<1>2. TypeInv /\ CancelledFirst => WorkersStandBy
  <2> SUFFICES ASSUME TypeInv, CancelledFirst PROVE WorkersStandBy
    OBVIOUS
  <2>1. QP!NoLostWakeup /\ QP!NoSleepThroughShutdown
    BY DEF TypeInv, QP!QueueInv
  <2>2. items # <<>> => notEmpty \/ \E w \in Workers : dequeuePc[w] \notin Q!Asleep
    BY <2>1 DEF QP!NoLostWakeup, QP!Asleep, Q!Asleep
  <2>3. ctxDone \/ queueClosed => Q!Parked = {}
    BY <2>1 DEF QP!NoSleepThroughShutdown, QP!Parked, Q!Parked
  <2> QED
    BY <2>2, <2>3 DEF CancelledFirst, WorkersStandBy
<1> QED
  BY <1>1, <1>2, CancelledStep, TypesHold, PTL DEF ClientSpec

-----------------------------------------------------------------------------
(* The key.                                                                *)

\* A closer past its join has seen every worker leave.
KeyInv ==
  keyZeroed \/ (\E k \in Closers : kpc[k] \in {"zeroing", "closed"})
    => \A w \in Workers : wpc[w] = "exit"

LEMMA WorkersStayOut ==
  ASSUME TypeInv, [ClientNext]_clientVars, NEW w \in Workers, wpc[w] = "exit"
  PROVE  wpc'[w] = "exit"
<1>1. ASSUME NEW e \in Entries, CheckOpen(e) \/ Sending(e) PROVE UNCHANGED wpc
  BY <1>1 DEF CheckOpen, Sending, DropAtAdmission, Admit, EnqueueAccepted,
     EnqueueRefused, CountQueued, producerOnly
<1>2. ASSUME NEW c \in Senders, RetryLoop(c) \/ Exchange(c) PROVE UNCHANGED wpc
  BY <1>2, LoopMoves DEF exchangeRest
<1>3. ASSUME NEW v \in Workers, WorkerStep(v) PROVE wpc'[w] = "exit"
  <2>1. CASE RetryLoop(v) \/ Exchange(v)
    BY <1>2, <2>1, SenderKinds
  <2>2. ASSUME NEW p, wpc[v] # "exit", wpc' = [wpc EXCEPT ![v] = p]
        PROVE  wpc'[w] = "exit"
    BY <2>2 DEF TypeInv, ClientTypeOK, OwnTypeOK
  <2>3. CASE WorkerDequeues(v)
    BY <2>3 DEF WorkerDequeues
  <2>4. CASE \/ WorkerTakes(v) \/ RequeueAccepted(v) \/ RequeueRefused(v)
             \/ PauseElapsed(v) \/ PauseCancelled(v)
    <3>1. /\ wpc[v] # "exit"
          /\ \E p \in {"exit", "requeueing", "filling", "pausing", "loop"} :
               wpc' = [wpc EXCEPT ![v] = p]
      BY <2>4 DEF WorkerTakes, RequeueAccepted, RequeueRefused, PauseElapsed,
         PauseCancelled, WorkerGoes
    <3> QED
      BY <2>2, <3>1
  <2>5. CASE FillBatch(v) \/ WorkerReports(v)
    <3>1. wpc[v] # "exit" /\ \E p \in {"sending", "loop"} : wpc' = [wpc EXCEPT ![v] = p]
      BY <2>5 DEF FillBatch, WorkerReports, WorkerGoes
    <3> QED
      BY <2>2, <3>1
  <2> QED
    BY <1>3, <2>1, <2>3, <2>4, <2>5 DEF WorkerStep
<1>4. ASSUME NEW b \in Batches, BatchCheckOpen(b) \/ BatchStep(b)
      PROVE  UNCHANGED wpc
  BY <1>2, <1>4, SenderKinds DEF BatchCheckOpen, BatchStep, BatchInvalid, BatchBegins,
     BatchReports, batchRest
<1>5. ASSUME NEW k \in Closers, CloseChecks(k) \/ Closing(k) PROVE UNCHANGED wpc
  BY <1>5 DEF CloseChecks, Closing, CloseStores, CloseFlushed, CloseFlushTimesOut,
     CloseCancels, CloseQueue, CloseJoins, CloseZeroesKey, closerRest
<1>6. CASE \/ PauseExpires \/ PublishHealthURL \/ UNCHANGED clientVars
           \/ \E enabled \in BOOLEAN : EnableResilientMode(enabled)
  <2>1. UNCHANGED wpc
    BY <1>6 DEF PauseExpires, PublishHealthURL, EnableResilientMode, clientVars
  <2> QED
    BY <2>1
<1> QED
  BY <1>1, <1>3, <1>4, <1>5, <1>6 DEF ClientNext

LEMMA KeyStep == TypeInv /\ KeyInv /\ [ClientNext]_clientVars => KeyInv'
<1> SUFFICES ASSUME TypeInv, KeyInv, [ClientNext]_clientVars PROVE KeyInv'
  OBVIOUS
<1>1. \A w \in Workers : wpc[w] = "exit" => wpc'[w] = "exit"
  BY WorkersStayOut
<1>2. \/ UNCHANGED <<keyZeroed, kpc>>
      \/ \E k \in Closers : CloseChecks(k) \/ Closing(k)
  <2>1. ASSUME NEW e \in Entries, CheckOpen(e) \/ Sending(e)
        PROVE UNCHANGED <<keyZeroed, kpc>>
    BY <2>1 DEF CheckOpen, Sending, DropAtAdmission, Admit, EnqueueAccepted,
       EnqueueRefused, CountQueued, producerOnly, lifeVars
  <2>2. ASSUME NEW c \in Senders, RetryLoop(c) \/ Exchange(c)
        PROVE UNCHANGED <<keyZeroed, kpc>>
    BY <2>2, LoopMoves DEF exchangeRest
  <2>3. ASSUME NEW w \in Workers, WorkerStep(w) PROVE UNCHANGED <<keyZeroed, kpc>>
    BY <2>2, <2>3, SenderKinds DEF WorkerStep, WorkerDequeues, WorkerTakes,
       RequeueAccepted, RequeueRefused, PauseElapsed, PauseCancelled, FillBatch,
       WorkerReports, workerRest
  <2>4. ASSUME NEW b \in Batches, BatchCheckOpen(b) \/ BatchStep(b)
        PROVE UNCHANGED <<keyZeroed, kpc>>
    BY <2>2, <2>4, SenderKinds DEF BatchCheckOpen, BatchStep, BatchInvalid,
       BatchBegins, BatchReports, batchRest
  <2>5. CASE \/ PauseExpires \/ PublishHealthURL \/ UNCHANGED clientVars
             \/ \E enabled \in BOOLEAN : EnableResilientMode(enabled)
    BY <2>5 DEF PauseExpires, PublishHealthURL, EnableResilientMode, clientVars,
       lifeVars
  <2> QED
    BY <2>1, <2>3, <2>4, <2>5 DEF ClientNext
<1>3. CASE UNCHANGED <<keyZeroed, kpc>>
  BY <1>1, <1>3 DEF KeyInv
<1>4. ASSUME NEW k \in Closers, CloseChecks(k) \/ Closing(k) PROVE KeyInv'
  <2>1. UNCHANGED wpc
    BY <1>4 DEF CloseChecks, Closing, CloseStores, CloseFlushed, CloseFlushTimesOut,
       CloseCancels, CloseQueue, CloseJoins, CloseZeroesKey, closerRest
  <2>2. kpc \in [Closers ->
          {"new", "storing", "flushing", "cancelling", "closing", "joining",
           "zeroing", "closed", "skipped"}]
    BY DEF TypeInv, ClientTypeOK, OwnTypeOK
  <2>3. CASE CloseJoins(k)
    BY <2>1, <2>2, <2>3 DEF CloseJoins, CloserGoes, KeyInv
  <2>4. CASE CloseZeroesKey(k)
    BY <2>1, <2>2, <2>4 DEF CloseZeroesKey, CloserGoes, KeyInv
  <2>5. CASE CloseChecks(k) \/ CloseStores(k) \/ CloseFlushed(k)
               \/ CloseFlushTimesOut(k) \/ CloseCancels(k) \/ CloseQueue(k)
    <3>1. /\ UNCHANGED keyZeroed
          /\ \E p \in {"storing", "skipped", "flushing", "cancelling", "closing",
                       "joining"} : kpc' = [kpc EXCEPT ![k] = p]
      BY <2>5 DEF CloseChecks, CloseStores, CloseFlushed, CloseFlushTimesOut,
         CloseCancels, CloseQueue, CloserGoes
    <3> QED
      BY <2>1, <2>2, <3>1 DEF KeyInv
  <2> QED
    BY <1>4, <2>3, <2>4, <2>5 DEF Closing
<1> QED
  BY <1>2, <1>3, <1>4

\* Close zeroes the key only after its join: then every worker has left and
\* has nothing left to encrypt, however many goroutines call Close and however
\* the flush ended.
THEOREM KeyOutlivesTheWorkers == ClientSpec => []KeyOutlivesWorkers
<1>1. ClientInit => KeyInv
  BY DEF ClientInit, KeyInv
<1>2. TypeInv /\ KeyInv => KeyOutlivesWorkers
  BY DEF TypeInv, HandsInv, KeyInv, KeyOutlivesWorkers
<1> QED
  BY <1>1, <1>2, KeyStep, TypesHold, PTL DEF ClientSpec

-----------------------------------------------------------------------------
(* What a step means for the exchanges.                                    *)

\* The result of a Retry stays where it is until its entries are settled.
DoneStays(c) ==
  rpc[c] = "done" =>
    \/ rpc'[c] = "done" /\ outcome'[c] = outcome[c] /\ batch'[c] = batch[c]
    \/ \A e \in ToSet(batch[c]) : fate'[e] # "pending"

NoNewSuccess(c) ==
  rpc'[c] = "done" /\ outcome'[c] = "ok"
    => rpc[c] = "done" /\ outcome[c] = "ok" /\ batch'[c] = batch[c]

\* A batch stays in its request until its entries are settled.
BatchStays(c) ==
  rpc[c] # "idle" =>
    \/ rpc'[c] # "idle" /\ batch'[c] = batch[c]
    \/ \A e \in ToSet(batch[c]) : fate'[e] # "pending"

ServerQuiet ==
  /\ UNCHANGED serverVars
  /\ \A c \in Senders : DoneStays(c) /\ NoNewSuccess(c) /\ BatchStays(c)

\* The server takes the batch of c, whose reply arrives or does not.
ServerAccepts(c) ==
  /\ rpc[c] = "calling" /\ Accepted(c)
  /\ UNCHANGED <<batch, fate, totalSent, drops>>
  /\ \A d \in Senders \ {c} : rpc'[d] = rpc[d] /\ outcome'[d] = outcome[d]
  /\ rpc'[c] # "idle"
  /\ \/ rpc'[c] = "done" /\ outcome'[c] = "ok" /\ UNCHANGED replyLost
     \/ /\ ~(rpc'[c] = "done" /\ outcome'[c] = "ok")
        /\ replyLost' = replyLost \cup ToSet(batch[c])

LEMMA NobodyFinishes ==
  ASSUME UNCHANGED <<rpc, outcome, serverVars>>,
         \A c \in Senders : batch'[c] = batch[c] \/ rpc[c] = "idle"
  PROVE  ServerQuiet
  BY DEF ServerQuiet, DoneStays, NoNewSuccess, BatchStays

LEMMA OneSenderMoves ==
  ASSUME UNCHANGED serverVars, NEW c \in Senders,
         DoneStays(c), NoNewSuccess(c), BatchStays(c),
         \A d \in Senders \ {c} :
           rpc'[d] = rpc[d] /\ outcome'[d] = outcome[d] /\ batch'[d] = batch[d]
  PROVE  ServerQuiet
  BY DEF ServerQuiet, DoneStays, NoNewSuccess, BatchStays

LEMMA LoopServes ==
  ASSUME TypeInv, NEW c \in Senders, RetryLoop(c) \/ Exchange(c)
  PROVE  ServerQuiet \/ ServerAccepts(c)
<1>0. /\ rpc \in [Senders -> R!RetryPositions]
      /\ outcome \in [Senders -> R!Outcomes]
  BY DEF TypeInv, ClientTypeOK, R!RetryTypeOK
<1>1. UNCHANGED <<batch, fate, totalSent, drops>> /\ rpc'[c] # "idle"
  BY <1>0, LoopMoves DEF exchangeRest, statVars
<1>2. ASSUME UNCHANGED serverVars, rpc[c] # "done",
             NEW p, rpc' = [rpc EXCEPT ![c] = p],
             NEW o, outcome' = [outcome EXCEPT ![c] = o],
             p = "done" => o # "ok"
      PROVE  ServerQuiet
  BY <1>0, <1>1, <1>2, OneSenderMoves DEF DoneStays, NoNewSuccess, BatchStays
<1>3. ASSUME UNCHANGED <<serverVars, outcome>>, rpc[c] # "done",
             NEW p \in R!RetryPositions \ {"done"}, rpc' = [rpc EXCEPT ![c] = p]
      PROVE  ServerQuiet
  BY <1>0, <1>1, <1>3, OneSenderMoves DEF DoneStays, NoNewSuccess, BatchStays
<1> USE DEF R!At, R!Move, R!Finish
<1>4. CASE RetryLoop(c)
  <2>1. UNCHANGED serverVars
    BY <1>4 DEF RetryLoop
  <2>2. ASSUME R!CallFn(c), rpc[c] # "done" PROVE ServerQuiet
    BY <1>3, <2>1, <2>2 DEF R!CallFn, R!RetryPositions
  <2>3. CASE R!Top(c)
    <3>1. CASE R!GiveUpAtTop(c)
      <4>1. /\ rpc[c] # "done" /\ rpc' = [rpc EXCEPT ![c] = "done"]
            /\ outcome' = [outcome EXCEPT ![c] = "exhausted"]
        BY <2>3, <3>1 DEF R!Top, R!GiveUpAtTop
      <4>2. "done" = "done" => "exhausted" # "ok"
        OBVIOUS
      <4> QED
        BY <1>2, <2>1, <4>1, <4>2, Zenon
    <3>2. CASE R!StartProbing(c)
      BY <1>3, <2>1, <2>3, <3>2 DEF R!Top, R!StartProbing, R!RetryPositions
    <3>3. CASE R!CallFn(c)
      BY <2>2, <2>3, <3>3 DEF R!Top
    <3> QED
      BY <2>3, <3>1, <3>2, <3>3, Zenon DEF R!Top
  <2>4. CASE R!WaitCancelled(c)
    <3>1. /\ rpc[c] # "done" /\ rpc' = [rpc EXCEPT ![c] = "done"]
          /\ outcome' = [outcome EXCEPT ![c] = "ctx"]
      BY <2>4 DEF R!WaitCancelled
    <3>2. "done" = "done" => "ctx" # "ok"
      OBVIOUS
    <3> QED
      BY <1>2, <2>1, <3>1, <3>2, Zenon
  <2>5. CASE R!RateWaitElapsed(c) \/ R!BackoffElapsed(c) \/ R!ProbeWaitElapsed(c)
    BY <1>3, <2>1, <2>5 DEF R!RateWaitElapsed, R!BackoffElapsed, R!ProbeWaitElapsed,
       R!RetryPositions
  <2>6. CASE R!ProbingOver(c) \/ R!ProbeSucceeds(c) \/ R!ProbeWaitCancelled(c)
    BY <2>2, <2>6 DEF R!ProbingOver, R!ProbeSucceeds, R!ProbeWaitCancelled
  <2>7. CASE R!ProbeFails(c)
    <3>1. /\ rpc[c] # "done" /\ UNCHANGED outcome
          /\ \E p \in {"probe", "probeWait"} : rpc' = [rpc EXCEPT ![c] = p]
      BY <2>7 DEF R!ProbeFails
    <3> QED
      BY <1>3, <2>1, <3>1 DEF R!RetryPositions
  <2> QED
    BY <1>4, <2>3, <2>4, <2>5, <2>6, <2>7 DEF RetryLoop, R!Probing
<1>5. CASE ExchangeSucceeds(c)
  <2>1. ServerAccepts(c)
    BY <1>0, <1>1, <1>5 DEF ExchangeSucceeds, ServerAccepts, R!FnSucceeds
  <2> QED
    BY <2>1
<1>6. CASE ExchangeRateLimited(c)
  BY <1>3, <1>6 DEF ExchangeRateLimited, R!FnRateLimited, R!RetryPositions
<1>7. ASSUME NEW f, R!FnFailsForGood(c, f)
      PROVE  /\ rpc[c] = "calling" /\ f # "ok"
             /\ rpc' = [rpc EXCEPT ![c] = "done"]
             /\ outcome' = [outcome EXCEPT ![c] = f]
  BY <1>7 DEF R!FnFailsForGood, R!Final, R!Counted
<1>8. CASE ExchangeOverQuota(c) \/ ExchangeRejected(c)
  BY <1>2, <1>7, <1>8 DEF ExchangeOverQuota, ExchangeRejected
<1>9. CASE ExchangeFails(c)
  <2>1. /\ rpc[c] = "calling"
        /\ \E p, o : /\ rpc' = [rpc EXCEPT ![c] = p]
                     /\ outcome' = [outcome EXCEPT ![c] = o]
                     /\ p = "done" => o # "ok"
    <3>1. CASE R!FnFailsForGood(c, "fatal")
      BY <1>7, <3>1
    <3>2. ASSUME NEW f \in R!Counted, R!FnFailsRetryably(c, f)
          PROVE  \E p, o : /\ rpc' = [rpc EXCEPT ![c] = p]
                           /\ outcome' = [outcome EXCEPT ![c] = o]
                           /\ p = "done" => o # "ok"
      <4>1. \/ /\ rpc' = [rpc EXCEPT ![c] = "done"]
               /\ outcome' = [outcome EXCEPT ![c] = "exhausted"]
            \/ rpc' = [rpc EXCEPT ![c] = "backoff"] /\ outcome' = outcome
        BY <3>2 DEF R!FnFailsRetryably
      <4>2. outcome = [outcome EXCEPT ![c] = outcome[c]]
        BY <1>0
      <4>3. "exhausted" # "ok" /\ "backoff" # "done"
        OBVIOUS
      <4> QED
        BY <4>1, <4>2, <4>3, Zenon
    <3>3. rpc[c] = "calling"
      BY <1>9 DEF ExchangeFails, R!FnFailsForGood, R!FnFailsRetryably
    <3>4. CASE \E f \in R!Counted : R!FnFailsRetryably(c, f)
      BY <3>2, <3>3, <3>4
    <3> QED
      BY <1>9, <3>1, <3>4 DEF ExchangeFails
  <2>2. CASE UNCHANGED serverVars
    BY <1>2, <2>1, <2>2
  <2>3. CASE /\ Accepted(c) /\ replyLost' = replyLost \cup ToSet(batch[c])
    <3>1. ServerAccepts(c)
      BY <1>0, <1>1, <2>1, <2>3 DEF ServerAccepts
    <3> QED
      BY <3>1
  <2> QED
    BY <1>9, <2>2, <2>3 DEF ExchangeFails
<1> QED
  BY <1>4, <1>5, <1>6, <1>8, <1>9 DEF Exchange

LEMMA ReportServes ==
  ASSUME TypeInv, NEW c \in Senders, R!Collect(c), UNCHANGED serverVars,
         batch' = [batch EXCEPT ![c] = <<>>],
         NEW f \in Fates \ {"pending"}, Settle(batch[c], f)
  PROVE  ServerQuiet
<1>1. /\ \A d \in Senders \ {c} :
           rpc'[d] = rpc[d] /\ outcome'[d] = outcome[d] /\ batch'[d] = batch[d]
      /\ rpc'[c] = "idle"
  BY DEF TypeInv, ClientTypeOK, R!RetryTypeOK, OwnTypeOK, R!Collect, R!Move
<1>2. ToSet(batch[c]) \subseteq AllEntries
  BY ElementsTyped DEF TypeInv, ClientTypeOK, OwnTypeOK
<1>3. DoneStays(c) /\ NoNewSuccess(c) /\ BatchStays(c)
  BY <1>1, <1>2 DEF DoneStays, NoNewSuccess, BatchStays, Settle
<1> QED
  BY <1>1, <1>3, OneSenderMoves

LEMMA BeginServes ==
  ASSUME TypeInv, NEW c \in Senders, R!Begin(c), UNCHANGED serverVars,
         NEW s, batch' = [batch EXCEPT ![c] = s]
  PROVE  ServerQuiet
<1>1. /\ \A d \in Senders \ {c} :
           rpc'[d] = rpc[d] /\ outcome'[d] = outcome[d] /\ batch'[d] = batch[d]
      /\ rpc[c] = "idle" /\ rpc'[c] = "top"
  BY DEF TypeInv, ClientTypeOK, R!RetryTypeOK, OwnTypeOK, R!Begin, R!Move, R!At
<1> QED
  BY <1>1, OneSenderMoves DEF DoneStays, NoNewSuccess, BatchStays

LEMMA StepServes ==
  TypeInv /\ [ClientNext]_clientVars
    => ServerQuiet \/ \E c \in Senders : ServerAccepts(c)
<1> DEFINE Goal == ServerQuiet \/ \E c \in Senders : ServerAccepts(c)
<1> SUFFICES ASSUME TypeInv, [ClientNext]_clientVars PROVE Goal
  OBVIOUS
<1>0. /\ batch \in [Senders -> Seq(AllEntries)]
      /\ \A w \in Workers : wpc[w] # "sending" => rpc[w] = "idle"
      /\ \A b \in Batches : bpc[b] # "sending" => rpc[b] = "idle"
  BY DEF TypeInv, ClientTypeOK, OwnTypeOK, HandsInv
<1>1. ASSUME NEW c \in Senders, RetryLoop(c) \/ Exchange(c) PROVE Goal
  BY <1>1, LoopServes
<1>2. ASSUME NEW e \in Entries, CheckOpen(e) \/ Sending(e) PROVE Goal
  <2>1. UNCHANGED <<rpc, outcome, batch, serverVars>>
    BY <1>2 DEF CheckOpen, Sending, DropAtAdmission, Admit, EnqueueAccepted,
       EnqueueRefused, CountQueued, producerOnly, loopVars
  <2> QED
    BY <2>1, NobodyFinishes
<1>3. ASSUME NEW w \in Workers, WorkerStep(w) PROVE Goal
  <2>0. w \in Senders
    BY SenderKinds
  <2>1. CASE RetryLoop(w) \/ Exchange(w)
    BY <1>1, <2>0, <2>1
  <2>2. CASE \/ WorkerDequeues(w) \/ WorkerTakes(w) \/ RequeueAccepted(w)
             \/ RequeueRefused(w) \/ PauseElapsed(w) \/ PauseCancelled(w)
    <3>1. /\ UNCHANGED <<rpc, outcome, serverVars>> /\ rpc[w] = "idle"
      BY <1>0, <2>2 DEF WorkerDequeues, WorkerTakes, RequeueAccepted, RequeueRefused,
         PauseElapsed, PauseCancelled, workerRest, loopVars
    <3>2. \A d \in Senders \ {w} : batch'[d] = batch[d]
      BY <1>0, <2>2 DEF WorkerDequeues, WorkerTakes, RequeueAccepted, RequeueRefused,
         PauseElapsed, PauseCancelled, Hands
    <3> QED
      BY <3>1, <3>2, NobodyFinishes
  <2>3. CASE FillBatch(w)
    <3>1. /\ R!Begin(w) /\ UNCHANGED serverVars
          /\ batch' = [batch EXCEPT ![w] = batch[w] \o Q!Batch(BatchSize - 1)]
      BY <2>3 DEF FillBatch, workerRest, Hands
    <3> QED
      BY <2>0, <3>1, BeginServes
  <2>4. CASE WorkerReports(w)
    <3>1. /\ R!Collect(w) /\ UNCHANGED serverVars
          /\ batch' = [batch EXCEPT ![w] = <<>>]
          /\ Settle(batch[w], IF outcome[w] = "ok" THEN "sent"
                              ELSE ReasonFor(outcome[w]))
      BY <2>4 DEF WorkerReports, workerRest, Hands, RecordSent, recordDrop
    <3>2. (IF outcome[w] = "ok" THEN "sent" ELSE ReasonFor(outcome[w]))
            \in Fates \ {"pending"}
      BY DEF ReasonFor, Fates, DropReasons
    <3> QED
      BY <2>0, <3>1, <3>2, ReportServes
  <2> QED
    BY <1>3, <2>1, <2>2, <2>3, <2>4 DEF WorkerStep
<1>4. ASSUME NEW b \in Batches, BatchCheckOpen(b) \/ BatchStep(b) PROVE Goal
  <2>0. b \in Senders
    BY SenderKinds
  <2>1. CASE RetryLoop(b) \/ Exchange(b)
    BY <1>1, <2>0, <2>1
  <2>2. CASE BatchCheckOpen(b) \/ BatchInvalid(b)
    <3>1. UNCHANGED <<rpc, outcome, batch, serverVars>>
      BY <2>2 DEF BatchCheckOpen, BatchInvalid, batchRest, loopVars
    <3> QED
      BY <3>1, NobodyFinishes
  <2>3. ASSUME NEW rest, BatchBegins(b, rest) PROVE Goal
    <3>1. UNCHANGED serverVars
      BY <2>3 DEF BatchBegins, batchRest
    <3>2. CASE rest = <<>>
      <4>1. UNCHANGED <<rpc, outcome, batch>>
        BY <2>3, <3>2 DEF BatchBegins, loopVars
      <4> QED
        BY <3>1, <4>1, NobodyFinishes
    <3>3. CASE rest # <<>>
      <4>1. R!Begin(b) /\ batch' = [batch EXCEPT ![b] = rest]
        BY <2>3, <3>3 DEF BatchBegins, Hands
      <4> QED
        BY <2>0, <3>1, <4>1, BeginServes
    <3> QED
      BY <3>2, <3>3
  <2>4. CASE BatchReports(b)
    <3>1. /\ R!Collect(b) /\ UNCHANGED serverVars
          /\ batch' = [batch EXCEPT ![b] = <<>>]
          /\ Settle(batch[b], IF outcome[b] = "ok" THEN "sent" ELSE "send_error")
      BY <2>4 DEF BatchReports, batchRest, Hands, RecordSent, recordDrop
    <3>2. (IF outcome[b] = "ok" THEN "sent" ELSE "send_error") \in Fates \ {"pending"}
      BY DEF Fates, DropReasons
    <3> QED
      BY <2>0, <3>1, <3>2, ReportServes
  <2> QED
    BY <1>4, <2>1, <2>2, <2>3, <2>4 DEF BatchStep
<1>5. ASSUME NEW k \in Closers, CloseChecks(k) \/ Closing(k) PROVE Goal
  <2>1. UNCHANGED <<rpc, outcome, batch, serverVars>>
    BY <1>5 DEF CloseChecks, Closing, CloseStores, CloseFlushed, CloseFlushTimesOut,
       CloseCancels, CloseQueue, CloseJoins, CloseZeroesKey, closerRest, loopVars,
       R!CancelContext, R!callVars
  <2> QED
    BY <2>1, NobodyFinishes
<1>6. CASE \/ PauseExpires \/ PublishHealthURL \/ UNCHANGED clientVars
           \/ \E enabled \in BOOLEAN : EnableResilientMode(enabled)
  <2>1. UNCHANGED <<rpc, outcome, batch, serverVars>>
    BY <1>6 DEF PauseExpires, PublishHealthURL, EnableResilientMode, clientVars,
       loopVars, R!EnableResilientMode, R!SetHealthCheckURL, R!callVars
  <2> QED
    BY <2>1, NobodyFinishes
<1> QED
  BY <1>2, <1>3, <1>4, <1>5, <1>6 DEF ClientNext

\* What is counted as sent, or about to be, was delivered.
SentInv ==
  /\ SentMeansDelivered
  /\ \A c \in Senders :
       rpc[c] = "done" /\ outcome[c] = "ok"
         => \A e \in ToSet(batch[c]) : deliveries[e] > 0

LEMMA NewlySent ==
  ASSUME TypeInv, EntryMoves, NEW e \in AllEntries,
         fate'[e] = "sent", fate[e] # "sent"
  PROVE  \E c \in Senders :
           rpc[c] = "done" /\ outcome[c] = "ok" /\ e \in ToSet(batch[c])
<1>1. CASE Still
  BY <1>1 DEF Still, NothingSettled
<1>2. ASSUME NEW x \in Entries, PutIn(x) \/ \E f \in Fates : Refuse(x, f)
      PROVE  FALSE
  BY <1>2 DEF PutIn, Refuse, NothingSettled, CountAs, Settle
<1>3. ASSUME NEW b \in Batches,
             RefuseAll(b) \/ \E rest \in Subsequences(BatchOf[b]) : PassOn(b, rest)
      PROVE  FALSE
  <2>1. CASE RefuseAll(b)
    BY <2>1 DEF RefuseAll, CountAs, Settle
  <2>2. ASSUME NEW rest \in Subsequences(BatchOf[b]), PassOn(b, rest) PROVE FALSE
    BY <2>2 DEF PassOn
  <2> QED
    BY <1>3, <2>1, <2>2
<1>4. ASSUME NEW w \in Workers, TakeOut(w) \/ PickUp(w) \/ PutBack(w) \/ FillUp(w)
      PROVE  FALSE
  BY <1>4 DEF TakeOut, PickUp, PutBack, FillUp, NothingSettled
<1>5. ASSUME NEW c \in Senders, NEW f \in Fates, Report(c, f)
      PROVE  rpc[c] = "done" /\ outcome[c] = "ok" /\ e \in ToSet(batch[c])
  BY <1>5 DEF Report, CountAs, Settle, NeverSent
<1> QED
  BY <1>1, <1>2, <1>3, <1>4, <1>5 DEF EntryMoves

\* An acceptance counts for the entries of the batch and for no other.
LEMMA AcceptedOnce ==
  ASSUME TypeInv, NEW c \in Senders, Accepted(c), NEW e \in AllEntries
  PROVE  /\ deliveries[e] \in 0..2
         /\ e \in ToSet(batch[c]) => /\ deliveries'[e] > 0
                                     /\ deliveries'[e] > 1 => deliveries[e] > 0
         /\ e \notin ToSet(batch[c]) => deliveries'[e] = deliveries[e]
<1>1. deliveries[e] \in 0..2
  BY DEF TypeInv, ClientTypeOK, OwnTypeOK
<1> QED
  BY <1>1 DEF Accepted, R!Saturate

LEMMA BatchedEntries ==
  ASSUME TypeInv
  PROVE  \A c \in Senders : ToSet(batch[c]) \subseteq AllEntries
  BY ElementsTyped DEF TypeInv, ClientTypeOK, OwnTypeOK

LEMMA SentStep == TypeInv /\ SentInv /\ [ClientNext]_clientVars => SentInv'
<1> SUFFICES ASSUME TypeInv, SentInv, [ClientNext]_clientVars PROVE SentInv'
  OBVIOUS
<1>1. EntryMoves /\ (ServerQuiet \/ \E c \in Senders : ServerAccepts(c))
  BY StepMoves, StepServes
<1>2. \A e \in AllEntries : deliveries[e] > 0 => deliveries'[e] > 0
  <2>1. CASE ServerQuiet
    BY <2>1 DEF ServerQuiet, serverVars
  <2>2. ASSUME NEW c \in Senders, ServerAccepts(c), NEW e \in AllEntries,
               deliveries[e] > 0
        PROVE  deliveries'[e] > 0
    BY <2>2, AcceptedOnce DEF ServerAccepts
  <2> QED
    BY <1>1, <2>1, <2>2
<1>3. SentMeansDelivered'
  <2> SUFFICES ASSUME NEW e \in AllEntries, fate'[e] = "sent"
               PROVE  deliveries'[e] > 0
    BY DEF SentMeansDelivered
  <2>1. deliveries[e] > 0
    BY <1>1, NewlySent DEF SentInv, SentMeansDelivered
  <2> QED
    BY <1>2, <2>1
<1>4. ASSUME NEW c \in Senders, rpc'[c] = "done", outcome'[c] = "ok",
             NEW e \in ToSet(batch'[c])
      PROVE  deliveries'[e] > 0
  <2>1. CASE rpc[c] = "done" /\ outcome[c] = "ok" /\ batch'[c] = batch[c]
    BY <1>2, <1>4, <2>1, BatchedEntries DEF SentInv
  <2>2. CASE ~(rpc[c] = "done" /\ outcome[c] = "ok" /\ batch'[c] = batch[c])
    <3>1. PICK d \in Senders : ServerAccepts(d)
      BY <1>1, <1>4, <2>2 DEF ServerQuiet, NoNewSuccess
    <3>2. d = c
      BY <1>4, <2>2, <3>1 DEF ServerAccepts
    <3> QED
      BY <1>4, <3>1, <3>2, AcceptedOnce, BatchedEntries DEF ServerAccepts
  <2> QED
    BY <2>1, <2>2
<1> QED
  BY <1>3, <1>4 DEF SentInv

-----------------------------------------------------------------------------
(* One owner.                                                              *)

AtSender(e) ==
  \/ e \in Entries /\ Waits(e)
  \/ \E b \in Batches : e \in ToSet(BatchOf[b]) /\ Unsent(b)
InQueue(e) == e \in ToSet(items)
With(e, c) == e \in ToSet(batch[c])
Out(e, w) == taken[w] = e
Settled(e) == fate[e] # "pending"

OwnerInv ==
  /\ IsInjective(items)
  /\ \A c \in Senders : IsInjective(batch[c])
  /\ \A e \in AllEntries :
       /\ \/ AtSender(e) \/ InQueue(e) \/ Settled(e)
          \/ \E c \in Senders : With(e, c)
          \/ \E w \in Workers : Out(e, w)
       /\ AtSender(e) \/ InQueue(e) =>
            /\ ~(AtSender(e) /\ InQueue(e)) /\ ~Settled(e)
            /\ \A c \in Senders : ~With(e, c)
            /\ \A w \in Workers : ~Out(e, w)
       /\ \A c \in Senders : With(e, c) =>
            /\ ~Settled(e) /\ \A w \in Workers : ~Out(e, w)
            /\ \A d \in Senders : With(e, d) => c = d
       /\ \A w \in Workers : Out(e, w) =>
            ~Settled(e) /\ \A v \in Workers : Out(e, v) => v = w

\* Who still has to send what, after a step.
LEMMA SendersLeft ==
  /\ OthersWait({}, {}) => \A e \in AllEntries : AtSender(e)' <=> AtSender(e)
  /\ \A x \in Entries :
       OthersWait({x}, {}) /\ Waits(x) /\ ~Waits(x)' =>
         \A e \in AllEntries :
           /\ AtSender(e)' <=> AtSender(e) /\ e # x
           /\ AtSender(x)
  /\ \A b \in Batches :
       OthersWait({}, {b}) /\ Unsent(b) /\ ~Unsent(b)' =>
         \A e \in AllEntries :
           /\ AtSender(e)' <=> AtSender(e) /\ e \notin ToSet(BatchOf[b])
           /\ e \in ToSet(BatchOf[b]) => AtSender(e)
<1>1. \A b, d \in Batches : \A e : e \in ToSet(BatchOf[b]) /\ e \in ToSet(BatchOf[d]) => b = d
  BY ClientAssumption DEF ClientAssumption
<1>2. \A b \in Batches : \A e \in ToSet(BatchOf[b]) : e \notin Entries
  BY ClientAssumption, SenderKinds DEF ClientAssumption
<1>3. ASSUME OthersWait({}, {}), NEW e \in AllEntries PROVE AtSender(e)' <=> AtSender(e)
  BY <1>3 DEF OthersWait, AtSender
<1>4. ASSUME NEW x \in Entries, OthersWait({x}, {}), Waits(x), ~Waits(x)',
             NEW e \in AllEntries
      PROVE  (AtSender(e)' <=> AtSender(e) /\ e # x) /\ AtSender(x)
  <2>1. \A b \in Batches : (Unsent(b)' <=> Unsent(b)) /\ x \notin ToSet(BatchOf[b])
    BY <1>2, <1>4 DEF OthersWait
  <2>2. CASE e = x
    BY <1>4, <2>1, <2>2 DEF AtSender
  <2>3. CASE e # x
    <3>1. e \in Entries => (Waits(e)' <=> Waits(e))
      BY <1>4, <2>3 DEF OthersWait
    <3> QED
      BY <1>4, <2>1, <2>3, <3>1 DEF AtSender
  <2> QED
    BY <2>2, <2>3
<1>5. ASSUME NEW b \in Batches, OthersWait({}, {b}), Unsent(b), ~Unsent(b)',
             NEW e \in AllEntries
      PROVE  /\ AtSender(e)' <=> AtSender(e) /\ e \notin ToSet(BatchOf[b])
             /\ e \in ToSet(BatchOf[b]) => AtSender(e)
  <2>1. /\ \A y \in Entries : Waits(y)' <=> Waits(y)
        /\ \A d \in Batches : d # b => (Unsent(d)' <=> Unsent(d))
    BY <1>5 DEF OthersWait
  <2> QED
    BY <1>1, <1>2, <1>5, <2>1 DEF AtSender
<1> QED
  BY <1>3, <1>4, <1>5

LEMMA WhatSettles ==
  ASSUME TypeInv
  PROVE  /\ NothingSettled => \A e \in AllEntries : Settled(e)' <=> Settled(e)
         /\ \A s, f : CountAs(s, f) /\ f # "pending" =>
              \A e \in AllEntries : Settled(e)' <=> Settled(e) \/ e \in ToSet(s)
  BY DEF NothingSettled, CountAs, Settle, Settled

LEMMA StillOwns == TypeInv /\ OwnerInv /\ Still => OwnerInv'
<1> SUFFICES ASSUME TypeInv, OwnerInv, Still PROVE OwnerInv'
  OBVIOUS
<1>1. UNCHANGED <<items, taken, batch>>
  BY DEF Still
<1>2. \A e \in AllEntries : (AtSender(e)' <=> AtSender(e)) /\ (Settled(e)' <=> Settled(e))
  BY SendersLeft, WhatSettles DEF Still
<1> QED
  BY <1>1, <1>2 DEF OwnerInv, InQueue, With, Out

LEMMA RefusedOwns ==
  ASSUME TypeInv, OwnerInv, NEW x \in Entries, NEW f \in Fates, Refuse(x, f)
  PROVE  OwnerInv'
<1>1. UNCHANGED <<items, taken, batch>>
  BY DEF Refuse
<1>2. /\ \A e \in AllEntries : AtSender(e)' <=> AtSender(e) /\ e # x
      /\ AtSender(x)
  BY SendersLeft, SenderKinds DEF Refuse
<1>3. \A e \in AllEntries : Settled(e)' <=> Settled(e) \/ e = x
  <2>1. ToSet(<<x>>) = {x}
    BY DEF ToSet
  <2> QED
    BY <2>1, WhatSettles DEF Refuse
<1> QED
  BY <1>1, <1>2, <1>3 DEF OwnerInv, InQueue, With, Out

LEMMA RefusedBatchOwns ==
  ASSUME TypeInv, OwnerInv, NEW b \in Batches, RefuseAll(b)
  PROVE  OwnerInv'
<1>1. UNCHANGED <<items, taken, batch>>
  BY DEF RefuseAll
<1>2. \A e \in AllEntries :
        /\ AtSender(e)' <=> AtSender(e) /\ e \notin ToSet(BatchOf[b])
        /\ e \in ToSet(BatchOf[b]) => AtSender(e)
  BY SendersLeft DEF RefuseAll
<1>3. \A e \in AllEntries : Settled(e)' <=> Settled(e) \/ e \in ToSet(BatchOf[b])
  BY WhatSettles DEF RefuseAll
<1> QED
  BY <1>1, <1>2, <1>3 DEF OwnerInv, InQueue, With, Out

LEMMA PassedOnOwns ==
  ASSUME TypeInv, OwnerInv, NEW b \in Batches,
         NEW rest \in Subsequences(BatchOf[b]), PassOn(b, rest)
  PROVE  OwnerInv'
<1>0. b \in Senders /\ batch \in [Senders -> Seq(AllEntries)]
  BY SenderKinds DEF TypeInv, ClientTypeOK, OwnTypeOK
<1>1. UNCHANGED <<items, taken>>
  BY DEF PassOn
<1>2. \A e \in AllEntries :
        /\ AtSender(e)' <=> AtSender(e) /\ e \notin ToSet(BatchOf[b])
        /\ e \in ToSet(BatchOf[b]) => AtSender(e)
  BY SendersLeft DEF PassOn
<1>3. ToSet(rest) \subseteq ToSet(BatchOf[b]) /\ IsInjective(rest)
  BY RestOfBatch, ClientAssumption DEF ClientAssumption
<1>4. /\ \A c \in Senders \ {b} : batch'[c] = batch[c]
      /\ batch'[b] = rest /\ batch[b] = <<>>
  BY <1>0 DEF PassOn
<1>5. \A e \in AllEntries : \A c \in Senders :
        With(e, c)' <=> With(e, c) \/ (c = b /\ e \in ToSet(rest))
  <2>1. ToSet(<<>>) = {}
    BY DEF ToSet
  <2> QED
    BY <1>4, <2>1 DEF With
<1>6. \A e \in AllEntries :
        Settled(e)' <=> Settled(e) \/ e \in ToSet(BatchOf[b]) \ ToSet(rest)
  BY DEF PassOn, Settled
<1>7. IsInjective(items)' /\ \A c \in Senders : IsInjective(batch'[c])
  BY <1>1, <1>3, <1>4 DEF OwnerInv
<1>8. \A e \in AllEntries : /\ InQueue(e)' <=> InQueue(e)
                            /\ \A w \in Workers : Out(e, w)' <=> Out(e, w)
  BY <1>1 DEF InQueue, Out
<1> QED
  BY <1>0, <1>2, <1>3, <1>5, <1>6, <1>7, <1>8 DEF OwnerInv

LEMMA PutInOwns ==
  ASSUME TypeInv, OwnerInv, NEW x \in Entries, PutIn(x)
  PROVE  OwnerInv'
<1>1. UNCHANGED <<taken, batch>>
  BY DEF PutIn
<1>2. /\ \A e \in AllEntries : AtSender(e)' <=> AtSender(e) /\ e # x
      /\ AtSender(x)
  BY SendersLeft, SenderKinds DEF PutIn
<1>3. \A e \in AllEntries : Settled(e)' <=> Settled(e)
  BY WhatSettles DEF PutIn
<1>4. x \notin ToSet(items)
  BY <1>2, SenderKinds DEF OwnerInv, InQueue
<1>5. IsInjective(items') /\ ToSet(items') = ToSet(items) \cup {x}
  <2>1. items \in Seq(Entries)
    BY DEF TypeInv, ClientTypeOK, Q!QueueTypeOK
  <2> QED
    BY <1>4, <2>1, AppendElements DEF PutIn, OwnerInv
<1>6. \A e \in AllEntries :
        /\ InQueue(e)' <=> InQueue(e) \/ e = x
        /\ \A c \in Senders : With(e, c)' <=> With(e, c)
        /\ \A w \in Workers : Out(e, w)' <=> Out(e, w)
  BY <1>1, <1>5 DEF InQueue, With, Out
<1>7. IsInjective(items)' /\ \A c \in Senders : IsInjective(batch'[c])
  BY <1>1, <1>5 DEF OwnerInv
<1> QED
  BY <1>2, <1>3, <1>6, <1>7 DEF OwnerInv

LEMMA TakenOutOwns ==
  ASSUME TypeInv, OwnerInv, NEW w \in Workers, TakeOut(w)
  PROVE  OwnerInv'
<1> DEFINE x == Head(items)
<1>0. items \in Seq(Entries) /\ taken \in [Workers -> Entries \cup {None}]
  BY DEF TypeInv, ClientTypeOK, Q!QueueTypeOK
<1>1. UNCHANGED batch /\ items # <<>> /\ items' = Tail(items)
  BY DEF TakeOut
<1>2. \A e \in AllEntries : (AtSender(e)' <=> AtSender(e)) /\ (Settled(e)' <=> Settled(e))
  BY SendersLeft, WhatSettles DEF TakeOut
<1>3. /\ x \in Entries /\ IsInjective(items') /\ x \notin ToSet(items')
      /\ ToSet(items) = ToSet(items') \cup {x}
  BY <1>0, <1>1, TakeFirst DEF OwnerInv
<1>4. /\ taken[w] = None /\ taken'[w] = x
      /\ \A v \in Workers \ {w} : taken'[v] = taken[v]
  BY <1>0 DEF TakeOut
<1> HIDE DEF x
<1>5. \A e \in AllEntries :
        /\ InQueue(e)' <=> InQueue(e) /\ e # x
        /\ \A c \in Senders : With(e, c)' <=> With(e, c)
        /\ \A v \in Workers : Out(e, v)' <=> Out(e, v) \/ (v = w /\ e = x)
  <2>1. \A e \in AllEntries : e # None
    BY ClientAssumption DEF ClientAssumption
  <2> QED
    BY <1>1, <1>3, <1>4, <2>1 DEF InQueue, With, Out
<1>6. InQueue(x) /\ x \in AllEntries
  BY <1>3, SenderKinds DEF InQueue
<1>7. IsInjective(items)' /\ \A c \in Senders : IsInjective(batch'[c])
  BY <1>1, <1>3 DEF OwnerInv
<1> QED
  BY <1>2, <1>5, <1>6, <1>7 DEF OwnerInv

LEMMA SingleEntry ==
  ASSUME NEW x
  PROVE  ToSet(<<x>>) = {x} /\ IsInjective(<<x>>) /\ ToSet(<<>>) = {} /\ IsInjective(<<>>)
  BY DEF ToSet, IsInjective

LEMMA PickedUpOwns ==
  ASSUME TypeInv, OwnerInv, NEW w \in Workers, PickUp(w)
  PROVE  OwnerInv'
<1> DEFINE x == taken[w]
<1>0. /\ w \in Senders /\ batch \in [Senders -> Seq(AllEntries)]
      /\ taken \in [Workers -> Entries \cup {None}]
  BY SenderKinds DEF TypeInv, ClientTypeOK, OwnTypeOK, Q!QueueTypeOK
<1>1. UNCHANGED items
  BY DEF PickUp
<1>2. \A e \in AllEntries : (AtSender(e)' <=> AtSender(e)) /\ (Settled(e)' <=> Settled(e))
  BY SendersLeft, WhatSettles DEF PickUp
<1>3. /\ x \in AllEntries /\ Out(x, w) /\ taken'[w] = None
      /\ \A v \in Workers \ {w} : taken'[v] = taken[v]
  BY <1>0, SenderKinds DEF PickUp, Out
<1>4. /\ batch[w] = <<>> /\ batch'[w] = <<x>>
      /\ \A c \in Senders \ {w} : batch'[c] = batch[c]
  BY <1>0 DEF PickUp
<1> HIDE DEF x
<1>5. \A e \in AllEntries :
        /\ InQueue(e)' <=> InQueue(e)
        /\ \A c \in Senders : With(e, c)' <=> With(e, c) \/ (c = w /\ e = x)
        /\ \A v \in Workers : Out(e, v)' <=> Out(e, v) /\ v # w
  <2>1. \A e \in AllEntries : e # None
    BY ClientAssumption DEF ClientAssumption
  <2> QED
    <3>1. ToSet(batch[w]) = {} /\ ToSet(batch'[w]) = {x}
      BY <1>4, SingleEntry
    <3>2. \A e \in AllEntries : \A c \in Senders :
            With(e, c)' <=> With(e, c) \/ (c = w /\ e = x)
      BY <1>4, <3>1 DEF With
    <3> QED
      BY <1>1, <1>3, <2>1, <3>2 DEF InQueue, Out
<1>6. \A e \in AllEntries : Out(e, w) => e = x
  BY DEF x, Out
<1>7. IsInjective(items)' /\ \A c \in Senders : IsInjective(batch'[c])
  BY <1>1, <1>4, SingleEntry DEF OwnerInv
<1> QED
  BY <1>0, <1>2, <1>3, <1>5, <1>6, <1>7 DEF OwnerInv

LEMMA PutBackOwns ==
  ASSUME TypeInv, OwnerInv, NEW w \in Workers, PutBack(w)
  PROVE  OwnerInv'
<1> DEFINE x == batch[w][1]
<1>0. /\ w \in Senders /\ batch \in [Senders -> Seq(AllEntries)]
      /\ batch[w] \in Seq(Entries) /\ items \in Seq(Entries)
  BY SenderKinds DEF TypeInv, ClientTypeOK, OwnTypeOK, Q!QueueTypeOK, HandsInv
<1>1. UNCHANGED taken /\ items' = Append(items, x) /\ Len(batch[w]) = 1
  BY DEF PutBack
<1>2. \A e \in AllEntries : (AtSender(e)' <=> AtSender(e)) /\ (Settled(e)' <=> Settled(e))
  BY SendersLeft, WhatSettles DEF PutBack
<1>3. ToSet(batch[w]) = {x} /\ x \in Entries /\ x \in AllEntries
  <2>1. DOMAIN batch[w] = {1} /\ batch[w][1] \in Entries
    <3>1. DOMAIN batch[w] = 1..1
      BY <1>0, <1>1, LenProperties
    <3>2. 1..1 = {1}
      OBVIOUS
    <3>3. batch[w] \in [1..1 -> Entries]
      BY <1>0, <1>1, LenProperties
    <3> QED
      BY <3>1, <3>2, <3>3
  <2> QED
    BY <2>1, SenderKinds DEF ToSet
<1>4. /\ batch'[w] = <<>>
      /\ \A c \in Senders \ {w} : batch'[c] = batch[c]
  BY <1>0 DEF PutBack
<1> HIDE DEF x
<1>5. With(x, w)
  BY <1>3 DEF With
<1>6. IsInjective(items') /\ ToSet(items') = ToSet(items) \cup {x}
  <2>1. x \notin ToSet(items) /\ IsInjective(items)
    BY <1>0, <1>3, <1>5 DEF OwnerInv, InQueue
  <2> QED
    BY <1>0, <1>1, <1>3, <2>1, AppendElements
<1>7. \A e \in AllEntries :
        /\ InQueue(e)' <=> InQueue(e) \/ e = x
        /\ \A c \in Senders : With(e, c)' <=> With(e, c) /\ c # w
        /\ \A v \in Workers : Out(e, v)' <=> Out(e, v)
        /\ With(e, w) => e = x
  BY <1>1, <1>3, <1>4, <1>6, SingleEntry DEF InQueue, With, Out
<1>8. IsInjective(items)' /\ \A c \in Senders : IsInjective(batch'[c])
  BY <1>4, <1>6, SingleEntry DEF OwnerInv
<1> QED
  BY <1>0, <1>2, <1>3, <1>5, <1>7, <1>8 DEF OwnerInv

LEMMA FilledUpOwns ==
  ASSUME TypeInv, OwnerInv, NEW w \in Workers, FillUp(w)
  PROVE  OwnerInv'
<1>0. /\ w \in Senders /\ batch \in [Senders -> Seq(AllEntries)]
      /\ batch[w] \in Seq(Entries) /\ items \in Seq(Entries)
  BY SenderKinds DEF TypeInv, ClientTypeOK, OwnTypeOK, Q!QueueTypeOK, HandsInv
<1>1. PICK n \in 0..Len(items) :
        /\ items' = SubSeq(items, n + 1, Len(items))
        /\ batch' = [batch EXCEPT ![w] = batch[w] \o SubSeq(items, 1, n)]
  BY DEF FillUp
<1> DEFINE head == SubSeq(items, 1, n)
<1>2. /\ UNCHANGED taken /\ batch'[w] = batch[w] \o head
      /\ \A c \in Senders \ {w} : batch'[c] = batch[c]
  BY <1>0, <1>1 DEF FillUp
<1>3. \A e \in AllEntries : (AtSender(e)' <=> AtSender(e)) /\ (Settled(e)' <=> Settled(e))
  BY SendersLeft, WhatSettles DEF FillUp
<1>4. /\ head \in Seq(Entries) /\ IsInjective(head) /\ IsInjective(items')
      /\ ToSet(items) = ToSet(head) \cup ToSet(items')
      /\ ToSet(head) \cap ToSet(items') = {}
  BY <1>0, <1>1, CutElements DEF OwnerInv
<1> HIDE DEF head
<1>5. ToSet(batch[w]) \cap ToSet(head) = {}
  <2> SUFFICES ASSUME NEW e, With(e, w), e \in ToSet(head) PROVE FALSE
    BY DEF With
  <2>1. InQueue(e)
    BY <1>4 DEF InQueue
  <2>2. e \in AllEntries
    BY <1>0, ElementsTyped, SenderKinds DEF With
  <2> QED
    BY <1>0, <2>1, <2>2 DEF OwnerInv
<1>6. IsInjective(batch'[w]) /\ ToSet(batch'[w]) = ToSet(batch[w]) \cup ToSet(head)
  BY <1>0, <1>2, <1>4, <1>5, ConcatElements DEF OwnerInv
<1>7. \A e \in AllEntries :
        /\ InQueue(e)' <=> InQueue(e) /\ e \notin ToSet(head)
        /\ e \in ToSet(head) => InQueue(e)
        /\ \A c \in Senders : With(e, c)' <=> With(e, c) \/ (c = w /\ e \in ToSet(head))
        /\ \A v \in Workers : Out(e, v)' <=> Out(e, v)
  BY <1>2, <1>4, <1>6 DEF InQueue, With, Out
<1>8. IsInjective(items)' /\ \A c \in Senders : IsInjective(batch'[c])
  BY <1>2, <1>4, <1>6 DEF OwnerInv
<1> QED
  BY <1>0, <1>3, <1>7, <1>8 DEF OwnerInv

LEMMA ReportedOwns ==
  ASSUME TypeInv, OwnerInv, NEW c \in Senders, NEW f \in Fates, Report(c, f)
  PROVE  OwnerInv'
<1>0. batch \in [Senders -> Seq(AllEntries)]
  BY DEF TypeInv, ClientTypeOK, OwnTypeOK
<1>1. /\ UNCHANGED <<items, taken>> /\ batch'[c] = <<>>
      /\ \A d \in Senders \ {c} : batch'[d] = batch[d]
  BY <1>0 DEF Report
<1>2. \A e \in AllEntries : AtSender(e)' <=> AtSender(e)
  BY SendersLeft DEF Report
<1>3. \A e \in AllEntries : Settled(e)' <=> Settled(e) \/ With(e, c)
  BY WhatSettles DEF Report, With
<1>4. \A e \in AllEntries :
        /\ InQueue(e)' <=> InQueue(e)
        /\ \A d \in Senders : With(e, d)' <=> With(e, d) /\ d # c
        /\ \A v \in Workers : Out(e, v)' <=> Out(e, v)
  BY <1>1, SingleEntry DEF InQueue, With, Out
<1>5. IsInjective(items)' /\ \A d \in Senders : IsInjective(batch'[d])
  BY <1>1, SingleEntry DEF OwnerInv
<1> QED
  BY <1>2, <1>3, <1>4, <1>5 DEF OwnerInv

LEMMA OwnerStep == TypeInv /\ OwnerInv /\ [ClientNext]_clientVars => OwnerInv'
<1> SUFFICES ASSUME TypeInv, OwnerInv, [ClientNext]_clientVars PROVE OwnerInv'
  OBVIOUS
<1>1. CASE Still
  BY <1>1, StillOwns
<1>2. ASSUME NEW e \in Entries, PutIn(e) \/ \E f \in Fates : Refuse(e, f)
      PROVE  OwnerInv'
  BY <1>2, PutInOwns, RefusedOwns
<1>3. ASSUME NEW b \in Batches,
             RefuseAll(b) \/ \E rest \in Subsequences(BatchOf[b]) : PassOn(b, rest)
      PROVE  OwnerInv'
  BY <1>3, RefusedBatchOwns, PassedOnOwns
<1>4. ASSUME NEW w \in Workers, TakeOut(w) \/ PickUp(w) \/ PutBack(w) \/ FillUp(w)
      PROVE  OwnerInv'
  BY <1>4, TakenOutOwns, PickedUpOwns, PutBackOwns, FilledUpOwns
<1>5. ASSUME NEW c \in Senders, NEW f \in Fates, Report(c, f) PROVE OwnerInv'
  BY <1>5, ReportedOwns
<1>6. EntryMoves
  BY StepMoves
<1> QED
  BY <1>1, <1>2, <1>3, <1>4, <1>5, <1>6 DEF EntryMoves

\* Initially every entry is with its sender.
LEMMA InitOwners == ClientInit => OwnerInv
<1> SUFFICES ASSUME ClientInit PROVE OwnerInv
  OBVIOUS
<1>1. items = <<>> /\ \A c \in Senders : batch[c] = <<>>
  BY DEF ClientInit, Q!QueueInit
<1>2. \A e \in AllEntries : /\ ~InQueue(e) /\ ~Settled(e)
                            /\ \A c \in Senders : ~With(e, c)
                            /\ \A w \in Workers : ~Out(e, w)
  <2>1. \A e \in AllEntries : e # None
    BY ClientAssumption DEF ClientAssumption
  <2>2. \A w \in Workers : taken[w] = None
    BY DEF ClientInit, Q!QueueInit
  <2>3. \A e \in AllEntries : fate[e] = "pending"
    BY DEF ClientInit
  <2> QED
    BY <1>1, <2>1, <2>2, <2>3, SingleEntry DEF InQueue, Settled, With, Out
<1>3. \A e \in AllEntries : AtSender(e)
  <2>1. ASSUME NEW e \in Entries PROVE AtSender(e)
    BY DEF ClientInit, AtSender, Waits
  <2>2. ASSUME NEW e \in BatchEntries PROVE AtSender(e)
    BY DEF ClientInit, AtSender, Unsent, BatchEntries
  <2> QED
    BY <2>1, <2>2 DEF AllEntries
<1> QED
  BY <1>1, <1>2, <1>3, SingleEntry DEF OwnerInv

LEMMA OwnersHold == ClientSpec => []OwnerInv
  BY InitOwners, OwnerStep, TypesHold, PTL DEF ClientSpec

\* The owners that OneOwner counts, by the same places.
LEMMA OwnersAre ==
  ASSUME OwnerInv, NEW e \in AllEntries
  PROVE  \E x : Owners(e) = {x}
<1>1. Owners(e) =
        (IF AtSender(e) THEN {"producer"} ELSE {})
        \cup (IF InQueue(e) THEN {"queue"} ELSE {})
        \cup {c \in Senders : With(e, c)}
        \cup {<<"dequeued", w>> : w \in {v \in Workers : Out(e, v)}}
        \cup (IF Settled(e) THEN {"statistics"} ELSE {})
  <2>1. AtSender(e) => fate[e] = "pending"
    BY DEF OwnerInv, Settled
  <2>2. \A b \in Batches : e \in ToSet(BatchOf[b]) => e \in BatchEntries
    BY SenderKinds
  <2>3. AtSender(e) <=>
          \/ e \in Entries /\ ppc[e] \in {"new", "admitting", "enqueueing"}
          \/ /\ e \in BatchEntries
             /\ \E b \in Batches :
                  e \in ToSet(BatchOf[b]) /\ bpc[b] \in {"new", "preparing"}
                                          /\ fate[e] = "pending"
    BY <2>1, <2>2 DEF AtSender, Waits, Unsent
  <2> QED
    BY <2>3 DEF Owners, InQueue, With, Out, Settled
<1> HIDE DEF Owners
<1>2. CASE AtSender(e) \/ InQueue(e) \/ Settled(e)
  <2>1. /\ \A c \in Senders : ~With(e, c)
        /\ \A w \in Workers : ~Out(e, w)
    BY <1>2 DEF OwnerInv
  <2>2. CASE AtSender(e)
    <3>1. ~InQueue(e) /\ ~Settled(e)
      BY <2>2 DEF OwnerInv
    <3>2. Owners(e) = {"producer"}
      BY <1>1, <2>1, <2>2, <3>1
    <3> QED
      BY <3>2
  <2>3. CASE InQueue(e)
    <3>1. ~AtSender(e) /\ ~Settled(e)
      BY <2>3 DEF OwnerInv
    <3>2. Owners(e) = {"queue"}
      BY <1>1, <2>1, <2>3, <3>1
    <3> QED
      BY <3>2
  <2>4. CASE Settled(e)
    <3>1. ~AtSender(e) /\ ~InQueue(e)
      BY <2>4 DEF OwnerInv
    <3>2. Owners(e) = {"statistics"}
      BY <1>1, <2>1, <2>4, <3>1
    <3> QED
      BY <3>2
  <2> QED
    BY <1>2, <2>2, <2>3, <2>4
<1>3. ASSUME NEW c \in Senders, With(e, c) PROVE Owners(e) = {c}
  <2>1. /\ ~AtSender(e) /\ ~InQueue(e) /\ ~Settled(e)
        /\ \A w \in Workers : ~Out(e, w)
        /\ \A d \in Senders : With(e, d) <=> d = c
    BY <1>3 DEF OwnerInv
  <2> QED
    BY <1>1, <2>1
<1>4. ASSUME NEW w \in Workers, Out(e, w) PROVE Owners(e) = {<<"dequeued", w>>}
  <2>1. /\ ~AtSender(e) /\ ~InQueue(e) /\ ~Settled(e)
        /\ \A c \in Senders : ~With(e, c)
        /\ \A v \in Workers : Out(e, v) <=> v = w
    BY <1>4 DEF OwnerInv
  <2>2. {v \in Workers : Out(e, v)} = {w} /\ {c \in Senders : With(e, c)} = {}
    BY <2>1
  <2> QED
    BY <1>1, <2>1, <2>2
<1> QED
  BY <1>2, <1>3, <1>4 DEF OwnerInv

\* Nothing is lost and nothing is in two hands: through every interleaving of
\* senders, workers, rate-limit requeues, direct batches and Close, an entry is
\* with its sender, queued, with one worker or settled, and there once.
THEOREM EntriesHaveOneOwner == ClientSpec => []OneOwner
<1>1. OwnerInv => OneOwner
  <2> SUFFICES ASSUME OwnerInv PROVE OneOwner
    OBVIOUS
  <2>1. ASSUME NEW e \in AllEntries PROVE Cardinality(Owners(e)) = 1
    BY OwnersAre, FS_Singleton
  <2> QED
    BY <2>1 DEF OneOwner, OwnerInv
<1> QED
  BY <1>1, OwnersHold, PTL

-----------------------------------------------------------------------------
(* Duplicates.                                                             *)

\* An acknowledged delivery is known to the sender of e.
Known(e) == \E c \in Senders : With(e, c) /\ rpc[c] = "done" /\ outcome[c] = "ok"

\* e is part of a request.
Requested(e) == \E c \in Senders : With(e, c) /\ rpc[c] # "idle"

\* A delivery is either known to its sender, by the result that waits to be
\* collected or the fate it has given the entry, or its reply was lost; until
\* then the entry stays in a request.
DeliveryInv ==
  \A e \in AllEntries :
    /\ deliveries[e] > 0 => e \in replyLost \/ Settled(e) \/ Known(e)
    /\ deliveries[e] > 0 => Settled(e) \/ Requested(e)
    /\ deliveries[e] > 1 => e \in replyLost

LEMMA SettledStays ==
  ASSUME TypeInv, EntryMoves, NEW e \in AllEntries, Settled(e)
  PROVE  Settled(e)'
<1>1. CASE NothingSettled
  BY <1>1 DEF NothingSettled, Settled
<1>2. ASSUME NEW s, NEW f, CountAs(s, f), f # "pending" PROVE Settled(e)'
  BY <1>2, WhatSettles
<1>3. ASSUME NEW b, NEW rest, PassOn(b, rest) PROVE Settled(e)'
  BY <1>3 DEF PassOn, Settled
<1> QED
  BY <1>1, <1>2, <1>3 DEF EntryMoves, Still, PutIn, TakeOut, PickUp, PutBack, FillUp,
     Refuse, RefuseAll, Report

LEMMA DeliveryStep ==
  TypeInv /\ OwnerInv /\ DeliveryInv /\ [ClientNext]_clientVars => DeliveryInv'
<1> SUFFICES ASSUME TypeInv, OwnerInv, DeliveryInv, [ClientNext]_clientVars,
                    NEW e \in AllEntries
             PROVE  /\ deliveries'[e] > 0 =>
                         e \in replyLost' \/ Settled(e)' \/ Known(e)'
                    /\ deliveries'[e] > 0 => Settled(e)' \/ Requested(e)'
                    /\ deliveries'[e] > 1 => e \in replyLost'
  BY DEF DeliveryInv
<1>1. EntryMoves /\ (ServerQuiet \/ \E c \in Senders : ServerAccepts(c))
  BY StepMoves, StepServes
<1>2. /\ deliveries[e] > 0 => e \in replyLost \/ Settled(e) \/ Known(e)
      /\ deliveries[e] > 0 => Settled(e) \/ Requested(e)
      /\ deliveries[e] > 1 => e \in replyLost
  BY DEF DeliveryInv
<1>3. CASE ServerQuiet
  <2>1. UNCHANGED <<deliveries, replyLost>>
    BY <1>3 DEF ServerQuiet, serverVars
  <2>2. ASSUME Known(e) PROVE Settled(e)' \/ Known(e)'
    <3>1. PICK c \in Senders : With(e, c) /\ rpc[c] = "done" /\ outcome[c] = "ok"
      BY <2>2 DEF Known
    <3>2. DoneStays(c)
      BY <1>3 DEF ServerQuiet
    <3>3. CASE rpc'[c] = "done" /\ outcome'[c] = outcome[c] /\ batch'[c] = batch[c]
      BY <3>1, <3>3 DEF Known, With
    <3>4. CASE \A x \in ToSet(batch[c]) : fate'[x] # "pending"
      BY <3>1, <3>4 DEF With, Settled
    <3> QED
      BY <3>1, <3>2, <3>3, <3>4 DEF DoneStays
  <2>3. ASSUME Requested(e) PROVE Settled(e)' \/ Requested(e)'
    <3>1. PICK c \in Senders : With(e, c) /\ rpc[c] # "idle"
      BY <2>3 DEF Requested
    <3>2. BatchStays(c)
      BY <1>3 DEF ServerQuiet
    <3>3. CASE rpc'[c] # "idle" /\ batch'[c] = batch[c]
      BY <3>1, <3>3 DEF Requested, With
    <3>4. CASE \A x \in ToSet(batch[c]) : fate'[x] # "pending"
      BY <3>1, <3>4 DEF With, Settled
    <3> QED
      BY <3>1, <3>2, <3>3, <3>4 DEF BatchStays
  <2>4. Settled(e) => Settled(e)'
    BY <1>1, SettledStays
  <2> QED
    BY <1>2, <2>1, <2>2, <2>3, <2>4
<1>4. ASSUME NEW c \in Senders, ServerAccepts(c)
      PROVE  /\ deliveries'[e] > 0 =>
                  e \in replyLost' \/ Settled(e)' \/ Known(e)'
             /\ deliveries'[e] > 0 => Settled(e)' \/ Requested(e)'
             /\ deliveries'[e] > 1 => e \in replyLost'
  <2>1. /\ rpc[c] = "calling" /\ rpc'[c] # "idle" /\ Accepted(c)
        /\ Settled(e)' <=> Settled(e)
        /\ \A d \in Senders : With(e, d)' <=> With(e, d)
        /\ \A d \in Senders \ {c} : rpc'[d] = rpc[d] /\ outcome'[d] = outcome[d]
    BY <1>4 DEF ServerAccepts, Settled, With
  <2>2. e \in replyLost => e \in replyLost'
    BY <1>4 DEF ServerAccepts
  <2>3. Known(e) => Known(e)'
    BY <2>1 DEF Known
  <2>4. Requested(e) => Requested(e)'
    BY <2>1 DEF Requested
  <2>5. CASE ~With(e, c)
    <3>1. deliveries'[e] = deliveries[e]
      BY <2>1, <2>5, AcceptedOnce DEF With
    <3> QED
      BY <1>2, <2>1, <2>2, <2>3, <2>4, <3>1
  <2>6. ASSUME With(e, c) PROVE Requested(e)'
    BY <2>1, <2>6 DEF Requested
  <2>7. CASE With(e, c) /\ replyLost' = replyLost \cup ToSet(batch[c])
    BY <2>6, <2>7 DEF With
  <2>8. CASE With(e, c) /\ rpc'[c] = "done" /\ outcome'[c] = "ok"
    <3>1. deliveries'[e] > 1 => deliveries[e] > 0
      BY <2>1, <2>8, AcceptedOnce DEF With
    <3>2. ~Settled(e) /\ ~Known(e)
      BY <2>1, <2>8 DEF OwnerInv, Known
    <3>3. deliveries[e] > 0 => e \in replyLost
      BY <1>2, <3>2
    <3>4. Known(e)'
      BY <2>1, <2>8 DEF Known
    <3> QED
      BY <2>2, <2>6, <2>8, <3>1, <3>3, <3>4
  <2> QED
    BY <1>4, <2>5, <2>7, <2>8 DEF ServerAccepts
<1> QED
  BY <1>1, <1>3, <1>4

-----------------------------------------------------------------------------
(* Statistics.                                                             *)

LEMMA CardinalityOfElements ==
  ASSUME NEW S, NEW s \in Seq(S), IsInjective(s)
  PROVE  /\ IsFiniteSet(ToSet(s)) /\ Cardinality(ToSet(s)) = Len(s)
         /\ Len(s) \in Nat
<1>1. Len(s) \in Nat /\ DOMAIN s = 1..Len(s) /\ s \in [1..Len(s) -> S]
  BY LenProperties
<1>2. s \in [1..Len(s) -> ToSet(s)] /\ \A x \in ToSet(s) : \E i \in 1..Len(s) : s[i] = x
  BY <1>1 DEF ToSet
<1>3. ExistsBijection(1..Len(s), ToSet(s))
  BY <1>2 DEF ExistsBijection, Bijection, Injection, Surjection
<1>4. Cardinality(ToSet(s)) = Len(s)
  BY <1>1, <1>3, FS_CountingElements
<1>5. IsFiniteSet(ToSet(s))
  BY <1>1, <1>3, FS_NatBijection
<1> QED
  BY <1>1, <1>4, <1>5

\* n counts the members of S, m is added to it when those of T are.
LEMMA CountMore ==
  ASSUME NEW U, IsFiniteSet(U), NEW S \in SUBSET U, NEW T \in SUBSET U,
         S \cap T = {}, NEW n, n = Cardinality(S)
  PROVE  Cardinality(S \cup T) = n + Cardinality(T)
<1>1. IsFiniteSet(S) /\ IsFiniteSet(T)
  BY FS_Subset
<1>2. Cardinality(S) \in Nat /\ Cardinality(T) \in Nat /\ Cardinality(S \cap T) = 0
  BY <1>1, FS_CardinalityType, FS_EmptySet
<1>3. Cardinality(S \cup T) = Cardinality(S) + Cardinality(T) - Cardinality(S \cap T)
  BY <1>1, FS_Union
<1> QED
  BY <1>2, <1>3

WithFate(f) == {e \in AllEntries : fate[e] = f}

FateStats ==
  /\ totalSent = Cardinality(WithFate("sent"))
  /\ \A r \in DropReasons : drops[r] = Cardinality(WithFate(r))

LEMMA CountedFates ==
  ASSUME TypeInv, FateStats,
         NEW s \in Seq(AllEntries), IsInjective(s),
         \A e \in ToSet(s) : ~Settled(e),
         NEW f \in Fates \ {"pending"}, CountAs(s, f)
  PROVE  FateStats'
<1>1. /\ Len(s) \in Nat /\ Cardinality(ToSet(s)) = Len(s)
      /\ ToSet(s) \subseteq AllEntries /\ IsFiniteSet(AllEntries)
  BY CardinalityOfElements, ElementsTyped, ClientAssumption DEF ClientAssumption
<1>2. /\ WithFate(f)' = WithFate(f) \cup ToSet(s)
      /\ WithFate(f) \cap ToSet(s) = {}
      /\ WithFate(f) \subseteq AllEntries
      /\ \A g \in Fates \ {"pending"} : g # f => WithFate(g)' = WithFate(g)
  BY <1>1 DEF CountAs, Settle, Settled, WithFate
<1>3. \A n : n = Cardinality(WithFate(f)) => Cardinality(WithFate(f)') = n + Len(s)
  <2> HIDE DEF WithFate
  <2>1. ASSUME NEW n, n = Cardinality(WithFate(f))
        PROVE  Cardinality(WithFate(f) \cup ToSet(s)) = n + Cardinality(ToSet(s))
    BY <1>1, <1>2, <2>1, CountMore
  <2> QED
    BY <1>1, <1>2, <2>1
<1>4. totalSent' = Cardinality(WithFate("sent")')
  <2>1. "sent" \in Fates \ {"pending"}
    BY DEF Fates
  <2>2. CASE f = "sent"
    BY <1>3, <2>2 DEF CountAs, FateStats
  <2>3. CASE f # "sent"
    BY <1>2, <2>1, <2>3 DEF CountAs, FateStats
  <2> QED
    BY <2>2, <2>3
<1>5. ASSUME NEW r \in DropReasons PROVE drops'[r] = Cardinality(WithFate(r)')
  <2>1. r \in Fates \ {"pending"} /\ drops \in [DropReasons -> Nat]
    BY DEF Fates, DropReasons, TypeInv, ClientTypeOK, OwnTypeOK
  <2>2. CASE f = r
    <3>1. drops'[r] = drops[r] + Len(s)
      BY <2>1, <2>2 DEF CountAs
    <3> QED
      BY <1>3, <2>2, <3>1 DEF FateStats
  <2>3. CASE f # r
    <3>1. drops'[r] = drops[r]
      BY <2>1, <2>3 DEF CountAs
    <3>2. WithFate(r)' = WithFate(r)
      BY <1>2, <2>1, <2>3
    <3> QED
      BY <3>1, <3>2 DEF FateStats
  <2> QED
    BY <2>2, <2>3
<1> QED
  BY <1>4, <1>5 DEF FateStats

LEMMA FateStatsStep ==
  ASSUME TypeInv, OwnerInv, FateStats, EntryMoves
  PROVE  FateStats'
<1>1. CASE NothingSettled
  BY <1>1 DEF NothingSettled, FateStats, WithFate
<1>2. ASSUME NEW x \in Entries, NEW f \in Fates, Refuse(x, f) PROVE FateStats'
  <2>1. x \in AllEntries /\ ToSet(<<x>>) = {x} /\ IsInjective(<<x>>)
    BY SenderKinds, SingleEntry
  <2>2. <<x>> \in Seq(AllEntries)
    BY <2>1
  <2>3. ~Settled(x)
    BY <1>2, <2>1 DEF Refuse, AtSender, OwnerInv
  <2>4. \A e \in ToSet(<<x>>) : ~Settled(e)
    BY <2>1, <2>3
  <2>5. CountAs(<<x>>, f) /\ f \in Fates \ {"pending"}
    BY <1>2 DEF Refuse
  <2> QED
    BY <2>1, <2>2, <2>4, <2>5, CountedFates
<1>3. ASSUME NEW b \in Batches, RefuseAll(b) PROVE FateStats'
  <2>1. /\ BatchOf[b] \in Seq(BatchEntries) /\ IsInjective(BatchOf[b])
        /\ ToSet(BatchOf[b]) \subseteq AllEntries
    BY ClientAssumption, SenderKinds DEF ClientAssumption
  <2>2. BatchOf[b] \in Seq(AllEntries)
    BY <2>1, SenderKinds
  <2>3. \A e \in ToSet(BatchOf[b]) : ~Settled(e)
    BY <1>3, <2>1 DEF RefuseAll, AtSender, OwnerInv
  <2>4. CountAs(BatchOf[b], "refused") /\ "refused" \in Fates \ {"pending"}
    BY <1>3 DEF RefuseAll, Fates
  <2> QED
    BY <2>1, <2>2, <2>3, <2>4, CountedFates
<1>4. ASSUME NEW b \in Batches, NEW rest, PassOn(b, rest) PROVE FateStats'
  <2>1. UNCHANGED <<totalSent, drops>>
    BY <1>4 DEF PassOn
  <2>2. ToSet(BatchOf[b]) \subseteq AllEntries
    BY SenderKinds
  <2>3. \A e \in ToSet(BatchOf[b]) : fate[e] = "pending"
    BY <1>4, <2>2 DEF PassOn, AtSender, OwnerInv, Settled
  <2>4. ASSUME NEW f, f \notin {"pending", "filtered"} PROVE WithFate(f)' = WithFate(f)
    BY <1>4, <2>3, <2>4 DEF PassOn, WithFate
  <2>5. \A r \in DropReasons \cup {"sent"} : r \notin {"pending", "filtered"}
    BY DEF DropReasons
  <2> QED
    BY <2>1, <2>4, <2>5 DEF FateStats
<1>5. ASSUME NEW c \in Senders, NEW f \in Fates, Report(c, f) PROVE FateStats'
  <2>1. batch[c] \in Seq(AllEntries) /\ IsInjective(batch[c])
    BY DEF TypeInv, ClientTypeOK, OwnTypeOK, OwnerInv
  <2>2. \A e \in ToSet(batch[c]) : ~Settled(e)
    BY BatchedEntries DEF OwnerInv, With
  <2>3. CountAs(batch[c], f) /\ f \in Fates \ {"pending"}
    BY <1>5 DEF Report
  <2> QED
    BY <2>1, <2>2, <2>3, CountedFates
<1>6. CASE \/ Still
           \/ \E e \in Entries : PutIn(e)
           \/ \E w \in Workers : TakeOut(w) \/ PickUp(w) \/ PutBack(w) \/ FillUp(w)
  BY <1>1, <1>6 DEF Still, PutIn, TakeOut, PickUp, PutBack, FillUp
<1> QED
  BY <1>2, <1>3, <1>4, <1>5, <1>6 DEF EntryMoves

QueuedStats == totalQueued = Cardinality({e \in Entries : ppc[e] = "queued"})

LEMMA QueuedMoves ==
  ASSUME TypeInv, [ClientNext]_clientVars
  PROVE  \/ /\ UNCHANGED totalQueued
            /\ \A e \in Entries : ppc'[e] = "queued" <=> ppc[e] = "queued"
         \/ \E e \in Entries : CountQueued(e)
<1> DEFINE Same == UNCHANGED totalQueued /\ \A e \in Entries :
                     ppc'[e] = "queued" <=> ppc[e] = "queued"
<1>0. UNCHANGED <<ppc, totalQueued>> => Same
  OBVIOUS
<1>1. ASSUME NEW e \in Entries, CheckOpen(e) \/ Sending(e)
      PROVE  Same \/ CountQueued(e)
  <2>1. CASE ~CountQueued(e)
    <3>1. /\ ppc[e] # "queued" /\ UNCHANGED totalQueued
          /\ \E p \in {"gone", "admitting", "enqueueing", "counting"} :
               ppc' = [ppc EXCEPT ![e] = p]
      BY <1>1, <2>1 DEF CheckOpen, Sending, DropAtAdmission, Admit, EnqueueAccepted,
         EnqueueRefused, ProducerGoes, recordDrop, statVars
    <3>2. ppc \in [Entries -> {"new", "admitting", "enqueueing", "counting",
                               "queued", "gone"}]
      BY DEF TypeInv, ClientTypeOK, OwnTypeOK
    <3> QED
      BY <3>1, <3>2
  <2> QED
    BY <2>1
<1> HIDE DEF Same
<1>2. ASSUME NEW c \in Senders, RetryLoop(c) \/ Exchange(c) PROVE Same
  BY <1>0, <1>2, LoopMoves DEF exchangeRest, statVars
<1>3. ASSUME NEW w \in Workers, WorkerStep(w) PROVE Same
  <2>1. CASE RetryLoop(w) \/ Exchange(w)
    BY <1>2, <2>1, SenderKinds
  <2>2. CASE ~(RetryLoop(w) \/ Exchange(w))
    BY <1>0, <1>3, <2>2 DEF WorkerStep, WorkerDequeues, WorkerTakes, RequeueAccepted,
       RequeueRefused, PauseElapsed, PauseCancelled, FillBatch, WorkerReports,
       workerRest, statVars, recordDrop, RecordSent
  <2> QED
    BY <2>1, <2>2
<1>4. ASSUME NEW b \in Batches, BatchCheckOpen(b) \/ BatchStep(b) PROVE Same
  <2>1. CASE RetryLoop(b) \/ Exchange(b)
    BY <1>2, <2>1, SenderKinds
  <2>2. CASE ~(RetryLoop(b) \/ Exchange(b))
    BY <1>0, <1>4, <2>2 DEF BatchCheckOpen, BatchStep, BatchInvalid, BatchBegins,
       BatchReports, batchRest, recordDrop, RecordSent
  <2> QED
    BY <2>1, <2>2
<1>5. ASSUME NEW k \in Closers, CloseChecks(k) \/ Closing(k) PROVE Same
  BY <1>0, <1>5 DEF CloseChecks, Closing, CloseStores, CloseFlushed,
     CloseFlushTimesOut, CloseCancels, CloseQueue, CloseJoins, CloseZeroesKey,
     closerRest, statVars
<1>6. CASE \/ PauseExpires \/ PublishHealthURL \/ UNCHANGED clientVars
           \/ \E enabled \in BOOLEAN : EnableResilientMode(enabled)
  <2>1. Same
    BY <1>0, <1>6 DEF PauseExpires, PublishHealthURL, EnableResilientMode, clientVars,
       statVars
  <2> QED
    BY <2>1 DEF Same
<1> QED
  BY <1>1, <1>3, <1>4, <1>5, <1>6 DEF ClientNext, Same

LEMMA QueuedStep == TypeInv /\ QueuedStats /\ [ClientNext]_clientVars => QueuedStats'
<1> SUFFICES ASSUME TypeInv, QueuedStats, [ClientNext]_clientVars PROVE QueuedStats'
  OBVIOUS
<1> DEFINE S == {e \in Entries : ppc[e] = "queued"}
<1>1. CASE /\ UNCHANGED totalQueued
           /\ \A e \in Entries : ppc'[e] = "queued" <=> ppc[e] = "queued"
  <2>1. S' = S
    BY <1>1
  <2> QED
    BY <1>1, <2>1 DEF QueuedStats
<1>2. ASSUME NEW x \in Entries, CountQueued(x) PROVE QueuedStats'
  <2>1. ppc \in [Entries -> {"new", "admitting", "enqueueing", "counting",
                             "queued", "gone"}]
    BY DEF TypeInv, ClientTypeOK, OwnTypeOK
  <2>2. /\ totalQueued' = totalQueued + 1
        /\ ppc[x] = "counting" /\ ppc' = [ppc EXCEPT ![x] = "queued"]
    BY <1>2 DEF CountQueued, ProducerGoes
  <2>3. S' = S \cup {x} /\ x \notin S /\ S \subseteq Entries
    BY <2>1, <2>2
  <2>4. IsFiniteSet(S)
    <3>1. Entries \in SUBSET AllEntries /\ IsFiniteSet(AllEntries)
      BY SenderKinds, ClientAssumption DEF ClientAssumption
    <3> QED
      BY <2>3, <3>1, FS_Subset
  <2> HIDE DEF S
  <2>5. Cardinality(S \cup {x}) = Cardinality(S) + 1
    BY <2>3, <2>4, FS_AddElement
  <2> QED
    BY <2>2, <2>3, <2>5 DEF QueuedStats, S
<1> QED
  BY <1>1, <1>2, QueuedMoves

\* GetStats tells the truth: in every reachable state each counter is the
\* number of entries with that outcome, through requeues, partial batches,
\* give-ups and shutdown.
THEOREM StatisticsAreExact == ClientSpec => []StatsAreExact
<1>1. ClientInit => FateStats /\ QueuedStats
  <2> SUFFICES ASSUME ClientInit PROVE FateStats /\ QueuedStats
    OBVIOUS
  <2>1. /\ {e \in Entries : ppc[e] = "queued"} = {}
        /\ totalQueued = 0
    BY DEF ClientInit
  <2>2. /\ \A f \in DropReasons \cup {"sent"} : WithFate(f) = {}
        /\ totalSent = 0 /\ \A r \in DropReasons : drops[r] = 0
    BY DEF ClientInit, WithFate, DropReasons
  <2> QED
    BY <2>1, <2>2, FS_EmptySet DEF FateStats, QueuedStats
<1>2. TypeInv /\ OwnerInv /\ FateStats /\ QueuedStats /\ [ClientNext]_clientVars
        => FateStats' /\ QueuedStats'
  BY StepMoves, FateStatsStep, QueuedStep
<1>3. FateStats /\ QueuedStats => StatsAreExact
  BY DEF FateStats, QueuedStats, WithFate, StatsAreExact
<1> QED
  BY <1>1, <1>2, <1>3, OwnersHold, TypesHold, PTL DEF ClientSpec
-----------------------------------------------------------------------------
(* The ledger.                                                             *)

\* What has no owner that could have sent it was never delivered.
LEMMA NeverRequested ==
  ASSUME OwnerInv, DeliveryInv, NEW e \in AllEntries, AtSender(e)
  PROVE  ~Settled(e) /\ ~(deliveries[e] > 0)
<1>1. ~Settled(e) /\ ~Requested(e)
  BY DEF OwnerInv, Requested
<1> QED
  BY <1>1 DEF DeliveryInv

LEMMA SameCardinality == \A S : L!Cardinality(S) = Cardinality(S)
  BY DEF L!Cardinality, Cardinality

LEMMA CountedEnds ==
  ASSUME TypeInv, NEW s \in Seq(AllEntries), IsInjective(s),
         NEW f \in Fates \ {"pending"}, CountAs(s, f), UNCHANGED serverVars,
         \A e \in ToSet(s) : ~Settled(e),
         f = "sent" => \A e \in ToSet(s) : deliveries[e] > 0,
         f # "sent" => \A e \in ToSet(s) : deliveries[e] > 0 => e \in replyLost,
         f \in NeverSent => \A e \in ToSet(s) : ~(deliveries[e] > 0)
  PROVE  L!End(ToSet(s), f)
<1>1. Cardinality(ToSet(s)) = Len(s) /\ ToSet(s) \subseteq AllEntries
  BY CardinalityOfElements, ElementsTyped
<1>2. \A e \in ToSet(s) : deliveries[e] \in 0..2
  BY <1>1 DEF TypeInv, ClientTypeOK, OwnTypeOK
<1>3. f \in NeverSent => \A e \in ToSet(s) : deliveries[e] = 0
  BY <1>2
<1>4. /\ fate' = [e \in AllEntries |-> IF e \in ToSet(s) THEN f ELSE fate[e]]
      /\ totalSent' = IF f = "sent" THEN totalSent + Cardinality(ToSet(s)) ELSE totalSent
      /\ drops' = IF f \in DropReasons
                  THEN [drops EXCEPT ![f] = @ + Cardinality(ToSet(s))] ELSE drops
      /\ UNCHANGED <<deliveries, replyLost>>
  BY <1>1 DEF CountAs, Settle, serverVars
<1>5. /\ \A e \in ToSet(s) : fate[e] = "pending"
      /\ f = "sent" => \A e \in ToSet(s) : deliveries[e] > 0
      /\ f # "sent" => \A e \in ToSet(s) : L!Unacknowledged(e)
  BY DEF Settled, L!Unacknowledged
<1> QED
  BY <1>3, <1>4, <1>5, SameCardinality DEF L!End

\* The server takes a batch whose entries are not settled, and that it has not
\* acknowledged before.
LEMMA AcceptedIsDelivery ==
  ASSUME TypeInv, OwnerInv, DeliveryInv, NEW c \in Senders, ServerAccepts(c)
  PROVE  L!Deliver(ToSet(batch[c]))
<1>1. ASSUME NEW e \in ToSet(batch[c])
      PROVE  fate[e] = "pending" /\ (deliveries[e] > 0 => e \in replyLost)
  <2>1. e \in AllEntries /\ With(e, c)
    BY <1>1, BatchedEntries DEF With
  <2>2. ~Settled(e) /\ \A d \in Senders : With(e, d) => d = c
    BY <2>1 DEF OwnerInv
  <2>3. ~Known(e)
    BY <2>2 DEF Known, ServerAccepts
  <2> QED
    BY <2>1, <2>2, <2>3 DEF DeliveryInv, Settled
<1>2. deliveries' = [e \in AllEntries |->
                      IF e \in ToSet(batch[c]) /\ deliveries[e] < 2
                      THEN deliveries[e] + 1 ELSE deliveries[e]]
  <2>1. \A e \in AllEntries : deliveries[e] \in 0..2
    BY DEF TypeInv, ClientTypeOK, OwnTypeOK
  <2>2. \A e \in AllEntries :
          R!Saturate(deliveries[e], 2) = IF deliveries[e] < 2 THEN deliveries[e] + 1
                                                            ELSE deliveries[e]
    BY <2>1 DEF R!Saturate
  <2> QED
    BY <2>2 DEF ServerAccepts, Accepted
<1>3. /\ replyLost' \in {replyLost, replyLost \cup ToSet(batch[c])}
      /\ UNCHANGED <<fate, totalSent, drops>>
  BY DEF ServerAccepts
<1> QED
  BY <1>1, <1>2, <1>3 DEF L!Deliver, L!Unacknowledged

\* Every step of the client is a step of Ledger or leaves it alone.
LEMMA StepOfLedger ==
  TypeInv /\ OwnerInv /\ SentInv /\ DeliveryInv /\ [ClientNext]_clientVars
    => [L!LedgerNext]_(L!ledgerVars)
<1> DEFINE Goal == [L!LedgerNext]_(L!ledgerVars)
<1> SUFFICES ASSUME TypeInv, OwnerInv, SentInv, DeliveryInv, [ClientNext]_clientVars
             PROVE  Goal
  OBVIOUS
<1>1. EntryMoves /\ (ServerQuiet \/ \E c \in Senders : ServerAccepts(c))
  BY StepMoves, StepServes
<1>2. ASSUME NEW S \in SUBSET AllEntries, NEW f \in Fates \ {"pending"}, L!End(S, f)
      PROVE  Goal
  BY <1>2 DEF L!LedgerNext
<1>3. ASSUME NEW c \in Senders, ServerAccepts(c) PROVE Goal
  <2>1. ToSet(batch[c]) \in SUBSET AllEntries
    BY BatchedEntries
  <2> QED
    BY <1>3, <2>1, AcceptedIsDelivery DEF L!LedgerNext
<1>4. CASE ServerQuiet
  <2>1. UNCHANGED serverVars /\ UNCHANGED <<deliveries, replyLost>>
    BY <1>4 DEF ServerQuiet, serverVars
  <2>2. CASE NothingSettled
    BY <2>1, <2>2 DEF NothingSettled, L!ledgerVars
  <2>3. ASSUME NEW x \in Entries, NEW f \in Fates, Refuse(x, f) PROVE Goal
    <3>1. x \in AllEntries /\ ToSet(<<x>>) = {x} /\ IsInjective(<<x>>)
      BY SenderKinds, SingleEntry
    <3>2. <<x>> \in Seq(AllEntries)
      BY <3>1
    <3>3. /\ CountAs(<<x>>, f) /\ f \in Fates \ {"pending"} /\ f # "sent"
          /\ AtSender(x)
      BY <2>3 DEF Refuse, AtSender
    <3>4. \A e \in ToSet(<<x>>) : ~Settled(e) /\ ~(deliveries[e] > 0)
      BY <3>1, <3>3, NeverRequested
    <3>5. L!End(ToSet(<<x>>), f)
      BY <2>1, <3>1, <3>2, <3>3, <3>4, CountedEnds
    <3> QED
      BY <1>2, <3>1, <3>3, <3>5
  <2>4. ASSUME NEW b \in Batches, RefuseAll(b) PROVE Goal
    <3>1. /\ BatchOf[b] \in Seq(BatchEntries) /\ IsInjective(BatchOf[b])
          /\ ToSet(BatchOf[b]) \subseteq AllEntries
      BY ClientAssumption, SenderKinds DEF ClientAssumption
    <3>2. BatchOf[b] \in Seq(AllEntries)
      BY <3>1, SenderKinds
    <3>3. /\ CountAs(BatchOf[b], "refused")
          /\ "refused" \in Fates \ {"pending"} /\ "refused" # "sent"
      BY <2>4 DEF RefuseAll, Fates
    <3>4. \A e \in ToSet(BatchOf[b]) : ~Settled(e) /\ ~(deliveries[e] > 0)
      BY <2>4, <3>1, NeverRequested DEF RefuseAll, AtSender
    <3>5. L!End(ToSet(BatchOf[b]), "refused")
      BY <2>1, <3>1, <3>2, <3>3, <3>4, CountedEnds
    <3> QED
      BY <1>2, <3>1, <3>3, <3>5
  <2>5. ASSUME NEW b \in Batches, NEW rest, PassOn(b, rest) PROVE Goal
    <3> DEFINE S == ToSet(BatchOf[b]) \ ToSet(rest)
    <3>1. S \in SUBSET AllEntries
      BY SenderKinds
    <3>2. \A e \in S : ~Settled(e) /\ deliveries[e] = 0
      <4>1. \A e \in S : ~Settled(e) /\ ~(deliveries[e] > 0)
        BY <2>5, <3>1, NeverRequested DEF PassOn, AtSender
      <4>2. \A e \in S : deliveries[e] \in 0..2
        BY <3>1 DEF TypeInv, ClientTypeOK, OwnTypeOK
      <4> QED
        BY <4>1, <4>2
    <3>3. /\ fate' = [e \in AllEntries |-> IF e \in S THEN "filtered" ELSE fate[e]]
          /\ UNCHANGED <<totalSent, drops>>
      BY <2>5 DEF PassOn
    <3>4. /\ "filtered" \in Fates \ {"pending"} /\ "filtered" # "sent"
          /\ "filtered" \notin DropReasons
      BY DEF Fates, DropReasons
    <3> HIDE DEF S
    <3>5. L!End(S, "filtered")
      BY <2>1, <3>2, <3>3, <3>4 DEF L!End, L!Unacknowledged, Settled
    <3> QED
      BY <1>2, <3>1, <3>4, <3>5
  <2>6. ASSUME NEW c \in Senders, NEW f \in Fates, Report(c, f) PROVE Goal
    <3>1. /\ batch[c] \in Seq(AllEntries) /\ IsInjective(batch[c])
          /\ ToSet(batch[c]) \subseteq AllEntries
      BY BatchedEntries DEF TypeInv, ClientTypeOK, OwnTypeOK, OwnerInv
    <3>2. \A e \in ToSet(batch[c]) :
            ~Settled(e) /\ \A d \in Senders : With(e, d) => d = c
      BY <3>1 DEF OwnerInv, With
    <3>3. CountAs(batch[c], f) /\ f \in Fates \ {"pending"}
      BY <2>6 DEF Report
    <3>4. CASE f \in NeverSent
      <4>1. rpc[c] = "idle" /\ f # "sent"
        BY <2>6, <3>4 DEF Report, NeverSent
      <4>2. \A e \in ToSet(batch[c]) : ~Requested(e)
        BY <3>2, <4>1 DEF Requested
      <4>3. \A e \in ToSet(batch[c]) : ~(deliveries[e] > 0)
        BY <3>1, <3>2, <4>2 DEF DeliveryInv
      <4>4. L!End(ToSet(batch[c]), f)
        BY <2>1, <3>1, <3>2, <3>3, <4>1, <4>3, CountedEnds
      <4> QED
        BY <1>2, <3>1, <3>3, <4>4
    <3>5. CASE f \notin NeverSent
      <4>1. rpc[c] = "done" /\ (f = "sent" <=> outcome[c] = "ok")
        BY <2>6, <3>5 DEF Report
      <4>2. f = "sent" => \A e \in ToSet(batch[c]) : deliveries[e] > 0
        BY <4>1 DEF SentInv
      <4>3. f # "sent" => \A e \in ToSet(batch[c]) : ~Known(e)
        BY <3>2, <4>1 DEF Known
      <4>4. f # "sent" =>
              \A e \in ToSet(batch[c]) : deliveries[e] > 0 => e \in replyLost
        BY <3>1, <3>2, <4>3 DEF DeliveryInv
      <4>5. L!End(ToSet(batch[c]), f)
        BY <2>1, <3>1, <3>2, <3>3, <3>5, <4>2, <4>4, CountedEnds
      <4> QED
        BY <1>2, <3>1, <3>3, <4>5
    <3> QED
      BY <3>4, <3>5
  <2>7. CASE \/ Still
             \/ \E e \in Entries : PutIn(e)
             \/ \E w \in Workers : TakeOut(w) \/ PickUp(w) \/ PutBack(w) \/ FillUp(w)
    BY <2>2, <2>7 DEF Still, PutIn, TakeOut, PickUp, PutBack, FillUp
  <2> QED
    BY <1>1, <2>3, <2>4, <2>5, <2>6, <2>7 DEF EntryMoves
<1> QED
  BY <1>1, <1>3, <1>4

\* The client implements Ledger: for any numbers of senders, workers, direct
\* batches and Closes an entry ends once and is counted as what became of it,
\* acknowledged entries are never counted as dropped, nothing is sent after it
\* was settled, and what a full queue, a pause, a hook, a validation or a closed
\* client turned away never reaches the server.
THEOREM ClientKeepsLedger == ClientSpec => LedgerContract
<1>1. ClientInit => L!LedgerInit /\ SentInv /\ DeliveryInv
  BY DEF ClientInit, R!RetryInit, L!LedgerInit, SentInv, SentMeansDelivered, DeliveryInv
<1> QED
  BY <1>1, StepOfLedger, SentStep, DeliveryStep, OwnersHold, TypesHold,
     PTL DEF ClientSpec, LedgerContract, L!LedgerSpec

-----------------------------------------------------------------------------
(* What a ledger says of the entries at any one moment.                    *)

\* What an entry's end and counter tell its user about the server: sent means
\* delivered, dropped means not acknowledged, turned away means never seen, and
\* a second delivery has its reason.
LedgerIsHonest ==
  /\ fate \in [AllEntries -> Fates] /\ deliveries \in [AllEntries -> 0..2]
  /\ SentMeansDelivered
  /\ NoNeedlessDuplicate
  /\ \A e \in AllEntries :
       /\ fate[e] \notin {"pending", "sent"} => L!Unacknowledged(e)
       /\ fate[e] \in NeverSent => deliveries[e] = 0

LEMMA HonestyStep ==
  LedgerIsHonest /\ [L!LedgerNext]_(L!ledgerVars) => LedgerIsHonest'
<1> SUFFICES ASSUME LedgerIsHonest, [L!LedgerNext]_(L!ledgerVars)
             PROVE  LedgerIsHonest'
  OBVIOUS
<1> USE DEF LedgerIsHonest, SentMeansDelivered, NoNeedlessDuplicate,
        L!Unacknowledged
<1>1. CASE UNCHANGED L!ledgerVars
  BY <1>1 DEF L!ledgerVars
<1>2. ASSUME NEW S \in SUBSET AllEntries, L!Deliver(S) PROVE LedgerIsHonest'
  <2>1. /\ fate' = fate /\ \A e \in replyLost : e \in replyLost'
        /\ \A e \in S : fate[e] = "pending"
        /\ \A e \in S : deliveries[e] > 0 => e \in replyLost
        /\ \A e \in AllEntries :
             deliveries'[e] = IF e \in S /\ deliveries[e] < 2 THEN deliveries[e] + 1
                                                              ELSE deliveries[e]
    BY <1>2 DEF L!Deliver
  <2>2. deliveries' \in [AllEntries -> 0..2]
    BY <1>2 DEF L!Deliver
  <2>3. "pending" \notin NeverSent
    BY DEF NeverSent
  <2>4. \A e \in AllEntries \ S : deliveries'[e] = deliveries[e]
    BY <2>1
  <2>5. \A e \in S :
          /\ deliveries'[e] > 0
          /\ deliveries'[e] > 1 => e \in replyLost
    BY <2>1
  <2> QED
    BY <2>1, <2>2, <2>3, <2>4, <2>5
<1>3. ASSUME NEW S \in SUBSET AllEntries, NEW f \in Fates \ {"pending"}, L!End(S, f)
      PROVE  LedgerIsHonest'
  <2>1. /\ \A e \in AllEntries : fate'[e] = IF e \in S THEN f ELSE fate[e]
        /\ fate' \in [AllEntries -> Fates]
        /\ deliveries' = deliveries /\ replyLost' = replyLost
    BY <1>3 DEF L!End
  <2>2. /\ f = "sent" => \A e \in S : deliveries[e] > 0
        /\ f # "sent" => \A e \in S : deliveries[e] > 0 => e \in replyLost
        /\ f \in NeverSent => \A e \in S : deliveries[e] = 0
    BY <1>3 DEF L!End
  <2> QED
    BY <2>1, <2>2
<1> QED
  BY <1>1, <1>2, <1>3 DEF L!LedgerNext

\* Whatever keeps a ledger is honest in every state.
THEOREM LedgersAreHonest == LedgerContract => []LedgerIsHonest
<1>1. L!LedgerInit => LedgerIsHonest
  BY DEF L!LedgerInit, LedgerIsHonest, SentMeansDelivered, NoNeedlessDuplicate,
     L!Unacknowledged, Fates, NeverSent
<1> QED
  BY <1>1, HonestyStep, PTL DEF LedgerContract, L!LedgerSpec

\* No counter of GetStats claims a delivery the server did not make, or hides one
\* it acknowledged, and what a full queue, a pause or a hook turned away was never
\* seen by the server.
THEOREM ClientIsHonest == ClientSpec => []LedgerIsHonest
  BY ClientKeepsLedger, LedgersAreHonest, PTL

\* Settled is settled: no late answer, retry, requeue or second sender changes how
\* an entry ended or brings it to the server once more.
THEOREM SettledForGood ==
  ClientSpec =>
    [][\A e \in AllEntries :
         fate[e] # "pending"
           => fate'[e] = fate[e] /\ deliveries'[e] = deliveries[e]]_(L!ledgerVars)
<1> DEFINE A == \A e \in AllEntries :
                  fate[e] # "pending"
                    => fate'[e] = fate[e] /\ deliveries'[e] = deliveries[e]
<1>1. [L!LedgerNext]_(L!ledgerVars) => [A]_(L!ledgerVars)
  <2> SUFFICES ASSUME L!LedgerNext, NEW e \in AllEntries, fate[e] # "pending"
               PROVE  fate'[e] = fate[e] /\ deliveries'[e] = deliveries[e]
    OBVIOUS
  <2>1. ASSUME NEW S \in SUBSET AllEntries, L!Deliver(S)
        PROVE  fate'[e] = fate[e] /\ deliveries'[e] = deliveries[e]
    BY <2>1 DEF L!Deliver
  <2>2. ASSUME NEW S \in SUBSET AllEntries, NEW f \in Fates \ {"pending"}, L!End(S, f)
        PROVE  fate'[e] = fate[e] /\ deliveries'[e] = deliveries[e]
    BY <2>2 DEF L!End
  <2> QED
    BY <2>1, <2>2 DEF L!LedgerNext
<1> QED
  BY <1>1, ClientKeepsLedger, PTL DEF LedgerContract, L!LedgerSpec

\* An entry is counted as sent only after the server accepted it: no error,
\* give-up or cancellation on the way ends in totalSent.
THEOREM SentIsDelivered == ClientSpec => []SentMeansDelivered
<1>1. LedgerIsHonest => SentMeansDelivered
  BY DEF LedgerIsHonest
<1> QED
  BY <1>1, ClientIsHonest, PTL

\* The server gets no entry twice unless an acceptance of it was not reported
\* back: neither the requeue of a paused worker, nor a second sender, nor a
\* retry after a success sends what was accepted and acknowledged.
THEOREM DuplicatesAreExplained == ClientSpec => []NoNeedlessDuplicate
<1>1. LedgerIsHonest => NoNeedlessDuplicate
  BY DEF LedgerIsHonest
<1> QED
  BY <1>1, ClientIsHonest, PTL
=============================================================================
