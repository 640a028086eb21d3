-------------------------- MODULE ResilientClient --------------------------
(***************************************************************************)
(* pkg/client/resilient_client.go: the asynchronous client, from a Send    *)
(* call to the server's answer and the statistics, with Close running      *)
(* beside them.  It composes the FIFO of module Queue (Q) and the retry    *)
(* loop of module Retry (R), which share the client's context.             *)
(*                                                                         *)
(* The goroutines:                                                         *)
(*   - one application goroutine per queued entry, in enqueueEntry (ppc);  *)
(*   - the workers (wpc), in DequeueWithContext while wpc is "loop" and in *)
(*     Retry while it is "sending";                                        *)
(*   - the callers of SendLogBatch (bpc), which bypass the queue;          *)
(*   - the callers of Close (kpc).                                         *)
(* An action is what a goroutine does between two accesses to shared       *)
(* state.  Time is left out: a timer may fire at any moment after it was   *)
(* set, and paused says whether time.Now() is before rateLimitPauseUntil.  *)
(* The ghost variables fate, deliveries and replyLost record what becomes  *)
(* of every entry; no code depends on them.                                *)
(***************************************************************************)
EXTENDS Integers, FiniteSets, SequencesExt, Batches

CONSTANTS
  Workers, Closers,   \* goroutines in worker() and in Close()
  Entries,            \* entries sent through the queue, one Send call each
  Batches,            \* calls of SendLogBatch
  BatchOf,            \* the entries each of them sends
  Category,           \* EntryTypeCategory of an entry's type
  OverQuota,          \* the categories whose quota the server finds exceeded
  QueueSize, BatchSize,
  MaxRetries, HealthCheckRetries, ResilientModes, AttemptCap,
  None

BatchEntries == UNION {ToSet(BatchOf[b]) : b \in Batches}
AllEntries == Entries \cup BatchEntries
Senders == Workers \cup Batches

ASSUME ClientAssumption ==
  /\ Workers \cap Batches = {}
  /\ Entries \cap BatchEntries = {}
  /\ None \notin AllEntries
  /\ IsFiniteSet(AllEntries)
  /\ \A b \in Batches :
       /\ BatchOf[b] \in Seq(BatchEntries) /\ IsInjective(BatchOf[b])
       /\ \A d \in Batches \ {b} : ToSet(BatchOf[b]) \cap ToSet(BatchOf[d]) = {}
  /\ QueueSize \in Nat \ {0}
  /\ BatchSize \in Nat \ {0}
  /\ MaxRetries \in Int
  /\ HealthCheckRetries \in Nat
  /\ ResilientModes \subseteq BOOLEAN
  /\ AttemptCap \in Nat

VARIABLES
  items, notEmpty, queueClosed, dequeuePc, taken,            \* c.queue
  rpc, attempt, lastErr, outcome, probes, resilient, healthURL,
  failures, lateStarts,                                      \* c.retryer
  ctxDone,       \* c.ctx is cancelled
  clientClosed,  \* c.closed
  keyZeroed,     \* Close has zeroed the key of c.encryptor
  paused,        \* time.Now() is before c.rateLimitPauseUntil
  quotaBlocked,  \* the categories c.quotaBlocked holds
  totalQueued, totalSent,
  drops,         \* c.dropReasons, whose sum is c.totalDropped
  ppc, wpc, bpc, kpc,
  batch,         \* the entries in the hands of a worker or a SendLogBatch
  fate,          \* ghost: what became of an entry
  deliveries,    \* ghost: how often the server accepted it (saturating at 2)
  replyLost      \* ghost: the entries whose acceptance was not reported back

Q == INSTANCE Queue WITH
       Consumers <- Workers, MaxSize <- QueueSize,
       closed <- queueClosed, pc <- dequeuePc
R == INSTANCE Retry WITH Callers <- Senders

fifoVars == <<items, notEmpty, queueClosed, dequeuePc, taken>>
loopVars == <<rpc, attempt, lastErr, outcome, probes, resilient, healthURL,
              failures, lateStarts>>
statVars == <<totalQueued, totalSent, drops, fate>>
limitVars == <<paused, quotaBlocked>>
lifeVars == <<ctxDone, clientClosed, keyZeroed, kpc>>
serverVars == <<deliveries, replyLost>>
clientVars == <<fifoVars, loopVars, statVars, limitVars, lifeVars, serverVars,
                ppc, wpc, bpc, batch>>

DropReasons ==
  {"queue_overflow", "network_error", "send_error", "ratelimit_backoff",
   "quota_exceeded", "before_send", "validation_error"}

\* "refused" and "filtered" entries are gone without being counted: Send or
\* SendLogBatch returned at its closed check or validation, or SendLogBatch
\* let BeforeSend remove them.
Fates == DropReasons \cup {"pending", "sent", "refused", "filtered"}

\* What ends like this was never part of a request.
NeverSent ==
  {"queue_overflow", "ratelimit_backoff", "before_send", "validation_error",
   "refused", "filtered"}

L == INSTANCE Ledger

ClientInit ==
  /\ Q!QueueInit
  /\ R!RetryInit
  /\ clientClosed = FALSE
  /\ keyZeroed = FALSE
  /\ paused = FALSE
  /\ quotaBlocked = {}
  /\ totalQueued = 0
  /\ totalSent = 0
  /\ drops = [r \in DropReasons |-> 0]
  /\ ppc = [e \in Entries |-> "new"]
  /\ wpc = [w \in Workers |-> "loop"]
  /\ bpc = [b \in Batches |-> "new"]
  /\ kpc = [k \in Closers |-> "new"]
  /\ batch = [c \in Senders |-> <<>>]
  /\ fate = [e \in AllEntries |-> "pending"]
  /\ deliveries = [e \in AllEntries |-> 0]
  /\ replyLost = {}

-----------------------------------------------------------------------------
(* Statistics.                                                             *)

Settle(s, f) ==
  fate' = [e \in AllEntries |-> IF e \in ToSet(s) THEN f ELSE fate[e]]

recordDrop(reason, s) ==
  /\ drops' = [drops EXCEPT ![reason] = @ + Len(s)]
  /\ Settle(s, reason)
  /\ UNCHANGED <<totalQueued, totalSent>>

RecordSent(s) ==
  /\ totalSent' = totalSent + Len(s)
  /\ Settle(s, "sent")
  /\ UNCHANGED <<totalQueued, drops>>

-----------------------------------------------------------------------------
(* enqueueEntry.                                                           *)

ProducerGoes(e, p) == ppc' = [ppc EXCEPT ![e] = p]

producerOnly == <<loopVars, limitVars, lifeVars, serverVars, wpc, bpc, batch>>

CheckOpen(e) ==
  /\ ppc[e] = "new"
  /\ IF clientClosed
     THEN ProducerGoes(e, "gone") /\ Settle(<<e>>, "refused")
     ELSE ProducerGoes(e, "admitting") /\ UNCHANGED fate
  /\ UNCHANGED <<fifoVars, totalQueued, totalSent, drops, producerOnly>>

\* validateEntry, BeforeSend and the quota check, each a reason to drop.
DropAtAdmission(e, reason) ==
  /\ ppc[e] = "admitting"
  /\ reason = "quota_exceeded" => Category[e] \in quotaBlocked
  /\ recordDrop(reason, <<e>>)
  /\ ProducerGoes(e, "gone")
  /\ UNCHANGED <<fifoVars, producerOnly>>

Admit(e) ==
  /\ ppc[e] = "admitting"
  /\ Category[e] \notin quotaBlocked
  /\ ProducerGoes(e, "enqueueing")
  /\ UNCHANGED <<fifoVars, statVars, producerOnly>>

EnqueueAccepted(e) ==
  /\ ppc[e] = "enqueueing"
  /\ Q!Enqueue(e)
  /\ ProducerGoes(e, "counting")
  /\ UNCHANGED <<loopVars, limitVars, clientClosed, keyZeroed, kpc, serverVars,
                 statVars, wpc, bpc, batch>>

EnqueueRefused(e) ==
  /\ ppc[e] = "enqueueing"
  /\ ~Q!Accepts
  /\ recordDrop("queue_overflow", <<e>>)
  /\ ProducerGoes(e, "gone")
  /\ UNCHANGED <<fifoVars, producerOnly>>

CountQueued(e) ==
  /\ ppc[e] = "counting"
  /\ totalQueued' = totalQueued + 1
  /\ ProducerGoes(e, "queued")
  /\ UNCHANGED <<fifoVars, totalSent, drops, fate, producerOnly>>

\* What a Send call does once it has been made.
Sending(e) ==
  \/ \E r \in {"validation_error", "before_send", "quota_exceeded"} :
       DropAtAdmission(e, r)
  \/ Admit(e)
  \/ EnqueueAccepted(e)
  \/ EnqueueRefused(e)
  \/ CountQueued(e)

-----------------------------------------------------------------------------
(* sendMultipart: one HTTP exchange, the fn of Retry.                      *)

exchangeRest == <<fifoVars, statVars, clientClosed, keyZeroed, kpc,
                  ppc, wpc, bpc, batch>>

Accepted(c) ==
  deliveries' = [e \in AllEntries |->
                   IF e \in ToSet(batch[c])
                   THEN R!Saturate(deliveries[e], 2) ELSE deliveries[e]]

ExchangeSucceeds(c) ==
  /\ R!FnSucceeds(c)
  /\ Accepted(c)
  /\ UNCHANGED <<replyLost, limitVars, exchangeRest>>

\* 429: the workers pause until Retry-After has passed.
ExchangeRateLimited(c) ==
  /\ R!FnRateLimited(c)
  /\ paused' = TRUE
  /\ UNCHANGED <<quotaBlocked, serverVars, exchangeRest>>

\* 507: the server found a category of the batch over its quota; the client
\* blocks the category of the first entry.
ExchangeOverQuota(c) ==
  /\ \E e \in ToSet(batch[c]) : Category[e] \in OverQuota
  /\ R!FnFailsForGood(c, "quota")
  /\ quotaBlocked' = quotaBlocked \cup {Category[batch[c][1]]}
  /\ UNCHANGED <<paused, serverVars, exchangeRest>>

ExchangeRejected(c) ==
  /\ R!FnFailsForGood(c, "client")
  /\ UNCHANGED <<limitVars, serverVars, exchangeRest>>

\* A 5xx answer, a network error or a cancellation.  If the request was sent
\* at all the server may have accepted it nevertheless.
ExchangeFails(c) ==
  /\ \/ R!FnFailsForGood(c, "fatal")
     \/ \E e \in R!Counted : R!FnFailsRetryably(c, e)
  /\ \/ UNCHANGED serverVars
     \/ /\ lateStarts[c] = 0
        /\ Accepted(c)
        /\ replyLost' = replyLost \cup ToSet(batch[c])
  /\ UNCHANGED <<limitVars, exchangeRest>>

Exchange(c) ==
  \/ ExchangeSucceeds(c)
  \/ ExchangeRateLimited(c)
  \/ ExchangeOverQuota(c)
  \/ ExchangeRejected(c)
  \/ ExchangeFails(c)

\* The steps of Retry between the exchanges.
RetryLoop(c) ==
  /\ \/ R!Top(c)
     \/ R!WaitCancelled(c)
     \/ R!RateWaitElapsed(c)
     \/ R!BackoffElapsed(c)
     \/ R!Probing(c)
  /\ UNCHANGED <<limitVars, serverVars, exchangeRest>>

-----------------------------------------------------------------------------
(* worker.                                                                 *)

WorkerGoes(w, p) == wpc' = [wpc EXCEPT ![w] = p]
Hands(c, s) == batch' = [batch EXCEPT ![c] = s]

workerRest == <<limitVars, clientClosed, keyZeroed, kpc, serverVars, ppc, bpc>>

\* Inside DequeueWithContext.
WorkerDequeues(w) ==
  /\ wpc[w] = "loop"
  /\ Q!Call(w) \/ Q!DequeueStep(w)
  /\ UNCHANGED <<loopVars, statVars, wpc, batch, workerRest>>

\* It returned: exit on nil, otherwise look at the pause.
WorkerTakes(w) ==
  /\ wpc[w] = "loop"
  /\ Q!Return(w)
  /\ IF taken[w] = None
     THEN WorkerGoes(w, "exit") /\ UNCHANGED batch
     ELSE /\ WorkerGoes(w, IF paused THEN "requeueing" ELSE "filling")
          /\ Hands(w, <<taken[w]>>)
  /\ UNCHANGED <<loopVars, statVars, workerRest>>

\* Mutant of RequeueAccepted: the entry goes back to the head of the queue,
\* whether or not the queue has room or is closed.
RequeueAtHead(w) ==
  /\ wpc[w] = "requeueing"
  /\ items' = batch[w] \o items
  /\ notEmpty' = TRUE
  /\ WorkerGoes(w, "pausing")
  /\ Hands(w, <<>>)
  /\ UNCHANGED <<queueClosed, dequeuePc, taken, ctxDone, loopVars, statVars,
                 workerRest>>

\* Mutant of RequeueAccepted: the worker goes on instead of starting over.
RequeueWithoutContinue(w) ==
  /\ wpc[w] = "requeueing"
  /\ Q!Enqueue(batch[w][1])
  /\ WorkerGoes(w, "filling")
  /\ UNCHANGED <<loopVars, statVars, batch, workerRest>>

RequeueAccepted(w) ==
  /\ wpc[w] = "requeueing"
  /\ Q!Enqueue(batch[w][1])
  /\ WorkerGoes(w, "pausing")
  /\ Hands(w, <<>>)
  /\ UNCHANGED <<loopVars, statVars, workerRest>>

RequeueRefused(w) ==
  /\ wpc[w] = "requeueing"
  /\ ~Q!Accepts
  /\ recordDrop("ratelimit_backoff", batch[w])
  /\ WorkerGoes(w, "pausing")
  /\ Hands(w, <<>>)
  /\ UNCHANGED <<fifoVars, ctxDone, loopVars, workerRest>>

PauseElapsed(w) ==
  /\ wpc[w] = "pausing"
  /\ WorkerGoes(w, "loop")
  /\ UNCHANGED <<fifoVars, ctxDone, loopVars, statVars, batch, workerRest>>

\* Mutant of PauseCancelled: the worker quits when its pause is over.
PauseQuits(w) ==
  /\ wpc[w] = "pausing"
  /\ WorkerGoes(w, "exit")
  /\ UNCHANGED <<fifoVars, ctxDone, loopVars, statVars, batch, workerRest>>

PauseCancelled(w) ==
  /\ wpc[w] = "pausing"
  /\ ctxDone
  /\ WorkerGoes(w, "exit")
  /\ UNCHANGED <<fifoVars, ctxDone, loopVars, statVars, batch, workerRest>>

\* Mutant of FillBatch: the entries added to the batch stay in the queue.
FillBatchByPeeking(w) ==
  /\ wpc[w] = "filling"
  /\ Hands(w, batch[w] \o Q!Batch(BatchSize - 1))
  /\ R!Begin(w)
  /\ WorkerGoes(w, "sending")
  /\ UNCHANGED <<fifoVars, statVars, workerRest>>

\* The rest of the batch, up to BatchSize, and into Retry with it.
FillBatch(w) ==
  /\ wpc[w] = "filling"
  /\ Q!DequeueBatch(BatchSize - 1)
  /\ Hands(w, batch[w] \o Q!Batch(BatchSize - 1))
  /\ R!Begin(w)
  /\ WorkerGoes(w, "sending")
  /\ UNCHANGED <<statVars, workerRest>>

\* handleSendError.  Only an error Retry returns as it is still has the type
\* *retry.HTTPError: the wrapped error of an exhausted Retry has not.
ReasonFor(result) ==
  CASE result = "quota"  -> "quota_exceeded"
    [] result = "client" -> "send_error"
    [] OTHER             -> "network_error"

\* Mutant of WorkerReports: a batch whose retries are used up counts as sent.
WorkerReportsExhaustedAsSent(w) ==
  /\ wpc[w] = "sending"
  /\ R!Collect(w)
  /\ IF outcome[w] \in {"ok", "exhausted"}
     THEN RecordSent(batch[w])
     ELSE recordDrop(ReasonFor(outcome[w]), batch[w])
  /\ Hands(w, <<>>)
  /\ WorkerGoes(w, "loop")
  /\ UNCHANGED <<fifoVars, workerRest>>

WorkerReports(w) ==
  /\ wpc[w] = "sending"
  /\ R!Collect(w)
  /\ IF outcome[w] = "ok"
     THEN RecordSent(batch[w])
     ELSE recordDrop(ReasonFor(outcome[w]), batch[w])
  /\ Hands(w, <<>>)
  /\ WorkerGoes(w, "loop")
  /\ UNCHANGED <<fifoVars, workerRest>>

WorkerStep(w) ==
  \/ WorkerDequeues(w)
  \/ WorkerTakes(w)
  \/ RequeueAccepted(w)
  \/ RequeueRefused(w)
  \/ PauseElapsed(w)
  \/ PauseCancelled(w)
  \/ FillBatch(w)
  \/ RetryLoop(w)
  \/ Exchange(w)
  \/ WorkerReports(w)

-----------------------------------------------------------------------------
(* SendLogBatch.                                                           *)

BatchGoes(b, p) == bpc' = [bpc EXCEPT ![b] = p]

batchRest == <<fifoVars, limitVars, clientClosed, keyZeroed, kpc, serverVars,
               ppc, wpc>>

BatchCheckOpen(b) ==
  /\ bpc[b] = "new"
  /\ IF clientClosed
     THEN BatchGoes(b, "over") /\ Settle(BatchOf[b], "refused")
     ELSE BatchGoes(b, "preparing") /\ UNCHANGED fate
  /\ UNCHANGED <<loopVars, ctxDone, totalQueued, totalSent, drops, batch,
                 batchRest>>

\* One invalid entry refuses the whole batch.
BatchInvalid(b) ==
  /\ bpc[b] = "preparing"
  /\ BatchGoes(b, "over")
  /\ Settle(BatchOf[b], "refused")
  /\ UNCHANGED <<loopVars, ctxDone, totalQueued, totalSent, drops, batch,
                 batchRest>>

\* Mutant of BatchBegins: what BeforeSend removes is sent all the same.
BatchBeginsUnfiltered(b, rest) ==
  /\ bpc[b] = "preparing"
  /\ BatchGoes(b, "sending") /\ Hands(b, BatchOf[b]) /\ R!Begin(b)
  /\ fate' = [e \in AllEntries |->
               IF e \in ToSet(BatchOf[b]) \ ToSet(rest) THEN "filtered" ELSE fate[e]]
  /\ UNCHANGED <<totalQueued, totalSent, drops, batchRest>>

\* BeforeSend removes some entries and Retry gets the rest, if any.
BatchBegins(b, rest) ==
  /\ bpc[b] = "preparing"
  /\ IF rest = <<>>
     THEN BatchGoes(b, "over") /\ UNCHANGED <<loopVars, ctxDone, batch>>
     ELSE BatchGoes(b, "sending") /\ Hands(b, rest) /\ R!Begin(b)
  /\ fate' = [e \in AllEntries |->
               IF e \in ToSet(BatchOf[b]) \ ToSet(rest) THEN "filtered" ELSE fate[e]]
  /\ UNCHANGED <<totalQueued, totalSent, drops, batchRest>>

\* Mutant of BatchReports: the error branch does not return.
BatchReportsFallsThrough(b) ==
  /\ bpc[b] = "sending"
  /\ R!Collect(b)
  /\ drops' = IF outcome[b] = "ok" THEN drops
              ELSE [drops EXCEPT !["send_error"] = @ + Len(batch[b])]
  /\ totalSent' = totalSent + Len(batch[b])
  /\ Settle(batch[b], IF outcome[b] = "ok" THEN "sent" ELSE "send_error")
  /\ Hands(b, <<>>)
  /\ BatchGoes(b, "over")
  /\ UNCHANGED <<totalQueued, batchRest>>

BatchReports(b) ==
  /\ bpc[b] = "sending"
  /\ R!Collect(b)
  /\ IF outcome[b] = "ok"
     THEN RecordSent(batch[b])
     ELSE recordDrop("send_error", batch[b])
  /\ Hands(b, <<>>)
  /\ BatchGoes(b, "over")
  /\ UNCHANGED batchRest

BatchStep(b) ==
  \/ BatchInvalid(b)
  \/ \E rest \in Subsequences(BatchOf[b]) : BatchBegins(b, rest)
  \/ RetryLoop(b)
  \/ Exchange(b)
  \/ BatchReports(b)

-----------------------------------------------------------------------------
(* Close.                                                                  *)

CloserGoes(k, from, to) ==
  /\ kpc[k] = from
  /\ kpc' = [kpc EXCEPT ![k] = to]

closerRest == <<statVars, limitVars, serverVars, ppc, wpc, bpc, batch>>

CloseChecks(k) ==
  /\ CloserGoes(k, "new", IF clientClosed THEN "skipped" ELSE "storing")
  /\ UNCHANGED <<fifoVars, loopVars, ctxDone, clientClosed, keyZeroed, closerRest>>

CloseStores(k) ==
  /\ CloserGoes(k, "storing", "flushing")
  /\ clientClosed' = TRUE
  /\ UNCHANGED <<fifoVars, loopVars, ctxDone, keyZeroed, closerRest>>

\* Flush returns when it finds the queue empty or its ten seconds are over.
CloseFlushed(k) ==
  /\ items = <<>>
  /\ CloserGoes(k, "flushing", "cancelling")
  /\ UNCHANGED <<fifoVars, loopVars, ctxDone, clientClosed, keyZeroed, closerRest>>

CloseFlushTimesOut(k) ==
  /\ items # <<>>
  /\ CloserGoes(k, "flushing", "cancelling")
  /\ UNCHANGED <<fifoVars, loopVars, ctxDone, clientClosed, keyZeroed, closerRest>>

\* Mutant of CloseCancels: c.cancel() is forgotten.
CloseForgetsCancel(k) ==
  /\ CloserGoes(k, "cancelling", "closing")
  /\ UNCHANGED <<fifoVars, loopVars, ctxDone, clientClosed, keyZeroed, closerRest>>

\* c.cancel() and q.Close() do nothing the second time.
CloseCancels(k) ==
  /\ CloserGoes(k, "cancelling", "closing")
  /\ IF ctxDone
     THEN UNCHANGED <<fifoVars, loopVars, ctxDone>>
     ELSE Q!Cancel /\ R!CancelContext
  /\ UNCHANGED <<clientClosed, keyZeroed, closerRest>>

CloseQueue(k) ==
  /\ CloserGoes(k, "closing", "joining")
  /\ IF queueClosed THEN UNCHANGED <<fifoVars, ctxDone>> ELSE Q!Close
  /\ UNCHANGED <<loopVars, clientClosed, keyZeroed, closerRest>>

\* Mutant of CloseJoins: the wait for the workers is missing.
CloseSkipsJoin(k) ==
  /\ CloserGoes(k, "joining", "zeroing")
  /\ UNCHANGED <<fifoVars, loopVars, ctxDone, clientClosed, keyZeroed, closerRest>>

CloseJoins(k) ==
  /\ \A w \in Workers : wpc[w] = "exit"
  /\ CloserGoes(k, "joining", "zeroing")
  /\ UNCHANGED <<fifoVars, loopVars, ctxDone, clientClosed, keyZeroed, closerRest>>

CloseZeroesKey(k) ==
  /\ CloserGoes(k, "zeroing", "closed")
  /\ keyZeroed' = TRUE
  /\ UNCHANGED <<fifoVars, loopVars, ctxDone, clientClosed, closerRest>>

\* What a Close call does once it has been made.
Closing(k) ==
  \/ CloseStores(k)
  \/ CloseFlushed(k)
  \/ CloseFlushTimesOut(k)
  \/ CloseCancels(k)
  \/ CloseQueue(k)
  \/ CloseJoins(k)
  \/ CloseZeroesKey(k)

-----------------------------------------------------------------------------
PauseExpires ==
  /\ paused
  /\ paused' = FALSE
  /\ UNCHANGED <<quotaBlocked, fifoVars, loopVars, statVars, lifeVars,
                 serverVars, ppc, wpc, bpc, batch>>

\* EnableResilientMode: two unsynchronised writes to the retryer's config.
EnableResilientMode(enabled) ==
  /\ R!EnableResilientMode(enabled)
  /\ UNCHANGED <<fifoVars, statVars, limitVars, clientClosed, keyZeroed, kpc,
                 serverVars, ppc, wpc, bpc, batch>>

PublishHealthURL ==
  /\ R!SetHealthCheckURL
  /\ UNCHANGED <<fifoVars, statVars, limitVars, clientClosed, keyZeroed, kpc,
                 serverVars, ppc, wpc, bpc, batch>>

ClientNext ==
  \/ \E e \in Entries : CheckOpen(e) \/ Sending(e)
  \/ \E w \in Workers : WorkerStep(w)
  \/ \E b \in Batches : BatchCheckOpen(b) \/ BatchStep(b)
  \/ \E k \in Closers : CloseChecks(k) \/ Closing(k)
  \/ PauseExpires
  \/ \E enabled \in BOOLEAN : EnableResilientMode(enabled)
  \/ PublishHealthURL

ClientSpec == ClientInit /\ [][ClientNext]_clientVars

\* Every goroutine that can run does, timers fire, exchanges end (by their
\* answer, the context or the HTTP timeout).  Nothing says that the
\* application ever sends or closes.
ClientFairSpec ==
  /\ ClientSpec
  /\ \A w \in Workers : WF_clientVars(WorkerStep(w))
  /\ \A e \in Entries : WF_clientVars(Sending(e))
  /\ \A b \in Batches : WF_clientVars(BatchStep(b))
  /\ \A k \in Closers : WF_clientVars(Closing(k))
  /\ WF_clientVars(PauseExpires)

-----------------------------------------------------------------------------
\* The types of the variables that neither Queue nor Retry has.
OwnTypeOK ==
  /\ clientClosed \in BOOLEAN /\ keyZeroed \in BOOLEAN /\ paused \in BOOLEAN
  /\ quotaBlocked \subseteq {Category[e] : e \in AllEntries}
  /\ totalQueued \in Nat /\ totalSent \in Nat
  /\ drops \in [DropReasons -> Nat]
  /\ ppc \in [Entries ->
       {"new", "admitting", "enqueueing", "counting", "queued", "gone"}]
  /\ wpc \in [Workers ->
       {"loop", "requeueing", "pausing", "filling", "sending", "exit"}]
  /\ bpc \in [Batches -> {"new", "preparing", "sending", "over"}]
  /\ kpc \in [Closers ->
       {"new", "storing", "flushing", "cancelling", "closing", "joining",
        "zeroing", "closed", "skipped"}]
  /\ batch \in [Senders -> Seq(AllEntries)]
  /\ fate \in [AllEntries -> Fates]
  /\ deliveries \in [AllEntries -> 0..2]
  /\ replyLost \subseteq AllEntries

\* Every variable keeps its type, those of the queue and the retryer included.
ClientTypeOK == Q!QueueTypeOK /\ R!RetryTypeOK /\ OwnTypeOK

\* Who is responsible for an entry.
Owners(e) ==
  (IF e \in Entries /\ ppc[e] \in {"new", "admitting", "enqueueing"}
   THEN {"producer"} ELSE {})
  \cup (IF e \in BatchEntries /\ \E b \in Batches :
             e \in ToSet(BatchOf[b]) /\ bpc[b] \in {"new", "preparing"}
                                     /\ fate[e] = "pending"
        THEN {"producer"} ELSE {})
  \cup (IF e \in ToSet(items) THEN {"queue"} ELSE {})
  \cup {c \in Senders : e \in ToSet(batch[c])}
  \cup {<<"dequeued", w>> : w \in {v \in Workers : taken[v] = e}}
  \cup (IF fate[e] # "pending" THEN {"statistics"} ELSE {})

\* Nothing is lost and nothing is handled twice: at every moment an entry is
\* with its sender, in the queue, in the hands of one worker, or settled, and
\* only one of these, once.
OneOwner ==
  /\ \A e \in AllEntries : Cardinality(Owners(e)) = 1
  /\ IsInjective(items)
  /\ \A c \in Senders : IsInjective(batch[c])

\* GetStats tells the truth: every counter equals the number of entries it is
\* meant to count, per drop reason.
StatsAreExact ==
  /\ totalQueued = Cardinality({e \in Entries : ppc[e] = "queued"})
  /\ totalSent = Cardinality({e \in AllEntries : fate[e] = "sent"})
  /\ \A r \in DropReasons :
       drops[r] = Cardinality({e \in AllEntries : fate[e] = r})

\* An entry counted as sent was accepted by the server.
SentMeansDelivered ==
  \A e \in AllEntries : fate[e] = "sent" => deliveries[e] > 0

\* The server gets an entry twice only if its first acceptance went unreported.
NoNeedlessDuplicate ==
  \A e \in AllEntries : deliveries[e] > 1 => e \in replyLost

\* The key is zeroed only when no worker needs it any more, however many
\* goroutines call Close and however the flush ended.
KeyOutlivesWorkers ==
  keyZeroed => \A w \in Workers : wpc[w] = "exit" /\ batch[w] = <<>>

\* Nothing is left lying in an open client: until Close cancels the context no
\* worker has left, through nil results, refused requeues and pauses, and while
\* an entry waits one of them is awake or will be woken.  After it none sleeps.
WorkersStandBy ==
  /\ ~ctxDone => \A w \in Workers : wpc[w] # "exit"
  /\ ~ctxDone /\ items # <<>> =>
       notEmpty \/ \E w \in Workers : dequeuePc[w] \notin Q!Asleep
  /\ ctxDone \/ queueClosed => Q!Parked = {}

\* The client is an implementation of Ledger: through every interleaving of
\* requeues, retries, lost answers, direct batches and Close an entry is settled
\* once, counted as what became of it, and never reaches the server after that;
\* what the server acknowledged is never counted as dropped, and what is dropped
\* before a request was never in one.
LedgerContract == L!LedgerSpec

\* Every Close returns, whatever the server does.
CloseTerminates ==
  \A k \in Closers :
    kpc[k] = "storing" ~> kpc[k] = "closed"

\* As long as the client is open and the server does not rate-limit forever,
\* every entry the queue accepted is sent or counted as dropped.
EntriesSettle ==
  (<>[][\A c \in Senders : ~ExchangeRateLimited(c)]_clientVars) =>
    \A e \in Entries : ppc[e] = "counting" ~> fate[e] # "pending" \/ clientClosed

-----------------------------------------------------------------------------
(* What a comment promises and the code does not do: it is violated.       *)

\* "loss tracking": once Close has returned, every entry the queue accepted
\* has been sent or counted under a drop reason.
LossTracked ==
  (\E k \in Closers : kpc[k] = "closed") =>
    \A e \in Entries : ppc[e] = "queued" => fate[e] # "pending"
=============================================================================
