------------------------------- MODULE Retry -------------------------------
(***************************************************************************)
(* pkg/retry/retry.go: Retryer.Retry, run by several goroutines that share *)
(* one Retryer and one context.                                            *)
(*                                                                         *)
(* Positions of a goroutine in Retry:                                      *)
(*                                                                         *)
(*   "idle"       not in Retry                                             *)
(*   "top"        at the top of the loop                                   *)
(*   "probe"      in waitForServerReadiness, before probe probes + 1       *)
(*   "probeWait"  in the select between two probes                         *)
(*   "calling"    in fn, one HTTP exchange                                 *)
(*   "rateWait"   in the select that follows a 429                         *)
(*   "backoff"    in the select that follows another retryable error       *)
(*   "done"       returned; outcome says what                              *)
(*                                                                         *)
(* Time is left out: a timer may fire at any moment after it was set, so   *)
(* the lengths computed by calculateDelay do not matter here.  The error   *)
(* of one fn call is reduced to the class isRetryable and the callers tell *)
(* apart.  fn stands for the closures the clients pass: they build their   *)
(* request with the very context that Retry watches.                       *)
(***************************************************************************)
EXTENDS Integers

CONSTANTS
  Callers,             \* goroutines that call Retry
  MaxRetries,          \* config.MaxRetries, negative for no limit
  HealthCheckRetries,  \* config.HealthCheckRetries
  ResilientModes,      \* the values the application gives config.ResilientMode
  AttemptCap           \* bound on attempt when MaxRetries is negative

ASSUME RetryAssumption ==
  /\ MaxRetries \in Int
  /\ HealthCheckRetries \in Nat
  /\ ResilientModes \subseteq BOOLEAN
  /\ AttemptCap \in Nat

VARIABLES
  rpc,         \* where each caller is in Retry
  attempt,     \* its local attempt
  lastErr,     \* the class of its local lastErr, "none" for nil
  outcome,     \* how its Retry ended: "ok", the class of an error returned as
               \* it is, "exhausted" (the wrapped lastErr) or "ctx" (ctx.Err())
  probes,      \* the local attempt of waitForServerReadiness
  ctxDone,     \* the shared context is cancelled
  resilient,   \* config.ResilientMode
  healthURL,   \* config.HealthCheckURL is set
  failures,    \* ghost: counted failures of this Retry, saturating
  lateStarts   \* ghost: fn calls it began under a cancelled ctx, saturating

callVars == <<rpc, attempt, lastErr, outcome, probes, failures, lateStarts>>
retryVars == <<callVars, ctxDone, resilient, healthURL>>

-----------------------------------------------------------------------------
(* Error classes.                                                          *)

\* Mutant of Counted: a cancelled context looks like any network error.
CountedWithCancel == {"server", "net", "fatal"}

\* Retryable and charged to the budget: HTTP 500, 502, 503 and 504, and the
\* network errors isRetryable knows by keyword.
Counted == {"server", "net"}

\* Retryable and free of charge: HTTP 429.
RateLimited == {"rate"}

\* Returned at once: HTTP 507, every other HTTP status, and errors that are
\* neither ("context canceled", a failed encryption).
Final == {"quota", "client", "fatal"} \ Counted

Errors == Counted \cup RateLimited \cup Final

\* Mutant of Answers: the request does not carry the context.
AnswersWithoutContext(c) == Errors \cup {"ok"}

\* What fn can return: once it was started under a cancelled context, the
\* HTTP client refuses to send and reports the cancellation.
Answers(c) == IF lateStarts[c] > 0 THEN {"fatal"} ELSE Errors \cup {"ok"}

-----------------------------------------------------------------------------
RetryPositions ==
  {"idle", "top", "probe", "probeWait", "calling", "rateWait", "backoff", "done"}

Outcomes == {"none", "ok", "exhausted", "ctx"} \cup Final

\* One more than the largest number of counted failures a Retry should see.
FailureCap == IF MaxRetries >= 0 THEN MaxRetries + 2 ELSE 1

Saturate(n, cap) == IF n < cap THEN n + 1 ELSE cap

RetryInit ==
  /\ rpc = [c \in Callers |-> "idle"]
  /\ attempt = [c \in Callers |-> 0]
  /\ lastErr = [c \in Callers |-> "none"]
  /\ outcome = [c \in Callers |-> "none"]
  /\ probes = [c \in Callers |-> 0]
  /\ failures = [c \in Callers |-> 0]
  /\ lateStarts = [c \in Callers |-> 0]
  /\ ctxDone = FALSE
  /\ resilient \in ResilientModes
  /\ healthURL \in {FALSE} \cup ResilientModes

At(c, p) == rpc[c] = p

Move(c, p) == rpc' = [rpc EXCEPT ![c] = p]

Finish(c, result) ==
  /\ Move(c, "done")
  /\ outcome' = [outcome EXCEPT ![c] = result]

sharedVars == <<ctxDone, resilient, healthURL>>

-----------------------------------------------------------------------------
(* The loop of Retry.                                                      *)

Begin(c) ==
  /\ At(c, "idle")
  /\ Move(c, "top")
  /\ UNCHANGED <<attempt, lastErr, outcome, probes, failures, lateStarts,
                 sharedVars>>

\* fn is called.
CallFn(c) ==
  /\ Move(c, "calling")
  /\ lateStarts' = [lateStarts EXCEPT ![c] =
                      IF ctxDone THEN Saturate(@, 2) ELSE @]
  /\ UNCHANGED <<attempt, lastErr, outcome, probes, failures, sharedVars>>

OverBudget(c) == MaxRetries >= 0 /\ attempt[c] > MaxRetries

\* The break at the top of the loop.
GiveUpAtTop(c) ==
  /\ Finish(c, "exhausted")
  /\ UNCHANGED <<attempt, lastErr, probes, failures, lateStarts, sharedVars>>

StartProbing(c) ==
  /\ Move(c, "probe")
  /\ probes' = [probes EXCEPT ![c] = 0]
  /\ UNCHANGED <<attempt, lastErr, outcome, failures, lateStarts, sharedVars>>

Top(c) ==
  /\ At(c, "top")
  /\ IF OverBudget(c) THEN GiveUpAtTop(c)
     ELSE IF resilient /\ attempt[c] > 0 /\ healthURL THEN StartProbing(c)
     ELSE CallFn(c)

FnSucceeds(c) ==
  /\ At(c, "calling")
  /\ "ok" \in Answers(c)
  /\ Finish(c, "ok")
  /\ UNCHANGED <<attempt, lastErr, probes, failures, lateStarts, sharedVars>>

FnFailsForGood(c, e) ==
  /\ At(c, "calling")
  /\ e \in Answers(c) \cap Final
  /\ lastErr' = [lastErr EXCEPT ![c] = e]
  /\ Finish(c, e)
  /\ UNCHANGED <<attempt, probes, failures, lateStarts, sharedVars>>

\* Mutant of FnRateLimited: a 429 is charged to the budget.
FnRateLimitedCharged(c) ==
  /\ At(c, "calling")
  /\ "rate" \in Answers(c)
  /\ lastErr' = [lastErr EXCEPT ![c] = "rate"]
  /\ attempt' = [attempt EXCEPT ![c] = @ + 1]
  /\ Move(c, "rateWait")
  /\ UNCHANGED <<outcome, probes, failures, lateStarts, sharedVars>>

FnRateLimited(c) ==
  /\ At(c, "calling")
  /\ "rate" \in Answers(c)
  /\ lastErr' = [lastErr EXCEPT ![c] = "rate"]
  /\ Move(c, "rateWait")
  /\ UNCHANGED <<attempt, outcome, probes, failures, lateStarts, sharedVars>>

FnFailsRetryably(c, e) ==
  /\ At(c, "calling")
  /\ e \in Answers(c) \cap Counted
  /\ lastErr' = [lastErr EXCEPT ![c] = e]
  /\ failures' = [failures EXCEPT ![c] = Saturate(@, FailureCap)]
  /\ IF MaxRetries >= 0 /\ attempt[c] >= MaxRetries
     THEN Finish(c, "exhausted")
     ELSE Move(c, "backoff") /\ UNCHANGED outcome
  /\ UNCHANGED <<attempt, probes, lateStarts, sharedVars>>

FnReturns(c) ==
  \/ FnSucceeds(c)
  \/ FnRateLimited(c)
  \/ \E e \in Final : FnFailsForGood(c, e)
  \/ \E e \in Counted : FnFailsRetryably(c, e)

\* The ctx.Done() case of the two selects of the loop.
WaitCancelled(c) ==
  /\ At(c, "rateWait") \/ At(c, "backoff")
  /\ ctxDone
  /\ Finish(c, "ctx")
  /\ UNCHANGED <<attempt, lastErr, probes, failures, lateStarts, sharedVars>>

RateWaitElapsed(c) ==
  /\ At(c, "rateWait")
  /\ Move(c, "top")
  /\ UNCHANGED <<attempt, lastErr, outcome, probes, failures, lateStarts,
                 sharedVars>>

\* Mutant of BackoffElapsed: the attempt is not counted.
BackoffElapsedUncounted(c) ==
  /\ At(c, "backoff")
  /\ Move(c, "top")
  /\ UNCHANGED <<attempt, lastErr, outcome, probes, failures, lateStarts,
                 sharedVars>>

BackoffElapsed(c) ==
  /\ At(c, "backoff")
  /\ MaxRetries >= 0 \/ attempt[c] < AttemptCap
  /\ attempt' = [attempt EXCEPT ![c] = @ + 1]
  /\ Move(c, "top")
  /\ UNCHANGED <<lastErr, outcome, probes, failures, lateStarts, sharedVars>>

\* The caller has the result, and the locals of the call are gone.
Collect(c) ==
  /\ At(c, "done")
  /\ Move(c, "idle")
  /\ attempt' = [attempt EXCEPT ![c] = 0]
  /\ lastErr' = [lastErr EXCEPT ![c] = "none"]
  /\ outcome' = [outcome EXCEPT ![c] = "none"]
  /\ probes' = [probes EXCEPT ![c] = 0]
  /\ failures' = [failures EXCEPT ![c] = 0]
  /\ lateStarts' = [lateStarts EXCEPT ![c] = 0]
  /\ UNCHANGED sharedVars

-----------------------------------------------------------------------------
(* waitForServerReadiness.  Whatever it returns, Retry calls fn next.      *)

ProbingOver(c) ==
  /\ At(c, "probe")
  /\ ctxDone \/ probes[c] >= HealthCheckRetries
  /\ CallFn(c)

ProbeSucceeds(c) ==
  /\ At(c, "probe")
  /\ ~ctxDone
  /\ probes[c] < HealthCheckRetries
  /\ CallFn(c)

\* Mutant of ProbeFails: the loop over the probes has no end.
ProbeFailsForever(c) ==
  /\ At(c, "probe")
  /\ ~ctxDone
  /\ probes' = [probes EXCEPT ![c] = @ + 1]
  /\ Move(c, "probeWait")
  /\ UNCHANGED <<attempt, lastErr, outcome, failures, lateStarts, sharedVars>>

ProbeFails(c) ==
  /\ At(c, "probe")
  /\ ~ctxDone
  /\ probes[c] < HealthCheckRetries
  /\ probes' = [probes EXCEPT ![c] = @ + 1]
  /\ Move(c, IF probes[c] < HealthCheckRetries - 1 THEN "probeWait" ELSE "probe")
  /\ UNCHANGED <<attempt, lastErr, outcome, failures, lateStarts, sharedVars>>

ProbeWaitElapsed(c) ==
  /\ At(c, "probeWait")
  /\ Move(c, "probe")
  /\ UNCHANGED <<attempt, lastErr, outcome, probes, failures, lateStarts,
                 sharedVars>>

ProbeWaitCancelled(c) ==
  /\ At(c, "probeWait")
  /\ ctxDone
  /\ CallFn(c)

Probing(c) ==
  \/ ProbingOver(c)
  \/ ProbeSucceeds(c)
  \/ ProbeFails(c)
  \/ ProbeWaitElapsed(c)
  \/ ProbeWaitCancelled(c)

-----------------------------------------------------------------------------
(* What others do to the shared state.                                     *)

CancelContext ==
  /\ ~ctxDone
  /\ ctxDone' = TRUE
  /\ UNCHANGED <<callVars, resilient, healthURL>>

EnableResilientMode(enabled) ==
  /\ enabled \in ResilientModes \ {resilient}
  /\ resilient' = enabled
  /\ UNCHANGED <<callVars, ctxDone, healthURL>>

SetHealthCheckURL ==
  /\ TRUE \in ResilientModes /\ ~healthURL
  /\ healthURL' = TRUE
  /\ UNCHANGED <<callVars, ctxDone, resilient>>

RetryStep(c) ==
  \/ Top(c)
  \/ FnReturns(c)
  \/ WaitCancelled(c)
  \/ RateWaitElapsed(c)
  \/ BackoffElapsed(c)
  \/ Probing(c)

RetryNext ==
  \/ \E c \in Callers : Begin(c) \/ RetryStep(c) \/ Collect(c)
  \/ CancelContext
  \/ \E enabled \in BOOLEAN : EnableResilientMode(enabled)
  \/ SetHealthCheckURL

RetrySpec == RetryInit /\ [][RetryNext]_retryVars

\* Go keeps running the goroutine, timers fire, and every HTTP exchange ends:
\* by an answer, the context or the client's timeout.
RetryFairSpec ==
  RetrySpec /\ \A c \in Callers : WF_retryVars(RetryStep(c) \/ Collect(c))

-----------------------------------------------------------------------------
RetryTypeOK ==
  /\ rpc \in [Callers -> RetryPositions]
  /\ attempt \in [Callers -> Nat]
  /\ lastErr \in [Callers -> Errors \cup {"none"}]
  /\ outcome \in [Callers -> Outcomes]
  /\ probes \in [Callers -> 0..HealthCheckRetries]
  /\ failures \in [Callers -> Nat]
  /\ lateStarts \in [Callers -> 0..2]
  /\ ctxDone \in BOOLEAN
  /\ resilient \in BOOLEAN
  /\ healthURL \in BOOLEAN

\* The retry budget is spent exactly: a limited Retry that gives up made
\* MaxRetries + 1 calls that failed with a counted error, none more and, the
\* 429s in between notwithstanding, none less; an unlimited one never gives up.
BudgetSpentExactly ==
  \A c \in Callers :
    /\ MaxRetries >= 0 => failures[c] <= MaxRetries + 1
    /\ outcome[c] = "exhausted" =>
         /\ MaxRetries >= 0
         /\ failures[c] = MaxRetries + 1
         /\ lastErr[c] \in Counted

\* Cancelling the context stops the traffic: each Retry begins at most one
\* more fn call under the cancelled context, even when its select picks the
\* timer over ctx.Done() or the readiness probes give up early.
OneLateStartAtMost == \A c \in Callers : lateStarts[c] <= 1

Busy(c) == rpc[c] \notin {"idle", "done"}

\* A cancelled context ends every Retry, the endless 429 loop included.
CancelEndsRetry == \A c \in Callers : ctxDone /\ Busy(c) ~> At(c, "done")

\* Unless the server rate-limits forever, a limited Retry returns.
RetryReturns ==
  \A c \in Callers :
    <>[][~FnRateLimited(c)]_retryVars => (Busy(c) ~> At(c, "done"))
=============================================================================
