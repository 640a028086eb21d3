---------------------------- MODULE RetryProofs ----------------------------
(***************************************************************************)
(* Proofs about Retry, for any set of callers, any MaxRetries (limited or  *)
(* not) and any number of readiness probes: type correctness, the exact    *)
(* retry budget, and at most one fn call begun after a cancellation.       *)
(*                                                                         *)
(* BudgetSpentExactly speaks about calls that are over, so the invariant   *)
(* says what attempt and failures are on the way there; OneLateStartAtMost *)
(* needs to know that a late caller never gets back into the loop.         *)
(***************************************************************************)
EXTENDS Retry, TLAPS

\* Inside the loop every counted failure has been charged to attempt, except
\* that of the backoff the caller is in; the budget is never overdrawn.
ChargedFor(c) ==
  /\ rpc[c] \in {"idle", "top", "probe", "probeWait", "calling", "rateWait"} =>
       failures[c] = attempt[c] /\ attempt[c] <= MaxRetries
  /\ rpc[c] = "backoff" =>
       failures[c] = attempt[c] + 1 /\ attempt[c] < MaxRetries
  /\ failures[c] <= MaxRetries + 1

ChargedExactly == MaxRetries >= 0 => \A c \in Callers : ChargedFor(c)

Exhausted ==
  \A c \in Callers :
    outcome[c] = "exhausted" =>
      /\ MaxRetries >= 0
      /\ failures[c] = MaxRetries + 1
      /\ lastErr[c] \in Counted
      /\ rpc[c] = "done"

\* A caller that began fn under a cancelled context leaves with its answer.
LateAreLeaving ==
  \A c \in Callers :
    /\ lateStarts[c] <= 1
    /\ lateStarts[c] > 0 => rpc[c] \in {"calling", "done"}

RetryInv == RetryTypeOK /\ ChargedExactly /\ Exhausted /\ LateAreLeaving

-----------------------------------------------------------------------------
LEMMA InitInv == RetryInit => RetryInv
<1> SUFFICES ASSUME RetryInit PROVE RetryInv
  OBVIOUS
<1>1. /\ rpc = [c \in Callers |-> "idle"]
      /\ attempt = [c \in Callers |-> 0]
      /\ lastErr = [c \in Callers |-> "none"]
      /\ outcome = [c \in Callers |-> "none"]
      /\ probes = [c \in Callers |-> 0]
      /\ failures = [c \in Callers |-> 0]
      /\ lateStarts = [c \in Callers |-> 0]
  BY DEF RetryInit
<1>2. /\ ctxDone \in BOOLEAN
      /\ resilient \in BOOLEAN
      /\ healthURL \in BOOLEAN
  BY RetryAssumption DEF RetryInit, RetryAssumption
<1>3. RetryTypeOK
  BY <1>1, <1>2, RetryAssumption
     DEF RetryTypeOK, RetryPositions, Outcomes, RetryAssumption
<1>4. ChargedExactly
  <2> SUFFICES ASSUME MaxRetries >= 0, NEW c \in Callers PROVE ChargedFor(c)
    BY DEF ChargedExactly
  <2>1. rpc[c] = "idle" /\ failures[c] = 0 /\ attempt[c] = 0
    BY <1>1
  <2> QED
    BY <2>1, RetryAssumption DEF ChargedFor, RetryAssumption
<1>5. Exhausted /\ LateAreLeaving
  BY <1>1 DEF Exhausted, LateAreLeaving
<1> QED
  BY <1>3, <1>4, <1>5 DEF RetryInv

\* What a call of fn does to the invariant, from wherever it is made.
LEMMA CallFnInv ==
  ASSUME RetryInv, NEW c \in Callers, CallFn(c),
         rpc[c] \in {"top", "probe", "probeWait"}
  PROVE  RetryInv'
<1> USE RetryAssumption DEF RetryAssumption, RetryInv, RetryTypeOK, CallFn,
                            Move, sharedVars, Saturate
<1>1. RetryTypeOK'
  BY DEF RetryPositions
<1>2. ChargedExactly'
  BY DEF ChargedExactly, ChargedFor
<1>3. Exhausted'
  BY DEF Exhausted
<1>4. LateAreLeaving'
  BY DEF LateAreLeaving
<1> QED
  BY <1>1, <1>2, <1>3, <1>4

LEMMA BeginInv ==
  ASSUME RetryInv, NEW c \in Callers, Begin(c)
  PROVE  RetryInv'
<1> USE RetryAssumption DEF RetryAssumption, RetryInv, RetryTypeOK, Begin,
                            At, Move, sharedVars
<1>1. RetryTypeOK'
  BY DEF RetryPositions
<1>2. ChargedExactly'
  BY DEF ChargedExactly, ChargedFor
<1>3. Exhausted'
  BY DEF Exhausted
<1>4. LateAreLeaving'
  BY DEF LateAreLeaving
<1> QED
  BY <1>1, <1>2, <1>3, <1>4

LEMMA TopInv ==
  ASSUME RetryInv, NEW c \in Callers, Top(c)
  PROVE  RetryInv'
<1> USE RetryAssumption DEF RetryAssumption, RetryInv, RetryTypeOK, At
<1>1. ~OverBudget(c)
  BY DEF Top, OverBudget, ChargedExactly, ChargedFor
<1>2. CASE StartProbing(c)
  <2> USE <1>2 DEF StartProbing, Move, sharedVars
  <2>1. RetryTypeOK'
    BY DEF RetryPositions
  <2>2. ChargedExactly'
    BY DEF ChargedExactly, ChargedFor, Top
  <2>3. Exhausted'
    BY DEF Exhausted, Top
  <2>4. LateAreLeaving'
    BY DEF LateAreLeaving, Top
  <2> QED
    BY <2>1, <2>2, <2>3, <2>4
<1>3. CASE CallFn(c)
  BY <1>3, CallFnInv DEF Top
<1> QED
  BY <1>1, <1>2, <1>3 DEF Top

\* fn answers: a late caller can only get the cancellation back.
LEMMA FnReturnsInv ==
  ASSUME RetryInv, NEW c \in Callers, FnReturns(c)
  PROVE  RetryInv'
<1> USE RetryAssumption DEF RetryAssumption, RetryInv, RetryTypeOK, At, Move,
                            Finish, sharedVars
<1>1. CASE FnSucceeds(c)
  <2> USE <1>1 DEF FnSucceeds
  <2>1. RetryTypeOK'
    BY DEF RetryPositions, Outcomes
  <2>2. ChargedExactly'
    BY DEF ChargedExactly, ChargedFor
  <2>3. Exhausted' /\ LateAreLeaving'
    BY DEF Exhausted, LateAreLeaving
  <2> QED
    BY <2>1, <2>2, <2>3
<1>2. CASE FnRateLimited(c)
  <2> USE <1>2 DEF FnRateLimited
  <2>1. RetryTypeOK'
    BY DEF RetryPositions, Errors, RateLimited
  <2>2. ChargedExactly'
    BY DEF ChargedExactly, ChargedFor
  <2>3. Exhausted'
    BY DEF Exhausted
  <2>4. LateAreLeaving'
    BY DEF LateAreLeaving, Answers
  <2> QED
    BY <2>1, <2>2, <2>3, <2>4
<1>3. ASSUME NEW e \in Final, FnFailsForGood(c, e) PROVE RetryInv'
  <2> USE <1>3 DEF FnFailsForGood
  <2>1. RetryTypeOK'
    BY DEF RetryPositions, Outcomes, Errors
  <2>2. ChargedExactly'
    BY DEF ChargedExactly, ChargedFor
  <2>3. Exhausted' /\ LateAreLeaving'
    BY DEF Exhausted, LateAreLeaving, Final
  <2> QED
    BY <2>1, <2>2, <2>3
<1>4. ASSUME NEW e \in Counted, FnFailsRetryably(c, e) PROVE RetryInv'
  <2> USE <1>4 DEF FnFailsRetryably
  <2>1. lateStarts[c] = 0
    BY DEF Answers, Counted
  <2>2. failures'[c] = IF MaxRetries >= 0 THEN failures[c] + 1 ELSE 1
    BY DEF Saturate, FailureCap, ChargedExactly, ChargedFor
  <2>3. RetryTypeOK'
    BY <2>2 DEF RetryPositions, Outcomes, Errors
  <2>4. ChargedExactly'
    BY <2>2 DEF ChargedExactly, ChargedFor
  <2>5. Exhausted'
    BY <2>2 DEF Exhausted, ChargedExactly, ChargedFor
  <2>6. LateAreLeaving'
    BY <2>1 DEF LateAreLeaving
  <2> QED
    BY <2>3, <2>4, <2>5, <2>6
<1> QED
  BY <1>1, <1>2, <1>3, <1>4 DEF FnReturns

\* The two waits of the loop, left by the timer or by the context.
LEMMA WaitsInv ==
  ASSUME RetryInv, NEW c \in Callers,
         WaitCancelled(c) \/ RateWaitElapsed(c) \/ BackoffElapsed(c)
  PROVE  RetryInv'
<1> USE RetryAssumption DEF RetryAssumption, RetryInv, RetryTypeOK, At, Move,
                            Finish, sharedVars
<1>1. CASE WaitCancelled(c)
  <2> USE <1>1 DEF WaitCancelled
  <2>1. RetryTypeOK'
    BY DEF RetryPositions, Outcomes
  <2>2. ChargedExactly'
    BY DEF ChargedExactly, ChargedFor
  <2>3. Exhausted' /\ LateAreLeaving'
    BY DEF Exhausted, LateAreLeaving
  <2> QED
    BY <2>1, <2>2, <2>3
<1>2. CASE RateWaitElapsed(c)
  <2> USE <1>2 DEF RateWaitElapsed
  <2>1. RetryTypeOK'
    BY DEF RetryPositions
  <2>2. ChargedExactly'
    BY DEF ChargedExactly, ChargedFor
  <2>3. Exhausted' /\ LateAreLeaving'
    BY DEF Exhausted, LateAreLeaving
  <2> QED
    BY <2>1, <2>2, <2>3
<1>3. CASE BackoffElapsed(c)
  <2> USE <1>3 DEF BackoffElapsed
  <2>1. RetryTypeOK'
    BY DEF RetryPositions
  <2>2. ChargedExactly'
    BY DEF ChargedExactly, ChargedFor
  <2>3. Exhausted' /\ LateAreLeaving'
    BY DEF Exhausted, LateAreLeaving
  <2> QED
    BY <2>1, <2>2, <2>3
<1> QED
  BY <1>1, <1>2, <1>3

LEMMA ProbingInv ==
  ASSUME RetryInv, NEW c \in Callers, Probing(c)
  PROVE  RetryInv'
<1> USE RetryAssumption DEF RetryAssumption, RetryInv, RetryTypeOK, At, Move,
                            sharedVars
<1>1. CASE ProbingOver(c) \/ ProbeSucceeds(c) \/ ProbeWaitCancelled(c)
  BY <1>1, CallFnInv DEF ProbingOver, ProbeSucceeds, ProbeWaitCancelled
<1>2. CASE ProbeFails(c)
  <2> USE <1>2 DEF ProbeFails
  <2>1. RetryTypeOK'
    BY DEF RetryPositions
  <2>2. ChargedExactly'
    BY DEF ChargedExactly, ChargedFor
  <2>3. Exhausted' /\ LateAreLeaving'
    BY DEF Exhausted, LateAreLeaving
  <2> QED
    BY <2>1, <2>2, <2>3
<1>3. CASE ProbeWaitElapsed(c)
  <2> USE <1>3 DEF ProbeWaitElapsed
  <2>1. RetryTypeOK'
    BY DEF RetryPositions
  <2>2. ChargedExactly'
    BY DEF ChargedExactly, ChargedFor
  <2>3. Exhausted' /\ LateAreLeaving'
    BY DEF Exhausted, LateAreLeaving
  <2> QED
    BY <2>1, <2>2, <2>3
<1> QED
  BY <1>1, <1>2, <1>3 DEF Probing

LEMMA CollectInv ==
  ASSUME RetryInv, NEW c \in Callers, Collect(c)
  PROVE  RetryInv'
<1> USE RetryAssumption DEF RetryAssumption, RetryInv, RetryTypeOK, At, Move,
                            Collect, sharedVars
<1>1. RetryTypeOK'
  BY DEF RetryPositions, Outcomes
<1>2. ChargedExactly'
  BY DEF ChargedExactly, ChargedFor
<1>3. Exhausted' /\ LateAreLeaving'
  BY DEF Exhausted, LateAreLeaving
<1> QED
  BY <1>1, <1>2, <1>3

\* Cancelling and reconfiguring touch no caller's state.
LEMMA SharedInv ==
  ASSUME RetryInv, UNCHANGED callVars, ctxDone' \in BOOLEAN,
         resilient' \in BOOLEAN, healthURL' \in BOOLEAN
  PROVE  RetryInv'
<1>1. RetryTypeOK'
  BY DEF RetryInv, RetryTypeOK, callVars
<1>2. ChargedExactly' /\ Exhausted' /\ LateAreLeaving'
  BY DEF RetryInv, ChargedExactly, ChargedFor, Exhausted, LateAreLeaving,
         callVars
<1> QED
  BY <1>1, <1>2 DEF RetryInv

LEMMA StepInv == RetryInv /\ [RetryNext]_retryVars => RetryInv'
<1> SUFFICES ASSUME RetryInv, [RetryNext]_retryVars PROVE RetryInv'
  OBVIOUS
<1>1. ASSUME NEW c \in Callers, Begin(c) \/ RetryStep(c) \/ Collect(c)
      PROVE  RetryInv'
  BY <1>1, BeginInv, TopInv, FnReturnsInv, WaitsInv, ProbingInv, CollectInv
     DEF RetryStep
<1>2. CASE CancelContext
  BY <1>2, SharedInv DEF CancelContext, RetryInv, RetryTypeOK
<1>3. ASSUME NEW enabled \in BOOLEAN, EnableResilientMode(enabled)
      PROVE  RetryInv'
  BY <1>3, SharedInv DEF EnableResilientMode, RetryInv, RetryTypeOK
<1>4. CASE SetHealthCheckURL
  BY <1>4, SharedInv DEF SetHealthCheckURL, RetryInv, RetryTypeOK
<1>5. CASE UNCHANGED retryVars
  BY <1>5, SharedInv DEF retryVars, RetryInv, RetryTypeOK
<1> QED
  BY <1>1, <1>2, <1>3, <1>4, <1>5 DEF RetryNext

LEMMA SpecInv == RetrySpec => []RetryInv
  BY InitInv, StepInv, PTL DEF RetrySpec

-----------------------------------------------------------------------------
\* Every variable of Retry keeps its type; no probe is made beyond
\* HealthCheckRetries.
THEOREM RetryTypeCorrect == RetrySpec => []RetryTypeOK
<1>1. RetryInv => RetryTypeOK
  BY DEF RetryInv
<1> QED
  BY <1>1, SpecInv, PTL

\* A limited Retry gives up after exactly MaxRetries + 1 counted failures,
\* whatever 429s lie in between, and an unlimited one never gives up.
THEOREM BudgetIsExact == RetrySpec => []BudgetSpentExactly
<1>1. RetryInv => BudgetSpentExactly
  BY DEF RetryInv, ChargedExactly, ChargedFor, Exhausted, BudgetSpentExactly
<1> QED
  BY <1>1, SpecInv, PTL

\* At most one fn call per Retry begins under a cancelled context.
THEOREM CancelStopsTraffic == RetrySpec => []OneLateStartAtMost
<1>1. RetryInv => OneLateStartAtMost
  BY DEF RetryInv, LateAreLeaving, OneLateStartAtMost
<1> QED
  BY <1>1, SpecInv, PTL
=============================================================================
