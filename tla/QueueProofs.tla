---------------------------- MODULE QueueProofs ----------------------------
(***************************************************************************)
(* Proofs about Queue, for any sets of consumers and entries and any       *)
(* capacity: type correctness (with the capacity bound), no lost wakeup,   *)
(* nobody asleep through a shutdown, and the contract of a nil result.     *)
(*                                                                         *)
(* The inductive invariant QueueInv is the conjunction of the three        *)
(* invariants, of DrainMeansClosed, which only the action property needs,  *)
(* and of NilMeansOver, which the client needs.  Each conjunct is shown to *)
(* survive each action.                                                    *)
(***************************************************************************)
EXTENDS Queue, SequenceTheorems, TLAPS

\* Only the closeCh case of the select leads to the last Dequeue.
DrainMeansClosed == \A c \in Consumers : pc[c] = "drain" => closed

\* A nil result waiting to be picked up was justified, and still is.
NilMeansOver ==
  \A c \in Consumers : pc[c] = "returned" /\ taken[c] = None => ctxDone \/ closed

QueueInv ==
  /\ QueueTypeOK
  /\ NoLostWakeup
  /\ NoSleepThroughShutdown
  /\ DrainMeansClosed
  /\ NilMeansOver

-----------------------------------------------------------------------------
\* What Enqueue and the dequeues do to a well-typed queue.

LEMMA AppendBounded ==
  ASSUME items \in Seq(Entries), Len(items) < MaxSize, NEW e \in Entries
  PROVE  /\ Append(items, e) \in Seq(Entries)
         /\ Len(Append(items, e)) <= MaxSize
  BY QueueAssumption DEF QueueAssumption

LEMMA TailBounded ==
  ASSUME items \in Seq(Entries), Len(items) <= MaxSize, items # <<>>
  PROVE  /\ Head(items) \in Entries
         /\ Tail(items) \in Seq(Entries)
         /\ Len(Tail(items)) <= MaxSize
  BY QueueAssumption DEF QueueAssumption

\* DequeueBatch keeps a suffix, which is empty only if the batch was the
\* whole queue and never nonempty when the queue was empty.
LEMMA SuffixBounded ==
  ASSUME items \in Seq(Entries), Len(items) <= MaxSize, NEW n \in Nat
  PROVE  LET rest == SubSeq(items, BatchSizeFor(n) + 1, Len(items))
         IN  /\ rest \in Seq(Entries)
             /\ Len(rest) <= MaxSize
             /\ rest # <<>> => items # <<>>
<1> DEFINE k == BatchSizeFor(n)
<1> DEFINE rest == SubSeq(items, k + 1, Len(items))
<1>1. k \in Nat /\ k <= Len(items)
  BY DEF BatchSizeFor
<1>2. \A i \in (k + 1)..Len(items) : items[i] \in Entries
  BY <1>1
<1>3. rest \in Seq(Entries)
  BY <1>1, <1>2
<1>4. Len(rest) = Len(items) - k
  BY <1>1
<1>5. rest # <<>> => Len(rest) # 0
  BY <1>3
<1>6. items = <<>> => Len(items) = 0
  OBVIOUS
<1> QED
  BY <1>1, <1>3, <1>4, <1>5, <1>6, QueueAssumption DEF QueueAssumption

-----------------------------------------------------------------------------
LEMMA InitInv == QueueInit => QueueInv
<1> SUFFICES ASSUME QueueInit PROVE QueueInv
  OBVIOUS
<1> USE DEF QueueInit
<1>1. QueueTypeOK
  <2>1. items \in Seq(Entries) /\ Len(items) <= MaxSize
    BY QueueAssumption DEF QueueAssumption
  <2>2. pc \in [Consumers -> Positions]
    BY DEF Positions
  <2>3. notEmpty \in BOOLEAN /\ closed \in BOOLEAN /\ ctxDone \in BOOLEAN
    OBVIOUS
  <2> QED
    BY <2>1, <2>2, <2>3 DEF QueueTypeOK
<1>2. NoLostWakeup
  BY DEF NoLostWakeup
<1>3. NoSleepThroughShutdown
  BY DEF NoSleepThroughShutdown
<1>4. DrainMeansClosed
  BY DEF DrainMeansClosed
<1>5. NilMeansOver
  BY DEF NilMeansOver
<1> QED
  BY <1>1, <1>2, <1>3, <1>4, <1>5 DEF QueueInv

\* Every step keeps the queue well typed and within its capacity.
LEMMA StepType == QueueTypeOK /\ QueueNext => QueueTypeOK'
<1> SUFFICES ASSUME QueueTypeOK, QueueNext PROVE QueueTypeOK'
  OBVIOUS
<1> USE DEF QueueTypeOK, Positions
<1>1. ASSUME NEW e \in Entries, Enqueue(e) PROVE QueueTypeOK'
  <2>1. items' \in Seq(Entries) /\ Len(items') <= MaxSize
    BY <1>1, AppendBounded DEF Enqueue, Accepts
  <2>2. notEmpty' \in BOOLEAN /\ pc' \in [Consumers -> Positions]
    BY <1>1 DEF Enqueue, Signal, Parked
  <2> QED
    BY <1>1, <2>1, <2>2 DEF Enqueue
<1>2. ASSUME NEW n \in 0..MaxSize, DequeueBatch(n) PROVE QueueTypeOK'
  BY <1>2, SuffixBounded, QueueAssumption DEF DequeueBatch, QueueAssumption
<1>3. CASE Clear
  BY <1>3, QueueAssumption DEF Clear, QueueAssumption
<1>4. CASE Close
  BY <1>4 DEF Close, WakeAll, Parked
<1>5. CASE Cancel
  BY <1>5 DEF Cancel, WakeAll, Parked
<1>6. ASSUME NEW c \in Consumers, Call(c) PROVE QueueTypeOK'
  BY <1>6 DEF Call, Goto
<1>7. ASSUME NEW c \in Consumers, DequeueStep(c) PROVE QueueTypeOK'
  <2>1. ASSUME NEW p \in {"dequeue", "drain"}, TakeHead(c, p)
        PROVE QueueTypeOK'
    BY <2>1, TailBounded DEF TakeHead, Goto
  <2>2. CASE FoundEmpty(c)
    BY <2>2 DEF FoundEmpty, Goto
  <2>3. CASE ClosedCheck(c)
    BY <2>3 DEF ClosedCheck, ReturnNil, Goto
  <2>4. CASE SelectCtxDone(c) \/ DrainedNil(c)
    BY <2>4 DEF SelectCtxDone, DrainedNil, ReturnNil, Goto
  <2>5. CASE SelectClosed(c)
    BY <2>5 DEF SelectClosed, Goto
  <2>6. CASE SelectNotEmpty(c)
    BY <2>6 DEF SelectNotEmpty, Goto
  <2>7. CASE SelectPark(c)
    BY <2>7 DEF SelectPark, Goto
  <2> QED
    BY <1>7, <2>1, <2>2, <2>3, <2>4, <2>5, <2>6, <2>7 DEF DequeueStep
<1>8. ASSUME NEW c \in Consumers, Return(c) PROVE QueueTypeOK'
  BY <1>8 DEF Return, Goto
<1> QED
  BY <1>1, <1>2, <1>3, <1>4, <1>5, <1>6, <1>7, <1>8 DEF QueueNext

\* A consumer goes to sleep only after it saw the queue empty, and an Enqueue
\* that comes later either wakes a parked consumer or leaves the token.
LEMMA StepWakeup ==
  QueueTypeOK /\ NoLostWakeup /\ QueueNext => NoLostWakeup'
<1> SUFFICES ASSUME QueueTypeOK, NoLostWakeup, QueueNext PROVE NoLostWakeup'
  OBVIOUS
<1> USE DEF QueueTypeOK, NoLostWakeup, Asleep, Positions
<1>1. ASSUME NEW e \in Entries, Enqueue(e) PROVE NoLostWakeup'
  <2>1. CASE Parked = {}
    BY <1>1, <2>1 DEF Enqueue, Signal
  <2>2. CASE Parked # {}
    <3>1. PICK c \in Parked : pc' = [pc EXCEPT ![c] = "dequeue"]
      BY <1>1, <2>2 DEF Enqueue, Signal
    <3>2. c \in Consumers /\ pc'[c] = "dequeue"
      BY <3>1 DEF Parked
    <3> QED
      BY <3>2
  <2> QED
    BY <2>1, <2>2
<1>2. ASSUME NEW n \in 0..MaxSize, DequeueBatch(n) PROVE NoLostWakeup'
  BY <1>2, SuffixBounded, QueueAssumption DEF DequeueBatch, QueueAssumption
<1>3. CASE Clear
  BY <1>3 DEF Clear
<1>4. CASE Close \/ Cancel
  BY <1>4 DEF Close, Cancel, WakeAll, Parked
<1>5. ASSUME NEW c \in Consumers, Call(c) PROVE NoLostWakeup'
  BY <1>5 DEF Call, Goto
<1>6. ASSUME NEW c \in Consumers, DequeueStep(c) PROVE NoLostWakeup'
  <2>1. ASSUME NEW p \in {"dequeue", "drain"}, TakeHead(c, p)
        PROVE NoLostWakeup'
    BY <2>1 DEF TakeHead, Goto
  <2>2. CASE FoundEmpty(c)
    BY <2>2 DEF FoundEmpty, Goto
  <2>3. CASE ClosedCheck(c)
    BY <2>3 DEF ClosedCheck, ReturnNil, Goto
  <2>4. CASE SelectCtxDone(c) \/ DrainedNil(c)
    BY <2>4 DEF SelectCtxDone, DrainedNil, ReturnNil, Goto
  <2>5. CASE SelectClosed(c)
    BY <2>5 DEF SelectClosed, Goto
  <2>6. CASE SelectNotEmpty(c)
    BY <2>6 DEF SelectNotEmpty, Goto
  <2>7. CASE SelectPark(c)
    BY <2>7 DEF SelectPark, Goto
  <2> QED
    BY <1>6, <2>1, <2>2, <2>3, <2>4, <2>5, <2>6, <2>7 DEF DequeueStep
<1>7. ASSUME NEW c \in Consumers, Return(c) PROVE NoLostWakeup'
  BY <1>7 DEF Return, Goto
<1> QED
  BY <1>1, <1>2, <1>3, <1>4, <1>5, <1>6, <1>7 DEF QueueNext

\* Close and Cancel empty the set of parked consumers, and parking is refused
\* once either has happened; the token is stored only when nobody is parked.
LEMMA StepShutdown ==
  QueueTypeOK /\ NoSleepThroughShutdown /\ QueueNext
    => NoSleepThroughShutdown'
<1> SUFFICES ASSUME QueueTypeOK, NoSleepThroughShutdown, QueueNext
             PROVE  NoSleepThroughShutdown'
  OBVIOUS
<1> USE DEF QueueTypeOK, NoSleepThroughShutdown, Parked, Positions
<1>1. ASSUME NEW e \in Entries, Enqueue(e) PROVE NoSleepThroughShutdown'
  <2>1. CASE Parked = {}
    BY <1>1, <2>1 DEF Enqueue, Signal
  <2>2. CASE Parked # {}
    BY <1>1, <2>2 DEF Enqueue, Signal
  <2> QED
    BY <2>1, <2>2
<1>2. ASSUME NEW n \in 0..MaxSize, DequeueBatch(n)
      PROVE NoSleepThroughShutdown'
  BY <1>2 DEF DequeueBatch
<1>3. CASE Clear
  BY <1>3 DEF Clear
<1>4. CASE Close \/ Cancel
  BY <1>4 DEF Close, Cancel, WakeAll
<1>5. ASSUME NEW c \in Consumers, Call(c) PROVE NoSleepThroughShutdown'
  BY <1>5 DEF Call, Goto
<1>6. ASSUME NEW c \in Consumers, DequeueStep(c) PROVE NoSleepThroughShutdown'
  <2>1. ASSUME NEW p \in {"dequeue", "drain"}, TakeHead(c, p)
        PROVE NoSleepThroughShutdown'
    BY <2>1 DEF TakeHead, Goto
  <2>2. CASE FoundEmpty(c)
    BY <2>2 DEF FoundEmpty, Goto
  <2>3. CASE ClosedCheck(c)
    BY <2>3 DEF ClosedCheck, ReturnNil, Goto
  <2>4. CASE SelectCtxDone(c) \/ DrainedNil(c)
    BY <2>4 DEF SelectCtxDone, DrainedNil, ReturnNil, Goto
  <2>5. CASE SelectClosed(c)
    BY <2>5 DEF SelectClosed, Goto
  <2>6. CASE SelectNotEmpty(c)
    BY <2>6 DEF SelectNotEmpty, Goto
  <2>7. CASE SelectPark(c)
    BY <2>7 DEF SelectPark, Goto
  <2> QED
    BY <1>6, <2>1, <2>2, <2>3, <2>4, <2>5, <2>6, <2>7 DEF DequeueStep
<1>7. ASSUME NEW c \in Consumers, Return(c) PROVE NoSleepThroughShutdown'
  BY <1>7 DEF Return, Goto
<1> QED
  BY <1>1, <1>2, <1>3, <1>4, <1>5, <1>6, <1>7 DEF QueueNext

LEMMA StepDrain ==
  QueueTypeOK /\ DrainMeansClosed /\ QueueNext => DrainMeansClosed'
<1> SUFFICES ASSUME QueueTypeOK, DrainMeansClosed, QueueNext
             PROVE  DrainMeansClosed'
  OBVIOUS
<1> USE DEF QueueTypeOK, DrainMeansClosed, Parked, Positions
<1>1. ASSUME NEW e \in Entries, Enqueue(e) PROVE DrainMeansClosed'
  BY <1>1 DEF Enqueue, Signal
<1>2. ASSUME NEW n \in 0..MaxSize, DequeueBatch(n) PROVE DrainMeansClosed'
  BY <1>2 DEF DequeueBatch
<1>3. CASE Clear
  BY <1>3 DEF Clear
<1>4. CASE Close \/ Cancel
  BY <1>4 DEF Close, Cancel, WakeAll
<1>5. ASSUME NEW c \in Consumers, Call(c) \/ Return(c) PROVE DrainMeansClosed'
  BY <1>5 DEF Call, Return, Goto
<1>6. ASSUME NEW c \in Consumers, DequeueStep(c) PROVE DrainMeansClosed'
  BY <1>6 DEF DequeueStep, TakeHead, FoundEmpty, ClosedCheck, SelectCtxDone,
              SelectClosed, SelectNotEmpty, SelectPark, DrainedNil, ReturnNil,
              Goto
<1> QED
  BY <1>1, <1>2, <1>3, <1>4, <1>5, <1>6 DEF QueueNext

\* A shutdown is for good.
LEMMA ShutdownStays ==
  [QueueNext]_queueVars => (ctxDone => ctxDone') /\ (closed => closed')
  BY DEF QueueNext, queueVars, Enqueue, DequeueBatch, Clear, Close, Cancel, Call,
         Return, DequeueStep, TakeHead, FoundEmpty, ClosedCheck, SelectCtxDone,
         SelectClosed, SelectNotEmpty, SelectPark, DrainedNil, ReturnNil

LEMMA StepNil ==
  ASSUME QueueTypeOK, DrainMeansClosed, NilMeansOver, QueueNext
  PROVE  NilMeansOver'
<1> USE DEF QueueTypeOK, NilMeansOver, Positions
<1>1. (ctxDone => ctxDone') /\ (closed => closed')
  BY ShutdownStays
<1>2. ASSUME NEW e \in Entries, Enqueue(e) PROVE NilMeansOver'
  BY <1>2 DEF Enqueue, Signal, Parked
<1>3. CASE Clear \/ \E n \in 0..MaxSize : DequeueBatch(n)
  BY <1>3 DEF Clear, DequeueBatch
<1>4. CASE Close
  BY <1>4 DEF Close
<1>5. CASE Cancel
  BY <1>5 DEF Cancel
<1>6. ASSUME NEW d \in Consumers, Call(d) \/ Return(d) PROVE NilMeansOver'
  BY <1>6 DEF Call, Return, Goto
<1>7. ASSUME NEW d \in Consumers, DequeueStep(d) PROVE NilMeansOver'
  <2>1. ASSUME NEW p \in {"dequeue", "drain"}, TakeHead(d, p) PROVE NilMeansOver'
    <3>1. Head(items) # None
      BY <2>1, TailBounded, QueueAssumption DEF TakeHead, QueueAssumption
    <3> QED
      BY <2>1, <3>1 DEF TakeHead, Goto
  <2>2. CASE FoundEmpty(d) \/ SelectClosed(d) \/ SelectNotEmpty(d) \/ SelectPark(d)
    BY <2>2 DEF FoundEmpty, SelectClosed, SelectNotEmpty, SelectPark, Goto
  <2>3. CASE ClosedCheck(d)
    BY <2>3 DEF ClosedCheck, ReturnNil, Goto
  <2>4. CASE SelectCtxDone(d)
    BY <2>4 DEF SelectCtxDone, ReturnNil, Goto
  <2>5. CASE DrainedNil(d)
    BY <2>5 DEF DrainedNil, DrainMeansClosed, ReturnNil, Goto
  <2> QED
    BY <1>7, <2>1, <2>2, <2>3, <2>4, <2>5 DEF DequeueStep
<1> QED
  BY <1>2, <1>3, <1>4, <1>5, <1>6, <1>7 DEF QueueNext

LEMMA StepInv == QueueInv /\ [QueueNext]_queueVars => QueueInv'
<1> SUFFICES ASSUME QueueInv, [QueueNext]_queueVars PROVE QueueInv'
  OBVIOUS
<1>1. CASE QueueNext
  BY <1>1, StepType, StepWakeup, StepShutdown, StepDrain, StepNil DEF QueueInv
<1>2. CASE UNCHANGED queueVars
  BY <1>2 DEF QueueInv, QueueTypeOK, NoLostWakeup, NoSleepThroughShutdown,
              DrainMeansClosed, NilMeansOver, Parked, queueVars
<1> QED
  BY <1>1, <1>2

LEMMA SpecInv == QueueSpec => []QueueInv
  BY InitInv, StepInv, PTL DEF QueueSpec

-----------------------------------------------------------------------------
\* The queue never holds more than maxSize entries and every variable keeps
\* its type.
THEOREM QueueTypeCorrect == QueueSpec => []QueueTypeOK
<1>1. QueueInv => QueueTypeOK
  BY DEF QueueInv
<1> QED
  BY <1>1, SpecInv, PTL

\* One token in notEmpty is enough for any number of consumers and entries.
THEOREM WakeupsAreNotLost == QueueSpec => []NoLostWakeup
<1>1. QueueInv => NoLostWakeup
  BY DEF QueueInv
<1> QED
  BY <1>1, SpecInv, PTL

\* No consumer stays parked once the queue is closed, the context cancelled
\* or the token there.
THEOREM ShutdownWakesEveryone == QueueSpec => []NoSleepThroughShutdown
<1>1. QueueInv => NoSleepThroughShutdown
  BY DEF QueueInv
<1> QED
  BY <1>1, SpecInv, PTL

\* DequeueWithContext returns nil only for the two reasons its comment gives.
THEOREM NilIsExplained == QueueSpec => NilOnlyWhenOver
<1> DEFINE A == \A c \in Consumers :
                  pc[c] # "returned" /\ pc'[c] = "returned" /\ taken'[c] = None
                    => ctxDone' \/ (closed /\ items = <<>>)
<1>1. QueueInv /\ [QueueNext]_queueVars => [A]_queueVars
  <2> SUFFICES ASSUME QueueInv, QueueNext,
                      NEW c \in Consumers,
                      pc[c] # "returned", pc'[c] = "returned", taken'[c] = None
               PROVE  ctxDone' \/ (closed /\ items = <<>>)
    OBVIOUS
  <2> USE DEF QueueInv, QueueTypeOK, DrainMeansClosed, Positions, Parked
  <2>1. ASSUME NEW e \in Entries, Enqueue(e) PROVE FALSE
    BY <2>1 DEF Enqueue, Signal
  <2>2. ~Clear /\ ~Close /\ \A n \in 0..MaxSize : ~DequeueBatch(n)
    BY DEF Clear, Close, WakeAll, DequeueBatch
  <2>3. Cancel => ctxDone'
    BY DEF Cancel
  <2>4. ASSUME NEW d \in Consumers, Call(d) \/ Return(d) PROVE FALSE
    BY <2>4 DEF Call, Return, Goto
  <2>5. ASSUME NEW d \in Consumers, DequeueStep(d)
        PROVE  ctxDone' \/ (closed /\ items = <<>>)
    <3>1. ASSUME NEW p \in {"dequeue", "drain"}, TakeHead(d, p) PROVE FALSE
      <4>1. Head(items) # None
        BY <3>1, TailBounded, QueueAssumption DEF TakeHead, QueueAssumption
      <4> QED
        BY <3>1, <4>1 DEF TakeHead, Goto
    <3>2. CASE FoundEmpty(d) \/ SelectClosed(d) \/ SelectNotEmpty(d)
                 \/ SelectPark(d)
      BY <3>2 DEF FoundEmpty, SelectClosed, SelectNotEmpty, SelectPark, Goto
    <3>3. CASE ClosedCheck(d)
      BY <3>3 DEF ClosedCheck, Goto
    <3>4. CASE SelectCtxDone(d)
      BY <3>4 DEF SelectCtxDone, ReturnNil
    <3>5. CASE DrainedNil(d)
      BY <3>5 DEF DrainedNil
    <3> QED
      BY <2>5, <3>1, <3>2, <3>3, <3>4, <3>5 DEF DequeueStep
  <2> QED
    BY <2>1, <2>2, <2>3, <2>4, <2>5 DEF QueueNext
<1> QED
  BY <1>1, SpecInv, PTL DEF QueueSpec, NilOnlyWhenOver
=============================================================================
