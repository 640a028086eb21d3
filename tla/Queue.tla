------------------------------- MODULE Queue -------------------------------
(***************************************************************************)
(* The in-memory FIFO of pkg/queue/queue.go, with the goroutines that      *)
(* block in DequeueWithContext.                                            *)
(*                                                                         *)
(* Every method body that runs under q.mu is one action.  A call of        *)
(* DequeueWithContext is not: it locks and unlocks q.mu several times and  *)
(* then sleeps in a select, so it is a small program of its own, one       *)
(* program counter per calling goroutine:                                  *)
(*                                                                         *)
(*   "idle"         outside DequeueWithContext                             *)
(*   "dequeue"      about to run q.Dequeue()                               *)
(*   "closedCheck"  saw an empty queue, about to read closed and len       *)
(*   "select"       about to evaluate the three cases of the select        *)
(*   "parked"       asleep in the select: no case was ready                *)
(*   "drain"        woken by closeCh, about to run the last q.Dequeue()    *)
(*   "returned"     back in the caller, result in taken (None stands for   *)
(*                  the nil pointer)                                       *)
(*                                                                         *)
(* The channel notEmpty has capacity one and is modelled by its content.   *)
(* A Go send hands its value directly to a receiver that is already        *)
(* parked, and only otherwise fills the buffer; closing a channel wakes    *)
(* every parked receiver with that channel's case.                         *)
(***************************************************************************)
EXTENDS Integers, Sequences

CONSTANTS
  Consumers,  \* goroutines that call DequeueWithContext
  Entries,    \* the log entries
  MaxSize,    \* q.maxSize after NewQueue replaced a value <= 0
  None        \* the nil *LogEntry

ASSUME QueueAssumption ==
  /\ MaxSize \in Nat \ {0}
  /\ None \notin Entries

VARIABLES
  items,     \* q.items
  notEmpty,  \* q.notEmpty holds its one token
  closed,    \* q.closed, which is also whether q.closeCh is closed
  ctxDone,   \* ctx.Done() of the context the consumers pass is closed
  pc,        \* where each consumer is in DequeueWithContext
  taken      \* what its last call returned

queueVars == <<items, notEmpty, closed, ctxDone, pc, taken>>

Positions ==
  {"idle", "dequeue", "closedCheck", "select", "parked", "drain", "returned"}

Parked == {c \in Consumers : pc[c] = "parked"}

QueueInit ==
  /\ items = <<>>
  /\ notEmpty = FALSE
  /\ closed = FALSE
  /\ ctxDone = FALSE
  /\ pc = [c \in Consumers |-> "idle"]
  /\ taken = [c \in Consumers |-> None]

-----------------------------------------------------------------------------
(* Operations that run under q.mu.                                         *)

\* Mutant of Accepts: the capacity test is off by one.
AcceptsOneTooMany == ~closed /\ Len(items) <= MaxSize

Accepts == ~closed /\ Len(items) < MaxSize

\* Mutant of Signal: notEmpty has no buffer, so a send nobody waits for is lost.
SignalUnbuffered ==
  /\ UNCHANGED notEmpty
  /\ IF Parked = {}
     THEN UNCHANGED pc
     ELSE \E c \in Parked : pc' = [pc EXCEPT ![c] = "dequeue"]

\* The non-blocking send on notEmpty at the end of Enqueue.
Signal ==
  IF Parked = {}
  THEN notEmpty' = TRUE /\ UNCHANGED pc
  ELSE /\ \E c \in Parked : pc' = [pc EXCEPT ![c] = "dequeue"]
       /\ UNCHANGED notEmpty

\* Enqueue returning true.  When ~Accepts it returns false and changes nothing.
Enqueue(e) ==
  /\ Accepts
  /\ items' = Append(items, e)
  /\ Signal
  /\ UNCHANGED <<closed, ctxDone, taken>>

\* DequeueBatch(n): what it hands out is the prefix it removes.
BatchSizeFor(n) == IF n > Len(items) THEN Len(items) ELSE n

Batch(n) == SubSeq(items, 1, BatchSizeFor(n))

DequeueBatch(n) ==
  /\ items' = SubSeq(items, BatchSizeFor(n) + 1, Len(items))
  /\ UNCHANGED <<notEmpty, closed, ctxDone, pc, taken>>

\* Clear forgets the entries but leaves the token in the channel.
Clear ==
  /\ items' = <<>>
  /\ UNCHANGED <<notEmpty, closed, ctxDone, pc, taken>>

\* Mutant of WakeAll: one value is sent where the channel should be closed.
WakeOne(p) ==
  IF Parked = {}
  THEN UNCHANGED pc
  ELSE \E c \in Parked : pc' = [pc EXCEPT ![c] = p]

\* Every consumer parked in the select resumes at position p.
WakeAll(p) ==
  pc' = [c \in Consumers |-> IF c \in Parked THEN p ELSE pc[c]]

Close ==
  /\ ~closed
  /\ closed' = TRUE
  /\ WakeAll("drain")
  /\ UNCHANGED <<items, notEmpty, ctxDone, taken>>

\* The owner of the context cancels it: parked consumers leave by ctx.Done().
Cancel ==
  /\ ~ctxDone
  /\ ctxDone' = TRUE
  /\ WakeAll("returned")
  /\ taken' = [c \in Consumers |-> IF c \in Parked THEN None ELSE taken[c]]
  /\ UNCHANGED <<items, notEmpty, closed>>

-----------------------------------------------------------------------------
(* The steps of one DequeueWithContext call by consumer c.                 *)

Goto(c, p) == pc' = [pc EXCEPT ![c] = p]

Call(c) ==
  /\ pc[c] = "idle"
  /\ Goto(c, "dequeue")
  /\ UNCHANGED <<items, notEmpty, closed, ctxDone, taken>>

\* Mutant of TakeHead: a closed queue hands nothing out any more.
TakeHeadWhileOpen(c, from) ==
  /\ pc[c] = from
  /\ items # <<>>
  /\ items' = IF closed THEN items ELSE Tail(items)
  /\ taken' = [taken EXCEPT ![c] = IF closed THEN None ELSE Head(items)]
  /\ Goto(c, "returned")
  /\ UNCHANGED <<notEmpty, closed, ctxDone>>

\* Dequeue found an entry: the call returns it.
TakeHead(c, from) ==
  /\ pc[c] = from
  /\ items # <<>>
  /\ items' = Tail(items)
  /\ taken' = [taken EXCEPT ![c] = Head(items)]
  /\ Goto(c, "returned")
  /\ UNCHANGED <<notEmpty, closed, ctxDone>>

FoundEmpty(c) ==
  /\ pc[c] = "dequeue"
  /\ items = <<>>
  /\ Goto(c, "closedCheck")
  /\ UNCHANGED <<items, notEmpty, closed, ctxDone, taken>>

ReturnNil(c) ==
  /\ taken' = [taken EXCEPT ![c] = None]
  /\ Goto(c, "returned")
  /\ UNCHANGED <<items, notEmpty, closed, ctxDone>>

\* Mutant of ClosedCheck: the length is not looked at again under the lock.
ClosedCheckTrustsDequeue(c) ==
  /\ pc[c] = "closedCheck"
  /\ IF closed
     THEN ReturnNil(c)
     ELSE /\ Goto(c, "select")
          /\ UNCHANGED <<items, notEmpty, closed, ctxDone, taken>>

ClosedCheck(c) ==
  /\ pc[c] = "closedCheck"
  /\ IF closed /\ items = <<>>
     THEN ReturnNil(c)
     ELSE /\ Goto(c, "select")
          /\ UNCHANGED <<items, notEmpty, closed, ctxDone, taken>>

\* The select picks any of its ready cases.
SelectCtxDone(c) ==
  /\ pc[c] = "select"
  /\ ctxDone
  /\ ReturnNil(c)

SelectClosed(c) ==
  /\ pc[c] = "select"
  /\ closed
  /\ Goto(c, "drain")
  /\ UNCHANGED <<items, notEmpty, closed, ctxDone, taken>>

SelectNotEmpty(c) ==
  /\ pc[c] = "select"
  /\ notEmpty
  /\ notEmpty' = FALSE
  /\ Goto(c, "dequeue")
  /\ UNCHANGED <<items, closed, ctxDone, taken>>

SelectPark(c) ==
  /\ pc[c] = "select"
  /\ ~ctxDone /\ ~closed /\ ~notEmpty
  /\ Goto(c, "parked")
  /\ UNCHANGED <<items, notEmpty, closed, ctxDone, taken>>

DrainedNil(c) ==
  /\ pc[c] = "drain"
  /\ items = <<>>
  /\ ReturnNil(c)

\* The caller picks the result up.
Return(c) ==
  /\ pc[c] = "returned"
  /\ Goto(c, "idle")
  /\ taken' = [taken EXCEPT ![c] = None]
  /\ UNCHANGED <<items, notEmpty, closed, ctxDone>>

\* Everything a call does on its own between being made and returning.
DequeueStep(c) ==
  \/ TakeHead(c, "dequeue")
  \/ FoundEmpty(c)
  \/ ClosedCheck(c)
  \/ SelectCtxDone(c)
  \/ SelectClosed(c)
  \/ SelectNotEmpty(c)
  \/ SelectPark(c)
  \/ TakeHead(c, "drain")
  \/ DrainedNil(c)

-----------------------------------------------------------------------------
QueueNext ==
  \/ \E e \in Entries : Enqueue(e)
  \/ \E n \in 0..MaxSize : DequeueBatch(n)
  \/ Clear
  \/ Close
  \/ Cancel
  \/ \E c \in Consumers : Call(c) \/ DequeueStep(c) \/ Return(c)

QueueSpec == QueueInit /\ [][QueueNext]_queueVars

\* The Go scheduler runs every runnable goroutine, and the consumers this
\* module is used with (the worker loop) call again after every entry.  Strong
\* fairness of the ctx.Done() case: a select with several ready cases picks one
\* of them at random, so a case that is ready again and again is taken.
QueueFairSpec ==
  /\ QueueSpec
  /\ \A c \in Consumers :
       /\ WF_queueVars(Call(c) \/ DequeueStep(c) \/ Return(c))
       /\ SF_queueVars(SelectCtxDone(c))

-----------------------------------------------------------------------------
QueueTypeOK ==
  /\ items \in Seq(Entries)
  /\ Len(items) <= MaxSize
  /\ notEmpty \in BOOLEAN
  /\ closed \in BOOLEAN
  /\ ctxDone \in BOOLEAN
  /\ pc \in [Consumers -> Positions]
  /\ taken \in [Consumers -> Entries \cup {None}]

\* A consumer at one of these positions will not look at items again before
\* something happens to the select it is in or about to enter.
Asleep == {"closedCheck", "select", "parked"}

\* No lost wakeup: entries never wait in the queue while every consumer is
\* asleep or on its way to sleep, unless the token that will wake one of them
\* is in the channel.  One token stands for any number of entries, so this
\* rests on whoever takes the token coming back to Dequeue until it is empty.
NoLostWakeup ==
  items # <<>> =>
    notEmpty \/ \E c \in Consumers : pc[c] \notin Asleep

\* Nobody sleeps through a shutdown: no consumer is parked once the queue is
\* closed or the context cancelled, or while a token is there to be taken.
NoSleepThroughShutdown ==
  Parked # {} => ~closed /\ ~ctxDone /\ ~notEmpty

\* The contract in the comment of DequeueWithContext: a call returns nil only
\* when the context is cancelled or the queue is closed and empty.
NilOnlyWhenOver ==
  [][\A c \in Consumers :
       pc[c] # "returned" /\ pc'[c] = "returned" /\ taken'[c] = None
         => ctxDone' \/ (closed /\ items = <<>>)]_queueVars

\* Closing loses nothing by itself: the entries still queued at Close are all
\* handed out, cancelled context or not, as long as the consumers keep calling.
DrainedAfterClose == closed ~> items = <<>>

=============================================================================
