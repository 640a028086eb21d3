---------------------------- MODULE AsyncLogger ----------------------------
(***************************************************************************)
(* pkg/logger on top of the synchronous client of pkg/client/client.go,    *)
(* which Startup has made: a buffered channel, the worker that empties it, *)
(* and goroutines that use logger and client directly at the same time.    *)
(*                                                                         *)
(* The client has no closed flag: Close zeroes the key, and what is sealed *)
(* afterwards is sealed under ZeroKey.  X-RateLimit values, which nothing  *)
(* reads, and the wording of messages are left out.                        *)
(***************************************************************************)
EXTENDS Startup, Batches

CONSTANTS
  Callers,     \* application goroutines
  Calls,       \* what they call: log, send, batch, fatal, close
  Messages,    \* kinds of messages: plain, empty, huge
  Prefixed,    \* the logger has a prefix
  BufferSize,  \* the capacity of logChan
  MaxCalls     \* bound: calls of each goroutine

Worker == "worker"
Goroutines == Callers \cup {Worker}

VARIABLES
  buffer,    \* logChan
  done,      \* the done channel is closed
  wpc,       \* where the worker is in its two loops
  todo,      \* the entries a goroutine still has to seal
  body,      \* the parts it has sealed
  sending,   \* it is in SendEntry or SendLogBatch, of Fatal perhaps
  made,      \* how many calls it has made
  over,      \* how the process has ended, if it has
  accepted,  \* ghost: the entries put into logChan, in order
  attempted, \* ghost: the entries the worker has tried to send, in order
  delivered  \* ghost: the parts ingestors have accepted

sendVars == <<todo, body, sending>>
logVars == <<buffer, done, wpc, sendVars, made, over, accepted, attempted,
             delivered>>

ASSUME LoggerAssumption ==
  /\ BufferSize \in Nat \ {0}
  /\ MaxCalls \in Nat
  /\ Worker \notin Callers
  /\ Calls \subseteq {"log", "send", "batch", "fatal", "close"}
  /\ Messages \subseteq {"plain", "empty", "huge"}

\* An entry: the call it comes from, its place in it and its message.
Entry(c, i, m) == [caller |-> c, call |-> made[c] + 1, part |-> i, message |-> m]

Single(c, m) == Entry(c, 1, m)

LoggerInit ==
  /\ StartInit
  /\ buffer = <<>> /\ done = FALSE /\ wpc = "select"
  /\ todo = [g \in Goroutines |-> <<>>]
  /\ body = [g \in Goroutines |-> {}]
  /\ sending = [g \in Goroutines |-> "no"]
  /\ made = [c \in Callers |-> 0]
  /\ over = "no"
  /\ accepted = <<>> /\ attempted = <<>> /\ delivered = {}

\* Logger and client exist and the process lives.
Running == kind = "sync" /\ spc \in {"ready", "closed"} /\ over = "no"

-----------------------------------------------------------------------------
(* The synchronous client: SendEntry, SendLogBatch, doIngest.              *)

\* validateEntry, as far as the logger can fail it.
Valid(m) == m = "plain"

\* formatMessage: a prefix makes an empty message valid.
Formatted(m) == IF Prefixed /\ m = "empty" THEN "plain" ELSE m

\* What may be left of a batch once it is validated and before_send has seen
\* it: nothing if any message is invalid, else what before_send kept.
Admitted(batch) ==
  IF \E i \in DOMAIN batch : ~Valid(batch[i].message) THEN {<<>>}
  ELSE Subsequences(batch)

\* g enters SendEntry or SendLogBatch, from Fatal or not; when there is nothing
\* to send it returns, and Fatal ends the process.
Begin(g, batch, purpose) ==
  \E rest \in Admitted(batch) :
    /\ todo' = [todo EXCEPT ![g] = rest]
    /\ sending' = [sending EXCEPT ![g] = IF rest = <<>> THEN "no" ELSE purpose]
    /\ over' = IF rest = <<>> /\ purpose = "fatal" THEN "exit" ELSE over
    /\ UNCHANGED body

\* multipartBuilder seals one part after the other, each with the key the
\* encryptor has at that moment.
SealPart(g) ==
  /\ Running
  /\ todo[g] # <<>>
  /\ body' = [body EXCEPT ![g] =
                @ \cup {[entry |-> Head(todo[g]), to |-> baseURL,
                         id |-> keyUUID, key |-> encryptor]}]
  /\ todo' = [todo EXCEPT ![g] = Tail(@)]
  /\ UNCHANGED <<startVars, buffer, done, wpc, sending, made, over, accepted,
                 attempted, delivered>>

\* The exchange: the ingestor takes the request or not, and the caller hears
\* an error or not, which only Fatal does not go on after.
Post(g) ==
  /\ Running
  /\ sending[g] # "no" /\ todo[g] = <<>>
  /\ \/ delivered' = delivered \cup body[g]
     \/ UNCHANGED delivered
  /\ body' = [body EXCEPT ![g] = {}]
  /\ sending' = [sending EXCEPT ![g] = "no"]
  /\ over' = IF sending[g] = "fatal" THEN "exit" ELSE over
  /\ UNCHANGED <<startVars, buffer, done, wpc, todo, made, accepted, attempted>>

-----------------------------------------------------------------------------
(* The application.                                                        *)

\* c makes a call.
Calling(c, call) ==
  /\ Running
  /\ sending[c] = "no"
  /\ made[c] < MaxCalls
  /\ call \in Calls
  /\ made' = [made EXCEPT ![c] = @ + 1]
  /\ UNCHANGED <<kind, attempts, config, tried, expired, baseURL, secret, keyUUID,
                 registered, wpc, attempted, delivered>>

\* Mutant of Enqueue: a full buffer loses its oldest entry.
EnqueueDroppingOldest(c, m) ==
  /\ Calling(c, "log")
  /\ buffer' = Append(IF Len(buffer) < BufferSize THEN buffer ELSE Tail(buffer),
                      Single(c, m))
  /\ accepted' = Append(accepted, Single(c, m))
  /\ UNCHANGED <<spc, encryptor, done, sendVars, over>>

\* Mutant of Enqueue: the channel takes one more than it was made for.
EnqueueOneTooMany(c, m) ==
  /\ Calling(c, "log")
  /\ IF Len(buffer) <= BufferSize
     THEN /\ buffer' = Append(buffer, Single(c, m))
          /\ accepted' = Append(accepted, Single(c, m))
     ELSE UNCHANGED <<buffer, accepted>>
  /\ UNCHANGED <<spc, encryptor, done, sendVars, over>>

\* AsyncLogger.Log and its kind never wait: what does not fit is dropped.
\* They take no notice of Close.
Enqueue(c, m) ==
  /\ Calling(c, "log")
  /\ IF Len(buffer) < BufferSize
     THEN /\ buffer' = Append(buffer, Single(c, m))
          /\ accepted' = Append(accepted, Single(c, m))
     ELSE UNCHANGED <<buffer, accepted>>
  /\ UNCHANGED <<spc, encryptor, done, sendVars, over>>

\* Logger.Log and its kind, and AsyncLogger.Fatal, which is Logger.Fatal.
SendDirectly(c, call, m) ==
  /\ call \in {"send", "fatal"}
  /\ Calling(c, call)
  /\ Begin(c, <<Single(c, Formatted(m))>>, call)
  /\ UNCHANGED <<spc, encryptor, buffer, done, accepted>>

\* Client.SendLogBatch, which knows nothing of the prefix.
SendBatch(c, m1, m2) ==
  /\ Calling(c, "batch")
  /\ Begin(c, <<Entry(c, 1, m1), Entry(c, 2, m2)>>, "send")
  /\ UNCHANGED <<spc, encryptor, buffer, done, accepted>>

\* AsyncLogger.Close.  The channel can be closed only once: a second Close
\* panics.  Client.Close zeroes the key at once.
Close(c) ==
  /\ Calling(c, "close")
  /\ IF done
     THEN over' = "panic" /\ UNCHANGED <<done, spc, encryptor>>
     ELSE /\ done' = TRUE
          /\ spc' = "closed" /\ encryptor' = ZeroKey
          /\ UNCHANGED over
  /\ UNCHANGED <<buffer, sendVars, accepted>>

-----------------------------------------------------------------------------
(* The worker.                                                             *)

\* It receives an entry, in either loop, and goes into sendEntry with it.
WorkerTakes ==
  /\ Running
  /\ wpc \in {"select", "drain"}
  /\ sending[Worker] = "no"
  /\ buffer # <<>>
  /\ buffer' = Tail(buffer)
  /\ Begin(Worker, <<[Head(buffer) EXCEPT !.message = Formatted(@)]>>, "send")
  /\ attempted' = Append(attempted, Head(buffer))
  /\ UNCHANGED <<startVars, done, wpc, made, accepted, delivered>>

\* Mutant of WorkerSeesDone: it returns without draining the channel.
WorkerSeesDoneAndQuits ==
  /\ Running
  /\ wpc = "select" /\ sending[Worker] = "no"
  /\ done
  /\ wpc' = "exit"
  /\ UNCHANGED <<startVars, buffer, done, sendVars, made, over, accepted,
                 attempted, delivered>>

\* The select picks done, though there may be entries as well.
WorkerSeesDone ==
  /\ Running
  /\ wpc = "select" /\ sending[Worker] = "no"
  /\ done
  /\ wpc' = "drain"
  /\ UNCHANGED <<startVars, buffer, done, sendVars, made, over, accepted,
                 attempted, delivered>>

\* It leaves when it finds the channel empty.
WorkerReturns ==
  /\ Running
  /\ wpc = "drain" /\ sending[Worker] = "no"
  /\ buffer = <<>>
  /\ wpc' = "exit"
  /\ UNCHANGED <<startVars, buffer, done, sendVars, made, over, accepted,
                 attempted, delivered>>

WorkerStep ==
  \/ WorkerTakes
  \/ WorkerSeesDone
  \/ WorkerReturns
  \/ SealPart(Worker)
  \/ Post(Worker)

CallerStep(c) ==
  \/ \E m \in Messages : Enqueue(c, m)
  \/ \E call \in {"send", "fatal"}, m \in Messages : SendDirectly(c, call, m)
  \/ \E m1, m2 \in Messages : SendBatch(c, m1, m2)
  \/ Close(c)
  \/ SealPart(c)
  \/ Post(c)

LoggerNext ==
  \/ StartNext /\ UNCHANGED logVars
  \/ WorkerStep
  \/ \E c \in Callers : CallerStep(c)

LoggerSpec == LoggerInit /\ [][LoggerNext]_<<startVars, logVars>>

\* The scheduler runs the worker; http.Client's timeout ends an exchange.
FairLoggerSpec == LoggerSpec /\ WF_<<startVars, logVars>>(WorkerStep)

-----------------------------------------------------------------------------
Entries == [caller : Callers, call : 1..MaxCalls, part : {1, 2},
            message : Messages \cup {"plain"}]

LoggerTypeOK ==
  /\ StartTypeOK
  /\ buffer \in Seq(Entries) /\ Len(buffer) <= BufferSize
  /\ done \in BOOLEAN
  /\ wpc \in {"select", "drain", "exit"}
  /\ \A g \in Goroutines :
       /\ todo[g] \in Seq(Entries)
       /\ sending[g] \in {"no", "send", "fatal"}
       /\ sending[g] = "no" => todo[g] = <<>> /\ body[g] = {}
       /\ \A p \in body[g] : p.entry \in Entries
  /\ made \in [Callers -> 0..MaxCalls]
  /\ over \in {"no", "exit", "panic"}

\* Entries leave the channel for the client in the order they were accepted,
\* each exactly once, whether the worker was in its main loop or draining.
InOrder == accepted = attempted \o buffer

\* Whatever reached an ingestor was sealed under the key it has registered by the
\* id the part names, or, once the logger has been closed, under ZeroKey: never
\* under the key of a failed handshake.
ReadableUnlessClosed ==
  \A p \in delivered :
    <<p.to, p.id, p.key>> \in registered \/ (done /\ p.key = ZeroKey)

\* Every entry the channel accepted before the worker left is tried, also when
\* the logger is closed meanwhile, unless the process ends first.
AcceptedIsAttempted ==
  \A c \in Callers : \A n \in 1..MaxCalls :
    (wpc # "exit" /\ \E i \in DOMAIN buffer : buffer[i].caller = c /\ buffer[i].call = n)
      ~> (over # "no" \/ \E i \in DOMAIN attempted :
                            attempted[i].caller = c /\ attempted[i].call = n)

-----------------------------------------------------------------------------
(* What a comment promises and the code does not do: it is violated.       *)

\* "Close closes the async logger and waits for all messages to be sent".
CloseWaits == done => buffer = <<>> /\ sending[Worker] = "no"
=============================================================================
