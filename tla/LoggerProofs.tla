---------------------------- MODULE LoggerProofs ----------------------------
(***************************************************************************)
(* Proofs about AsyncLogger and the start of the client below it, for any  *)
(* set of callers, any size of the channel and any number of attempts: the *)
(* configuration is usable, the client's key is the one its ingestor has   *)
(* registered, what reaches the ingestor is readable until Close, and the  *)
(* channel keeps the order of its entries.                                 *)
(***************************************************************************)
EXTENDS AsyncLogger, FiniteSetTheorems, TLAPS

vars == <<startVars, logVars>>

Sized == {"queueSize", "batchSize", "workers"}

\* The configuration is usable from the moment the constructor has filled it
\* in, not only when the client is ready.
ConfigInv ==
  spc \notin {"idle", "failed"} => \A f \in Sized : config[f] \in Int /\ config[f] >= 1

-----------------------------------------------------------------------------
\* Whatever the settings are, the sizes of a configuration are positive.
LEMMA ConfigurationIsUsable ==
  ASSUME NEW how, NEW n \in Settings, NEW f \in Sized
  PROVE  Configuration(how, n)[f] \in Int /\ Configuration(how, n)[f] >= 1
<1>1. DOMAIN Defaults = {"queueSize", "batchSize", "workers", "maxRetries"}
  BY DEF Defaults
<1>2. f \in DOMAIN Defaults /\ f # "maxRetries"
  BY <1>1 DEF Sized
<1>3. Defaults[f] \in Int /\ Defaults[f] >= 1
  BY DEF Defaults, Sized
<1>4. \A t \in Texts : EnvInt(t) \in Int
  BY DEF EnvInt, Numeral
<1>5. DOMAIN n = DOMAIN Defaults /\ n[f] \in Int
  BY <1>1, <1>2, <1>4 DEF Settings
<1>6. \A x \in Int : Positive(x, Defaults[f]) \in Int /\ Positive(x, Defaults[f]) >= 1
  BY <1>3 DEF Positive
<1>7. ApplyDefaults(n)[f] = Positive(n[f], Defaults[f])
  BY <1>2, <1>5 DEF ApplyDefaults
<1>8. /\ DOMAIN Overlay(n) = DOMAIN Defaults
      /\ Overlay(n)[f] = Positive(n[f], Defaults[f])
  BY <1>2 DEF Overlay
<1>9. ApplyDefaults(Overlay(n))[f] = Positive(Overlay(n)[f], Defaults[f])
  BY <1>2, <1>8 DEF ApplyDefaults
<1>10. ApplyDefaults(n)[f] \in Int /\ ApplyDefaults(n)[f] >= 1
  BY <1>5, <1>6, <1>7
<1>11. ApplyDefaults(Overlay(n))[f] \in Int /\ ApplyDefaults(Overlay(n))[f] >= 1
  BY <1>5, <1>6, <1>8, <1>9
<1> QED
  BY <1>3, <1>10, <1>11, Zenon DEF Configuration

\* What the constructor does to the client and to the registered keys: it ends
\* in a usable configuration and a registered key.
LEMMA StartStep ==
  ASSUME StartNext, ConfigInv, ClientKeyIsRegistered
  PROVE  /\ ConfigInv' /\ ClientKeyIsRegistered'
         /\ registered \subseteq registered'
         /\ spc' # "closed"
<1>1. ASSUME NEW how \in Constructors, NEW key \in Keys,
             NEW custom \in Ingestors \cup {Nowhere}, Construct(how, key, custom)
      PROVE  /\ ConfigInv' /\ ClientKeyIsRegistered'
             /\ registered \subseteq registered' /\ spc' # "closed"
  <2>1. CASE ValidKey(key)
    <3>1. /\ \E n \in Settings : config' = Configuration(how, n)
          /\ spc' \in {"discovering", "asking"} /\ UNCHANGED registered
      BY <1>1, <2>1 DEF Construct
    <3>2. ConfigInv'
      BY <3>1, ConfigurationIsUsable DEF ConfigInv
    <3> QED
      BY <3>1, <3>2 DEF ClientKeyIsRegistered
  <2>2. CASE ~ValidKey(key)
    BY <1>1, <2>2 DEF Construct, ConfigInv, ClientKeyIsRegistered
  <2> QED
    BY <2>1, <2>2
<1>2. CASE DeadlinePasses
  BY <1>2 DEF DeadlinePasses, ConfigInv, ClientKeyIsRegistered
<1>3. CASE UrlFails
  BY <1>3 DEF UrlFails, ConfigInv, ClientKeyIsRegistered
<1>4. ASSUME NEW base \in Ingestors \cup {Nowhere}, UrlAnswers(base)
      PROVE  /\ ConfigInv' /\ ClientKeyIsRegistered'
             /\ registered \subseteq registered' /\ spc' # "closed"
  BY <1>4 DEF UrlAnswers, ConfigInv, ClientKeyIsRegistered
<1>5. CASE AskFails
  BY <1>5 DEF AskFails, ConfigInv, ClientKeyIsRegistered
<1>6. ASSUME NEW usable \in BOOLEAN, KeyGenerated(usable)
      PROVE  /\ ConfigInv' /\ ClientKeyIsRegistered'
             /\ registered \subseteq registered' /\ spc' # "closed"
  BY <1>6 DEF KeyGenerated, ConfigInv, ClientKeyIsRegistered
<1>7. CASE OfferLost
  BY <1>7 DEF OfferLost, ConfigInv, ClientKeyIsRegistered
<1>8. ASSUME NEW answered \in BOOLEAN, OfferTaken(answered)
      PROVE  /\ ConfigInv' /\ ClientKeyIsRegistered'
             /\ registered \subseteq registered' /\ spc' # "closed"
  <2> DEFINE id == Cardinality(registered) + 1
  <2>1. registered' = registered \cup {<<baseURL, id, secret>>}
    BY <1>8 DEF OfferTaken
  <2>2. spc = "offering" /\ config' = config /\ baseURL' = baseURL
    BY <1>8 DEF OfferTaken
  <2>3. PICK reply \in Replies(id) :
          IF answered /\ GetKeyID(reply) # Blank
          THEN spc' = "ready" /\ MakeClient(GetKeyID(reply))
          ELSE spc' = "failed" /\ UNCHANGED <<secret, encryptor, keyUUID>>
    BY <1>8 DEF OfferTaken
  <2>4. reply.keyId \in {id, Blank} /\ reply.keyUuid \in {id, Blank}
    BY DEF Replies
  <2>5. GetKeyID(reply) # Blank => GetKeyID(reply) = id
    BY <2>4 DEF GetKeyID
  <2>6. ConfigInv'
    BY <2>2 DEF ConfigInv
  <2> HIDE DEF id
  <2>7. ClientKeyIsRegistered'
    <3>1. CASE answered /\ GetKeyID(reply) # Blank
      BY <2>1, <2>2, <2>3, <2>5, <3>1 DEF ClientKeyIsRegistered, MakeClient
    <3>2. CASE ~(answered /\ GetKeyID(reply) # Blank)
      BY <2>3, <3>2 DEF ClientKeyIsRegistered
    <3> QED
      BY <3>1, <3>2
  <2> QED
    BY <2>1, <2>3, <2>6, <2>7
<1> QED
  BY <1>1, <1>2, <1>3, <1>4, <1>5, <1>6, <1>7, <1>8 DEF StartNext

-----------------------------------------------------------------------------
\* Every part that is sealed or delivered carries a key its ingestor knows, or
\* the zeros a Close has left.
Known(p) == <<p.to, p.id, p.key>> \in registered \/ (done /\ p.key = ZeroKey)

KeysInv ==
  /\ ConfigInv
  /\ ClientKeyIsRegistered
  /\ spc = "closed" => done /\ encryptor = ZeroKey
  /\ \A g \in Goroutines : \A p \in body[g] : Known(p)
  /\ ReadableUnlessClosed
  /\ DOMAIN body = Goroutines

LEMMA KeysInit == LoggerInit => KeysInv
  BY DEF LoggerInit, StartInit, KeysInv, ConfigInv, ClientKeyIsRegistered,
         ReadableUnlessClosed

\* The steps that neither seal nor deliver nor close.
LEMMA KeysUntouched ==
  ASSUME KeysInv, UNCHANGED <<startVars, done, body, delivered>>
  PROVE  KeysInv'
  BY DEF startVars, KeysInv, ConfigInv, ClientKeyIsRegistered, Known,
         ReadableUnlessClosed

LEMMA SealKeepsKeys ==
  ASSUME NEW g \in Goroutines, KeysInv, SealPart(g)
  PROVE  KeysInv'
<1> DEFINE part == [entry |-> Head(todo[g]), to |-> baseURL,
                    id |-> keyUUID, key |-> encryptor]
<1>1. /\ body' = [body EXCEPT ![g] = @ \cup {part}]
      /\ UNCHANGED <<startVars, done, delivered>>
      /\ spc \in {"ready", "closed"}
  BY DEF SealPart, Running
<1>2. Known(part)
  BY <1>1 DEF KeysInv, ClientKeyIsRegistered, Known
<1> HIDE DEF part
<1>3. ASSUME NEW h \in Goroutines, NEW p \in body'[h] PROVE Known(p)
  BY <1>1, <1>2, <1>3 DEF KeysInv
<1> QED
  BY <1>1, <1>3 DEF startVars, KeysInv, ConfigInv, ClientKeyIsRegistered, Known,
                    ReadableUnlessClosed

LEMMA PostKeepsKeys ==
  ASSUME NEW g \in Goroutines, KeysInv, Post(g)
  PROVE  KeysInv'
<1>1. /\ body' = [body EXCEPT ![g] = {}]
      /\ delivered' \subseteq delivered \cup body[g]
      /\ UNCHANGED <<startVars, done>>
  BY DEF Post
<1> QED
  BY <1>1 DEF startVars, KeysInv, ConfigInv, ClientKeyIsRegistered, Known,
              ReadableUnlessClosed

LEMMA CloseKeepsKeys ==
  ASSUME NEW c \in Callers, KeysInv, Close(c)
  PROVE  KeysInv'
<1>1. UNCHANGED <<config, baseURL, keyUUID, registered, body, delivered>>
  BY DEF Close, Calling, sendVars
<1>2. \/ /\ done' = TRUE /\ spc' = "closed" /\ encryptor' = ZeroKey
         /\ spc \in {"ready", "closed"}
      \/ UNCHANGED <<done, spc, encryptor>>
  BY DEF Close, Calling, Running
<1> QED
  BY <1>1, <1>2 DEF KeysInv, ConfigInv, ClientKeyIsRegistered, Known,
                    ReadableUnlessClosed

LEMMA KeysStep ==
  ASSUME KeysInv, [LoggerNext]_vars
  PROVE  KeysInv'
<1>1. CASE StartNext /\ UNCHANGED logVars
  <2>1. /\ ConfigInv' /\ ClientKeyIsRegistered'
        /\ registered \subseteq registered' /\ spc' # "closed"
    BY <1>1, StartStep DEF KeysInv
  <2>2. UNCHANGED <<done, body, delivered>>
    BY <1>1 DEF logVars, sendVars
  <2> QED
    BY <2>1, <2>2 DEF KeysInv, Known, ReadableUnlessClosed
<1>2. ASSUME NEW c \in Callers, CallerStep(c) PROVE KeysInv'
  <2>0. c \in Goroutines
    BY DEF Goroutines
  <2>1. ASSUME NEW m \in Messages, Enqueue(c, m) PROVE KeysInv'
    BY <2>1, KeysUntouched DEF Enqueue, Calling, startVars, sendVars
  <2>2. ASSUME NEW k \in {"send", "fatal"}, NEW m \in Messages, SendDirectly(c, k, m)
        PROVE  KeysInv'
    BY <2>2, KeysUntouched DEF SendDirectly, Calling, Begin, startVars
  <2>3. ASSUME NEW m1 \in Messages, NEW m2 \in Messages, SendBatch(c, m1, m2)
        PROVE  KeysInv'
    BY <2>3, KeysUntouched DEF SendBatch, Calling, Begin, startVars
  <2> QED
    BY <1>2, <2>0, <2>1, <2>2, <2>3, CloseKeepsKeys, SealKeepsKeys, PostKeepsKeys
       DEF CallerStep
<1>3. CASE WorkerStep
  <2>0. Worker \in Goroutines
    BY DEF Goroutines
  <2>1. CASE WorkerTakes
    BY <2>1, KeysUntouched DEF WorkerTakes, Begin
  <2>2. CASE WorkerSeesDone \/ WorkerReturns
    BY <2>2, KeysUntouched DEF WorkerSeesDone, WorkerReturns, sendVars
  <2> QED
    BY <1>3, <2>0, <2>1, <2>2, SealKeepsKeys, PostKeepsKeys DEF WorkerStep
<1>4. CASE UNCHANGED vars
  BY <1>4, KeysUntouched DEF vars, logVars, sendVars
<1> QED
  BY <1>1, <1>2, <1>3, <1>4 DEF LoggerNext

\* Whatever reaches an ingestor was sealed under the key registered there by the
\* id the part names, after any number of failed handshakes, whose replies may
\* have been lost; the one other key it can meet is the zeros of a closed client.
THEOREM DeliveredIsReadable == LoggerSpec => []ReadableUnlessClosed
<1>1. KeysInv => ReadableUnlessClosed
  BY DEF KeysInv
<1> QED
  BY KeysInit, KeysStep, <1>1, PTL DEF LoggerSpec, vars

\* A client that is ready has a queue, a batch size and workers its queue and
\* its worker pool can work with, whatever was asked for.
THEOREM StartedIsUsable == LoggerSpec => []UsableConfiguration
<1>1. KeysInv => UsableConfiguration
  BY DEF KeysInv, ConfigInv, Sized, UsableConfiguration
<1> QED
  BY KeysInit, KeysStep, <1>1, PTL DEF LoggerSpec, vars

\* A client that is ready names its key by the id under which its own ingestor
\* has registered it.
THEOREM ReadyKeyIsRegistered == LoggerSpec => []ClientKeyIsRegistered
<1>1. KeysInv => ClientKeyIsRegistered
  BY DEF KeysInv
<1> QED
  BY KeysInit, KeysStep, <1>1, PTL DEF LoggerSpec, vars

-----------------------------------------------------------------------------
\* The channel and what it is made of: sequences of entries.
OrderInv ==
  /\ made \in [Callers -> 0..MaxCalls]
  /\ buffer \in Seq(Entries)
  /\ accepted \in Seq(Entries)
  /\ attempted \in Seq(Entries)
  /\ InOrder

LEMMA OrderInit == LoggerInit => OrderInv
  BY LoggerAssumption DEF LoggerInit, OrderInv, InOrder

\* A sequence that grows at its end, and one that loses its head to the one
\* before it.
LEMMA AppendConcat ==
  ASSUME attempted \in Seq(Entries), buffer \in Seq(Entries), NEW e \in Entries
  PROVE  Append(attempted \o buffer, e) = attempted \o Append(buffer, e)
  OBVIOUS

LEMMA MoveHead ==
  ASSUME NEW S, NEW s \in Seq(S), NEW t \in Seq(S), t # <<>>
  PROVE  s \o t = Append(s, Head(t)) \o Tail(t)
  OBVIOUS

LEMMA OrderStep ==
  ASSUME OrderInv, [LoggerNext]_vars
  PROVE  OrderInv'
<1> USE LoggerAssumption
<1>1. ASSUME UNCHANGED <<made, buffer, accepted, attempted>> PROVE OrderInv'
  BY <1>1 DEF OrderInv, InOrder
<1>2. ASSUME NEW c \in Callers, NEW k, Calling(c, k) PROVE made' \in [Callers -> 0..MaxCalls]
  BY <1>2 DEF Calling, OrderInv
<1>3. ASSUME NEW c \in Callers, NEW m \in Messages, Enqueue(c, m) PROVE OrderInv'
  <2>1. Single(c, m) \in Entries
    BY <1>3 DEF Enqueue, Calling, Single, Entry, Entries, OrderInv
  <2>2. attempted' = attempted /\ made' \in [Callers -> 0..MaxCalls]
    BY <1>2, <1>3 DEF Enqueue, Calling
  <2>3. CASE Len(buffer) < BufferSize
    <3>1. /\ buffer' = Append(buffer, Single(c, m))
          /\ accepted' = Append(accepted, Single(c, m))
      BY <1>3, <2>3 DEF Enqueue
    <3>2. buffer' \in Seq(Entries) /\ accepted' \in Seq(Entries)
      BY <2>1, <3>1 DEF OrderInv
    <3>3. accepted' = attempted \o buffer'
      <4>1. /\ attempted \in Seq(Entries) /\ buffer \in Seq(Entries)
            /\ accepted = attempted \o buffer
        BY DEF OrderInv, InOrder
      <4>2. \A e \in Entries : Append(attempted \o buffer, e) = attempted \o Append(buffer, e)
        BY ONLY <4>1, AppendConcat
      <4> QED
        BY ONLY <2>1, <3>1, <4>1, <4>2
    <3> QED
      BY <2>2, <3>2, <3>3 DEF OrderInv, InOrder
  <2>4. CASE ~(Len(buffer) < BufferSize)
    BY <1>3, <2>2, <2>4 DEF Enqueue, OrderInv, InOrder
  <2> QED
    BY <2>3, <2>4
<1>4. ASSUME WorkerTakes PROVE OrderInv'
  <2>1. /\ buffer # <<>> /\ buffer' = Tail(buffer)
        /\ attempted' = Append(attempted, Head(buffer))
        /\ UNCHANGED <<made, accepted>>
    BY <1>4 DEF WorkerTakes
  <2>2. Head(buffer) \in Entries /\ Tail(buffer) \in Seq(Entries)
    BY <2>1 DEF OrderInv
  <2>3. attempted' \in Seq(Entries)
    BY <2>1, <2>2 DEF OrderInv
  <2>4. accepted = attempted' \o buffer'
    <3>1. /\ attempted \in Seq(Entries) /\ buffer \in Seq(Entries)
          /\ accepted = attempted \o buffer
      BY DEF OrderInv, InOrder
    <3>2. attempted \o buffer = Append(attempted, Head(buffer)) \o Tail(buffer)
      BY ONLY <2>1, <3>1, MoveHead, Zenon
    <3> QED
      BY ONLY <2>1, <3>1, <3>2
  <2> QED
    BY <2>1, <2>2, <2>3, <2>4 DEF OrderInv, InOrder
<1>5. ASSUME NEW g \in Goroutines, SealPart(g) \/ Post(g) PROVE OrderInv'
  BY <1>1, <1>5 DEF SealPart, Post
<1>6. ASSUME NEW c \in Callers, CallerStep(c) PROVE OrderInv'
  <2>0. c \in Goroutines
    BY DEF Goroutines
  <2>1. ASSUME UNCHANGED <<buffer, accepted, attempted>>,
               made' \in [Callers -> 0..MaxCalls]
        PROVE  OrderInv'
    BY <2>1 DEF OrderInv, InOrder
  <2>2. ASSUME NEW k \in {"send", "fatal"}, NEW m \in Messages, SendDirectly(c, k, m)
        PROVE  OrderInv'
    BY <1>2, <2>1, <2>2 DEF SendDirectly, Calling
  <2>3. ASSUME NEW m1 \in Messages, NEW m2 \in Messages, SendBatch(c, m1, m2)
        PROVE  OrderInv'
    BY <1>2, <2>1, <2>3 DEF SendBatch, Calling
  <2>4. ASSUME Close(c) PROVE OrderInv'
    BY <1>2, <2>1, <2>4 DEF Close, Calling
  <2> QED
    BY <1>3, <1>5, <1>6, <2>0, <2>2, <2>3, <2>4 DEF CallerStep
<1>7. CASE WorkerStep
  <2>0. Worker \in Goroutines
    BY DEF Goroutines
  <2>1. CASE WorkerSeesDone \/ WorkerReturns
    BY <1>1, <2>1 DEF WorkerSeesDone, WorkerReturns
  <2> QED
    BY <1>4, <1>5, <1>7, <2>0, <2>1 DEF WorkerStep
<1>8. CASE StartNext /\ UNCHANGED logVars
  BY <1>1, <1>8 DEF logVars
<1>9. CASE UNCHANGED vars
  BY <1>1, <1>9 DEF vars, logVars
<1> QED
  BY <1>6, <1>7, <1>8, <1>9 DEF LoggerNext

\* Entries leave the channel for the client in the order they were accepted,
\* each exactly once, whether the worker is in its main loop or draining.
THEOREM EntriesKeepTheirOrder == LoggerSpec => []InOrder
<1>1. OrderInv => InOrder
  BY DEF OrderInv
<1> QED
  BY OrderInit, OrderStep, <1>1, PTL DEF LoggerSpec, vars

\* The worker goes when everything the channel has ever accepted was tried and
\* its last request is over: what it leaves behind was logged after that.
THEOREM WorkerLeavesNothing ==
  LoggerSpec =>
    [][wpc # "exit" /\ wpc' = "exit"
         => done /\ attempted = accepted /\ sending[Worker] = "no"]_vars
<1> DEFINE Left == wpc # "exit" /\ wpc' = "exit"
                     => done /\ attempted = accepted /\ sending[Worker] = "no"
<1> DEFINE Draining == wpc = "drain" => done
<1>1. OrderInv /\ Draining /\ [LoggerNext]_vars => [Left]_vars /\ Draining'
  <2> SUFFICES ASSUME OrderInv, Draining, [LoggerNext]_vars PROVE Left /\ Draining'
    OBVIOUS
  <2>1. ASSUME UNCHANGED wpc, done => done' PROVE Left /\ Draining'
    BY <2>1
  <2>2. CASE WorkerReturns
    <3>1. attempted = accepted
      BY <2>2 DEF WorkerReturns, OrderInv, InOrder
    <3> QED
      BY <2>2, <3>1 DEF WorkerReturns
  <2>3. CASE WorkerSeesDone
    BY <2>3 DEF WorkerSeesDone
  <2>4. CASE WorkerTakes \/ UNCHANGED vars \/ (StartNext /\ UNCHANGED logVars)
    BY <2>1, <2>4 DEF WorkerTakes, vars, logVars
  <2>5. ASSUME NEW g \in Goroutines, SealPart(g) \/ Post(g) PROVE Left /\ Draining'
    BY <2>1, <2>5 DEF SealPart, Post
  <2>6. ASSUME NEW c \in Callers, CallerStep(c) PROVE Left /\ Draining'
    <3>1. c \in Goroutines
      BY DEF Goroutines
    <3>2. CASE ~(SealPart(c) \/ Post(c))
      BY <2>1, <2>6, <3>2
         DEF CallerStep, Enqueue, SendDirectly, SendBatch, Close, Calling
    <3> QED
      BY <2>5, <3>1, <3>2
  <2>7. Worker \in Goroutines
    BY DEF Goroutines
  <2> QED
    BY <2>2, <2>3, <2>4, <2>5, <2>6, <2>7 DEF LoggerNext, WorkerStep
<1>2. LoggerInit => Draining
  BY DEF LoggerInit
<1> QED
  BY OrderInit, OrderStep, <1>1, <1>2, PTL DEF LoggerSpec, vars
-----------------------------------------------------------------------------
\* What the type invariant needs to be kept: the ingestors' records are finite,
\* so that there is a next key id; discovery has not run out of URLs; and what
\* a goroutine seals and sends are functions of the goroutines.
StartShape ==
  /\ StartTypeOK
  /\ IsFiniteSet(registered)
  /\ spc = "discovering" => tried < Urls

\* What a goroutine is about to seal, has sealed and is about to send.
Sends(g) ==
  /\ todo[g] \in Seq(Entries)
  /\ sending[g] \in {"no", "send", "fatal"}
  /\ sending[g] = "no" => todo[g] = <<>> /\ body[g] = {}
  /\ \A p \in body[g] : p.entry \in Entries

LoggerShape ==
  /\ LoggerTypeOK
  /\ StartShape
  /\ DOMAIN todo = Goroutines /\ DOMAIN body = Goroutines /\ DOMAIN sending = Goroutines

\* The configuration that a constructor fills in is made of numbers.
LEMMA ConfigurationTyped ==
  ASSUME NEW how, NEW n \in Settings
  PROVE  Configuration(how, n) \in [DOMAIN Defaults -> Int]
<1>1. /\ DOMAIN Defaults = {"queueSize", "batchSize", "workers", "maxRetries"}
      /\ Defaults \in [DOMAIN Defaults -> Int]
  BY DEF Defaults
<1>2. \A t \in Texts : EnvInt(t) \in Int
  BY DEF EnvInt, Numeral
<1>3. n \in [DOMAIN Defaults -> Int]
  BY <1>1, <1>2 DEF Settings
<1>4. \A x, d \in Int : Positive(x, d) \in Int
  BY DEF Positive
<1>5. Overlay(n) \in [DOMAIN Defaults -> Int]
  BY <1>1, <1>3, <1>4 DEF Overlay
<1>6. \A c \in [DOMAIN Defaults -> Int] : ApplyDefaults(c) \in [DOMAIN Defaults -> Int]
  <2> SUFFICES ASSUME NEW c \in [DOMAIN Defaults -> Int]
               PROVE  ApplyDefaults(c) \in [DOMAIN Defaults -> Int]
    OBVIOUS
  <2>1. \A f \in DOMAIN Defaults :
          (IF f = "maxRetries" THEN c[f] ELSE Positive(c[f], Defaults[f])) \in Int
    BY <1>1, <1>4
  <2> QED
    BY <2>1 DEF ApplyDefaults
<1> QED
  BY <1>1, <1>3, <1>5, <1>6, Zenon DEF Configuration

\* Every step of a constructor keeps the types of its state.
LEMMA StartKeepsShape ==
  ASSUME StartShape, StartNext
  PROVE  StartShape'
<1> USE StartupAssumption DEF StartShape, StartTypeOK
<1>1. ASSUME NEW how \in Constructors, NEW key \in Keys,
             NEW custom \in Ingestors \cup {Nowhere}, Construct(how, key, custom)
      PROVE  StartShape'
  <2>1. attempts' \in 0..MaxAttempts
    BY <1>1 DEF Construct
  <2>2. config' \in [DOMAIN Defaults -> Int] /\ baseURL' \in Ingestors \cup {Nowhere}
    BY <1>1, ConfigurationTyped DEF Construct
  <2>3. /\ spc' \in {"failed", "discovering", "asking"}
        /\ kind' \in {"sync", "resilient"} /\ tried' = 0 /\ expired' = FALSE
        /\ UNCHANGED <<secret, encryptor, keyUUID, registered>>
    BY <1>1 DEF Construct
  <2>4. 0 \in 0..Urls
    BY DEF Urls
  <2>5. IsFiniteSet(registered') /\ tried' < Urls
    BY <2>3 DEF Urls
  <2> QED
    BY <2>1, <2>2, <2>3, <2>4, <2>5
<1>2. CASE DeadlinePasses
  BY <1>2 DEF DeadlinePasses
<1>3. CASE UrlFails
  BY <1>3 DEF UrlFails, Urls
<1>4. ASSUME NEW base \in Ingestors \cup {Nowhere}, UrlAnswers(base) PROVE StartShape'
  BY <1>4 DEF UrlAnswers, Urls
<1>5. CASE AskFails
  BY <1>5 DEF AskFails
<1>6. ASSUME NEW usable \in BOOLEAN, KeyGenerated(usable) PROVE StartShape'
  BY <1>6 DEF KeyGenerated
<1>7. CASE OfferLost
  BY <1>7 DEF OfferLost
<1>8. ASSUME NEW answered \in BOOLEAN, OfferTaken(answered) PROVE StartShape'
  <2> DEFINE id == Cardinality(registered) + 1
  <2>1. id \in Nat
    BY FS_CardinalityType
  <2>2. registered' = registered \cup {<<baseURL, id, secret>>}
    BY <1>8 DEF OfferTaken
  <2>3. /\ spc' \in {"ready", "failed"}
        /\ UNCHANGED <<kind, attempts, config, tried, expired, baseURL>>
    BY <1>8 DEF OfferTaken
  <2>4. PICK reply \in Replies(id) :
          IF answered /\ GetKeyID(reply) # Blank
          THEN spc' = "ready" /\ MakeClient(GetKeyID(reply))
          ELSE spc' = "failed" /\ UNCHANGED <<secret, encryptor, keyUUID>>
    BY <1>8 DEF OfferTaken
  <2>5. GetKeyID(reply) \in Nat
    BY <2>1 DEF Replies, GetKeyID, Blank
  <2> HIDE DEF id
  <2>6. secret' \in Nat /\ encryptor' \in Nat /\ keyUUID' \in Nat
    BY <2>4, <2>5 DEF MakeClient, ZeroKey
  <2>7. IsFiniteSet(registered')
    BY <2>2, FS_AddElement
  <2>8. registered' \subseteq (Ingestors \cup {Nowhere}) \X Nat \X Nat
    BY <2>1, <2>2
  <2> QED
    BY <2>3, <2>6, <2>7, <2>8
<1> QED
  BY <1>1, <1>2, <1>3, <1>4, <1>5, <1>6, <1>7, <1>8 DEF StartNext

\* Formatting keeps an entry an entry.
LEMMA EntriesFormatted ==
  ASSUME NEW e \in Entries
  PROVE  [e EXCEPT !.message = Formatted(@)] \in Entries
  BY DEF Entries, Formatted

\* What is left of a batch of entries is a sequence of entries.
LEMMA AdmittedTyped ==
  ASSUME NEW batch \in Seq(Entries), NEW rest \in Admitted(batch)
  PROVE  rest \in Seq(Entries)
<1>1. CASE rest = <<>>
  BY <1>1
<1>2. CASE rest \in Subsequences(batch)
  <2>1. PICK n \in 0..Len(batch) :
          rest \in {[i \in 1..n |-> batch[at[i]]] :
                      at \in {f \in [1..n -> 1..Len(batch)] :
                                \A i, j \in 1..n : i < j => f[i] < f[j]}}
    BY <1>2 DEF Subsequences
  <2>2. PICK at \in [1..n -> 1..Len(batch)] : rest = [i \in 1..n |-> batch[at[i]]]
    BY <2>1
  <2>3. n \in Nat /\ \A i \in 1..n : batch[at[i]] \in Entries
    BY <2>2
  <2> QED
    BY <2>2, <2>3
<1> QED
  BY <1>1, <1>2 DEF Admitted

LEMMA ShapeInit == LoggerInit => LoggerShape
<1> SUFFICES ASSUME LoggerInit PROVE LoggerShape
  OBVIOUS
<1>1. StartShape
  <2>1. Defaults \in [DOMAIN Defaults -> Int]
    BY DEF Defaults
  <2>2. 0 \in 0..MaxAttempts /\ 0 \in 0..Urls /\ IsFiniteSet({})
    BY StartupAssumption, FS_EmptySet DEF Urls
  <2> QED
    BY <2>1, <2>2 DEF LoggerInit, StartInit, StartShape, StartTypeOK, ZeroKey
<1>2. 0 \in 0..MaxCalls /\ Len(<<>>) <= BufferSize
  BY LoggerAssumption
<1>3. /\ \A g \in Goroutines : todo[g] = <<>> /\ body[g] = {} /\ sending[g] = "no"
      /\ DOMAIN todo = Goroutines /\ DOMAIN body = Goroutines
      /\ DOMAIN sending = Goroutines
  BY DEF LoggerInit
<1>4. <<>> \in Seq(Entries)
  OBVIOUS
<1>5. made \in [Callers -> 0..MaxCalls]
  BY <1>2 DEF LoggerInit
<1>6. /\ buffer = <<>> /\ done \in BOOLEAN /\ wpc \in {"select", "drain", "exit"}
      /\ over \in {"no", "exit", "panic"}
  BY DEF LoggerInit
<1> QED
  BY <1>1, <1>2, <1>3, <1>4, <1>5, <1>6 DEF LoggerShape, LoggerTypeOK, StartShape

\* A goroutine that is sending nothing begins with a batch.
LEMMA BeginKeepsSends ==
  ASSUME LoggerShape, NEW g \in Goroutines, sending[g] = "no",
         NEW batch \in Seq(Entries), NEW purpose \in {"send", "fatal"},
         Begin(g, batch, purpose)
  PROVE  /\ \A h \in Goroutines : Sends(h)'
         /\ DOMAIN todo' = Goroutines /\ DOMAIN body' = Goroutines
         /\ DOMAIN sending' = Goroutines
         /\ over' \in {"exit", over}
<1>1. PICK rest \in Admitted(batch) :
        /\ todo' = [todo EXCEPT ![g] = rest]
        /\ sending' = [sending EXCEPT ![g] = IF rest = <<>> THEN "no" ELSE purpose]
        /\ over' = IF rest = <<>> /\ purpose = "fatal" THEN "exit" ELSE over
        /\ UNCHANGED body
  BY DEF Begin
<1>2. rest \in Seq(Entries)
  BY AdmittedTyped
<1>3. Sends(g)'
  BY <1>1, <1>2 DEF LoggerShape, LoggerTypeOK, Sends
<1>4. ASSUME NEW h \in Goroutines \ {g} PROVE Sends(h)'
  BY <1>1, <1>4 DEF LoggerShape, LoggerTypeOK, Sends
<1> QED
  BY <1>1, <1>3, <1>4 DEF LoggerShape

\* A call of the application makes an entry of its own.
LEMMA CallMakesEntries ==
  ASSUME LoggerShape, NEW c \in Callers, NEW call, Calling(c, call),
         NEW m \in Messages \cup {"plain"}, NEW i \in {1, 2}
  PROVE  Entry(c, i, m) \in Entries
<1>1. made[c] \in 0..MaxCalls /\ made[c] < MaxCalls
  BY DEF Calling, LoggerShape, LoggerTypeOK
<1>2. made[c] + 1 \in 1..MaxCalls
  BY <1>1, LoggerAssumption
<1> QED
  BY <1>2 DEF Entry, Entries

\* What neither the constructor nor the channel sees.
LEMMA SealKeepsShape ==
  ASSUME LoggerShape, NEW g \in Goroutines, SealPart(g)
  PROVE  LoggerShape'
<1>1. /\ todo[g] # <<>>
      /\ body' = [body EXCEPT ![g] =
                    @ \cup {[entry |-> Head(todo[g]), to |-> baseURL,
                             id |-> keyUUID, key |-> encryptor]}]
      /\ todo' = [todo EXCEPT ![g] = Tail(@)]
      /\ UNCHANGED <<startVars, buffer, done, wpc, sending, made, over>>
  BY DEF SealPart
<1>2. Head(todo[g]) \in Entries /\ Tail(todo[g]) \in Seq(Entries)
  BY <1>1 DEF LoggerShape, LoggerTypeOK
<1>3. Sends(g)'
  BY <1>1, <1>2 DEF LoggerShape, LoggerTypeOK, Sends
<1>4. \A h \in Goroutines \ {g} : Sends(h)'
  BY <1>1 DEF LoggerShape, LoggerTypeOK, Sends
<1>5. StartShape'
  BY <1>1 DEF startVars, LoggerShape, StartShape, StartTypeOK
<1> QED
  BY <1>1, <1>3, <1>4, <1>5 DEF LoggerShape, LoggerTypeOK, StartShape, Sends

LEMMA PostKeepsShape ==
  ASSUME LoggerShape, NEW g \in Goroutines, Post(g)
  PROVE  LoggerShape'
<1>1. /\ todo[g] = <<>>
      /\ body' = [body EXCEPT ![g] = {}]
      /\ sending' = [sending EXCEPT ![g] = "no"]
      /\ over' \in {"exit", over}
      /\ UNCHANGED <<startVars, buffer, done, wpc, todo, made>>
  BY DEF Post
<1>2. \A h \in Goroutines : Sends(h)'
  BY <1>1 DEF LoggerShape, LoggerTypeOK, Sends
<1>3. StartShape'
  BY <1>1 DEF startVars, LoggerShape, StartShape, StartTypeOK
<1> QED
  BY <1>1, <1>2, <1>3 DEF LoggerShape, LoggerTypeOK, StartShape, Sends

LEMMA CallerKeepsShape ==
  ASSUME LoggerShape, NEW c \in Callers, CallerStep(c)
  PROVE  LoggerShape'
<1>0. /\ c \in Goroutines
      /\ \A g \in Goroutines : Sends(g)
  BY DEF Goroutines, LoggerShape, LoggerTypeOK, Sends
<1>1. ASSUME NEW call, Calling(c, call)
      PROVE  /\ sending[c] = "no" /\ made' \in [Callers -> 0..MaxCalls]
             /\ wpc' = wpc
             /\ UNCHANGED <<kind, attempts, config, tried, expired, baseURL, secret,
                            keyUUID, registered>>
             /\ spc \in {"ready", "closed"}
  BY <1>1, LoggerAssumption DEF Calling, Running, LoggerShape, LoggerTypeOK
<1>2. ASSUME NEW call, Calling(c, call), UNCHANGED <<spc, encryptor>>
      PROVE  StartShape'
  BY <1>1, <1>2 DEF LoggerShape, StartShape, StartTypeOK
<1>3. ASSUME NEW m \in Messages, Enqueue(c, m) PROVE LoggerShape'
  <2>1. Single(c, m) \in Entries
    BY <1>3, CallMakesEntries DEF Enqueue, Single
  <2>2. buffer' \in Seq(Entries) /\ Len(buffer') <= BufferSize
    <3>1. /\ buffer \in Seq(Entries) /\ Len(buffer) <= BufferSize
          /\ Len(buffer) \in Nat /\ BufferSize \in Nat
      BY LoggerAssumption DEF LoggerShape, LoggerTypeOK
    <3>2. \/ buffer' = buffer
          \/ Len(buffer) < BufferSize /\ buffer' = Append(buffer, Single(c, m))
      BY <1>3 DEF Enqueue
    <3> QED
      BY ONLY <2>1, <3>1, <3>2
  <2>3. StartShape' /\ made' \in [Callers -> 0..MaxCalls] /\ wpc' = wpc
    BY <1>1, <1>2, <1>3 DEF Enqueue
  <2>4. UNCHANGED <<done, todo, body, sending, over>>
    BY <1>3 DEF Enqueue, sendVars
  <2> QED
    BY <2>2, <2>3, <2>4 DEF LoggerShape, LoggerTypeOK, StartShape
<1>4. ASSUME NEW call, Calling(c, call),
             NEW batch \in Seq(Entries), NEW purpose \in {"send", "fatal"},
             Begin(c, batch, purpose), UNCHANGED <<spc, encryptor, buffer, done>>
      PROVE  LoggerShape'
  <2>1. /\ \A h \in Goroutines : Sends(h)'
        /\ DOMAIN todo' = Goroutines /\ DOMAIN body' = Goroutines
        /\ DOMAIN sending' = Goroutines
        /\ over' \in {"exit", over}
    BY <1>0, <1>1, <1>4, BeginKeepsSends
  <2>2. StartShape' /\ made' \in [Callers -> 0..MaxCalls] /\ wpc' = wpc
    BY <1>1, <1>2, <1>4
  <2> QED
    BY <1>4, <2>1, <2>2 DEF LoggerShape, LoggerTypeOK, StartShape, Sends
<1>5. ASSUME NEW call \in {"send", "fatal"}, NEW m \in Messages, SendDirectly(c, call, m)
      PROVE  LoggerShape'
  <2>1. Single(c, Formatted(m)) \in Entries
    BY <1>5, CallMakesEntries DEF SendDirectly, Single, Formatted
  <2>2. <<Single(c, Formatted(m))>> \in Seq(Entries)
    BY <2>1
  <2> QED
    BY <1>4, <1>5, <2>2, Zenon DEF SendDirectly
<1>6. ASSUME NEW m1 \in Messages, NEW m2 \in Messages, SendBatch(c, m1, m2)
      PROVE  LoggerShape'
  <2>1. Entry(c, 1, m1) \in Entries /\ Entry(c, 2, m2) \in Entries
    BY <1>6, CallMakesEntries DEF SendBatch
  <2>2. <<Entry(c, 1, m1), Entry(c, 2, m2)>> \in Seq(Entries)
    BY <2>1
  <2> QED
    BY <1>4, <1>6, <2>2, Zenon DEF SendBatch
<1>7. CASE Close(c)
  <2>1. /\ Calling(c, "close")
        /\ \/ over' = "panic" /\ UNCHANGED <<done, spc, encryptor>>
           \/ done' = TRUE /\ spc' = "closed" /\ encryptor' = ZeroKey /\ over' = over
        /\ UNCHANGED <<buffer, todo, body, sending>>
    BY <1>7 DEF Close, sendVars
  <2>2. StartShape'
    BY <1>1, <2>1 DEF LoggerShape, StartShape, StartTypeOK, ZeroKey
  <2>3. made' \in [Callers -> 0..MaxCalls] /\ wpc' = wpc
    BY <1>1, <2>1
  <2> QED
    BY <2>1, <2>2, <2>3 DEF LoggerShape, LoggerTypeOK, StartShape
<1> QED
  BY <1>0, <1>3, <1>5, <1>6, <1>7, SealKeepsShape, PostKeepsShape DEF CallerStep

LEMMA WorkerKeepsShape ==
  ASSUME LoggerShape, WorkerStep
  PROVE  LoggerShape'
<1>0. Worker \in Goroutines
  BY DEF Goroutines
<1>1. CASE WorkerTakes
  <2> DEFINE e == [Head(buffer) EXCEPT !.message = Formatted(@)]
  <2>1. /\ buffer # <<>> /\ buffer' = Tail(buffer) /\ sending[Worker] = "no"
        /\ Begin(Worker, <<e>>, "send")
        /\ UNCHANGED <<startVars, done, wpc, made>>
    BY <1>1 DEF WorkerTakes
  <2>2. /\ Head(buffer) \in Entries /\ buffer' \in Seq(Entries)
        /\ Len(buffer') <= BufferSize
    BY <2>1, LoggerAssumption DEF LoggerShape, LoggerTypeOK
  <2>3. e \in Entries
    BY <2>2, EntriesFormatted
  <2> HIDE DEF e
  <2>4. /\ \A h \in Goroutines : Sends(h)'
        /\ DOMAIN todo' = Goroutines /\ DOMAIN body' = Goroutines
        /\ DOMAIN sending' = Goroutines
        /\ over' \in {"exit", over}
    <3>1. <<e>> \in Seq(Entries)
      BY <2>3
    <3> QED
      BY <1>0, <2>1, <3>1, BeginKeepsSends
  <2>5. StartShape'
    BY <2>1 DEF startVars, LoggerShape, StartShape, StartTypeOK
  <2> QED
    BY <2>1, <2>2, <2>4, <2>5 DEF LoggerShape, LoggerTypeOK, StartShape, Sends
<1>2. CASE WorkerSeesDone \/ WorkerReturns
  <2>1. /\ wpc' \in {"drain", "exit"}
        /\ UNCHANGED <<startVars, buffer, done, todo, body, sending, made, over>>
    BY <1>2 DEF WorkerSeesDone, WorkerReturns, sendVars
  <2>2. StartShape'
    BY <2>1 DEF startVars, LoggerShape, StartShape, StartTypeOK
  <2> QED
    BY <2>1, <2>2 DEF LoggerShape, LoggerTypeOK, StartShape
<1> QED
  BY <1>0, <1>1, <1>2, SealKeepsShape, PostKeepsShape DEF WorkerStep

LEMMA ShapeStep ==
  ASSUME LoggerShape, [LoggerNext]_vars
  PROVE  LoggerShape'
<1>1. CASE StartNext /\ UNCHANGED logVars
  <2>1. StartShape'
    BY <1>1, StartKeepsShape DEF LoggerShape
  <2>2. UNCHANGED <<buffer, done, wpc, todo, body, sending, made, over>>
    BY <1>1 DEF logVars, sendVars
  <2> QED
    BY <2>1, <2>2 DEF LoggerShape, LoggerTypeOK, StartShape
<1>2. CASE UNCHANGED vars
  <2>1. UNCHANGED <<startVars, buffer, done, wpc, todo, body, sending, made, over>>
    BY <1>2 DEF vars, logVars, sendVars
  <2>2. StartShape'
    BY <2>1 DEF startVars, LoggerShape, StartShape, StartTypeOK
  <2> QED
    BY <2>1, <2>2 DEF LoggerShape, LoggerTypeOK, StartShape
<1> QED
  BY <1>1, <1>2, CallerKeepsShape, WorkerKeepsShape DEF LoggerNext

\* The constructor's and the logger's state keep their types: the channel never
\* holds more than it was made for, a key id is a number, and a goroutine that
\* sends nothing holds no entries, sealed or not.
THEOREM LoggerTypeCorrect == LoggerSpec => []LoggerTypeOK
<1>1. LoggerShape => LoggerTypeOK
  BY DEF LoggerShape
<1> QED
  BY ShapeInit, ShapeStep, <1>1, PTL DEF LoggerSpec, vars
=============================================================================
