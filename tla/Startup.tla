------------------------------ MODULE Startup ------------------------------
(***************************************************************************)
(* How a client comes to be: configuration, discovery of the ingestor and  *)
(* the handshake that gives it a session key (pkg/config, pkg/discovery,   *)
(* pkg/handshake and the constructors of pkg/client and logflux.go).       *)
(*                                                                         *)
(* One goroutine runs a constructor and may run it again when it failed.   *)
(* The network answers as it likes; a handshake whose reply is lost or     *)
(* unreadable has registered the key at the ingestor all the same.         *)
(* Attempt n generates key n.                                              *)
(***************************************************************************)
EXTENDS Integers, FiniteSets

CONSTANTS
  Constructors,  \* the constructors the application calls
  Keys,          \* the API keys it has: records of region and body
  Texts,         \* what a numeric setting may be set to
  Ingestors,     \* base URLs of ingestors
  MaxAttempts    \* bound: calls of a constructor

Nowhere == "nowhere"    \* the empty base URL

VARIABLES
  spc,         \* where the constructor is, then what became of the client
  kind,        \* the client it makes
  attempts,
  config,      \* the configuration in force
  tried,       \* the discovery URLs tried in vain in this attempt
  expired,     \* the deadline they share has passed
  baseURL,     \* endpoints.BaseURL
  secret,      \* handshakeResult.AESKey; ZeroKey once zeroed
  encryptor,   \* the key the client's encryptor holds
  keyUUID,     \* the key id the client holds
  registered   \* the ingestors' records of base URL, key id and key

startVars == <<spc, kind, attempts, config, tried, expired, baseURL, secret,
               encryptor, keyUUID, registered>>

ZeroKey == 0

-----------------------------------------------------------------------------
(* Configuration.                                                          *)

Regions == {"eu", "us", "ca", "au", "ap"}

\* ValidateAPIKey: <region>-lf_<at least one character>.
ValidKey(k) == k.region \in Regions /\ k.body = "lf_body"

Numeral == [x \in {"-1", "0", "1"} |->
              IF x = "-1" THEN -1 ELSE IF x = "0" THEN 0 ELSE 1]

\* A variable that is unset or is not a number leaves its field zero.
EnvInt(t) == IF t \in DOMAIN Numeral THEN Numeral[t] ELSE 0

\* A number that is not positive leaves the default.
Positive(n, default) == IF n > 0 THEN n ELSE default

Defaults == [queueSize |-> 1000, batchSize |-> 100, workers |-> 2, maxRetries |-> 3]

\* The settings the application or the environment may give.
Settings == [{"queueSize", "batchSize", "workers", "maxRetries"} ->
               {EnvInt(t) : t \in Texts}]

\* How Init and the constructor from the environment read their settings; a
\* maxRetries that is not positive cannot be asked for.
Overlay(n) == [f \in DOMAIN Defaults |-> Positive(n[f], Defaults[f])]

\* applyDefaults: everything but the retry configuration.
ApplyDefaults(c) ==
  [f \in DOMAIN c |->
     IF f = "maxRetries" THEN c[f] ELSE Positive(c[f], Defaults[f])]

Resilient == {"resilient", "resilientFromEnv", "init"}
FromEnv == {"clientFromEnv", "resilientFromEnv"}

\* The configuration a resilient client gets; the synchronous one has none.
Configuration(how, n) ==
  CASE how \notin Resilient -> Defaults
    [] how = "resilient" -> ApplyDefaults(n)
    [] OTHER -> ApplyDefaults(Overlay(n))

ASSUME StartupAssumption ==
  /\ MaxAttempts \in Nat
  /\ Nowhere \notin Ingestors
  /\ Constructors \subseteq Resilient \cup {"client", "clientFromEnv"}

StartInit ==
  /\ spc = "idle" /\ kind = "none" /\ attempts = 0
  /\ config = Defaults
  /\ tried = 0 /\ expired = FALSE /\ baseURL = Nowhere
  /\ secret = ZeroKey /\ encryptor = ZeroKey /\ keyUUID = 0
  /\ registered = {}

\* The constructor checks the key, fills in the configuration and either takes
\* the endpoint it was given or goes on to discovery.
Construct(how, key, custom) ==
  /\ spc \in {"idle", "failed"}
  /\ attempts < MaxAttempts
  /\ how \in Constructors
  /\ how \in FromEnv => custom = Nowhere
  /\ attempts' = attempts + 1
  /\ kind' = IF how \in Resilient THEN "resilient" ELSE "sync"
  /\ tried' = 0 /\ expired' = FALSE
  /\ IF ValidKey(key)
     THEN /\ \E n \in Settings : config' = Configuration(how, n)
          /\ baseURL' = custom
          /\ spc' = IF custom = Nowhere THEN "discovering" ELSE "asking"
     ELSE spc' = "failed" /\ UNCHANGED <<config, baseURL>>
  /\ UNCHANGED <<secret, encryptor, keyUUID, registered>>

-----------------------------------------------------------------------------
(* Discovery: the static document of the key's region, then the configured *)
(* gateway, which is the public one, the public one, Europe's and the US's. *)

Urls == 5

DeadlinePasses ==
  /\ spc = "discovering"
  /\ expired' = TRUE
  /\ UNCHANGED <<spc, kind, attempts, config, tried, baseURL, secret, encryptor,
                 keyUUID, registered>>

\* No answer, a bad status, an answer that does not parse or one without
\* ingestor_url: the next URL is tried, after the last the constructor fails.
UrlFails ==
  /\ spc = "discovering"
  /\ tried' = tried + 1
  /\ spc' = IF tried' = Urls THEN "failed" ELSE spc
  /\ UNCHANGED <<kind, attempts, config, expired, baseURL, secret, encryptor,
                 keyUUID, registered>>

\* A gateway, but not the static document, may answer in the legacy format,
\* whose base_url is taken as it is, even when it is empty.
UrlAnswers(base) ==
  /\ spc = "discovering"
  /\ ~expired
  /\ base = Nowhere => tried > 0
  /\ tried' = 0
  /\ baseURL' = base
  /\ spc' = "asking"
  /\ UNCHANGED <<kind, attempts, config, expired, secret, encryptor, keyUUID,
                 registered>>

-----------------------------------------------------------------------------
(* The handshake.                                                          *)

\* No answer (certainly from nowhere), a bad status or no PEM public key.
AskFails ==
  /\ spc = "asking"
  /\ spc' = "failed"
  /\ UNCHANGED <<kind, attempts, config, tried, expired, baseURL, secret, encryptor,
                 keyUUID, registered>>

\* The session key is generated before the public key is parsed, and stays in
\* memory when that fails.
KeyGenerated(usable) ==
  /\ spc = "asking"
  /\ baseURL # Nowhere
  /\ secret' = attempts
  /\ spc' = IF usable THEN "offering" ELSE "failed"
  /\ UNCHANGED <<kind, attempts, config, tried, expired, baseURL, encryptor, keyUUID,
                 registered>>

OfferLost ==
  /\ spc = "offering"
  /\ spc' = "failed"
  /\ UNCHANGED <<kind, attempts, config, tried, expired, baseURL, secret, encryptor,
                 keyUUID, registered>>

\* A blank or missing field of the reply.
Blank == 0

\* GetKeyID: the legacy field counts when the other is blank.
GetKeyID(reply) == IF reply.keyId # Blank THEN reply.keyId ELSE reply.keyUuid

\* The replies an ingestor that gave a key this id may send.
Replies(id) == [keyId : {id, Blank}, keyUuid : {id, Blank}]

\* Mutant of MakeClient: the encryptor shares the key it was given.
MakeClientSharingKey(id) ==
  /\ secret' = ZeroKey
  /\ encryptor' = ZeroKey
  /\ keyUUID' = id

\* The encryptor copies the session key, then the handshake's is zeroed.
MakeClient(id) ==
  /\ encryptor' = secret
  /\ secret' = ZeroKey
  /\ keyUUID' = id

\* The ingestor registers the key; its reply is a readable key id, or it is
\* lost, has a bad status or names no key id, and the constructor fails.
OfferTaken(answered) ==
  /\ spc = "offering"
  /\ LET id == Cardinality(registered) + 1
     IN  /\ registered' = registered \cup {<<baseURL, id, secret>>}
         /\ \E reply \in Replies(id) :
              IF answered /\ GetKeyID(reply) # Blank
              THEN spc' = "ready" /\ MakeClient(GetKeyID(reply))
              ELSE spc' = "failed" /\ UNCHANGED <<secret, encryptor, keyUUID>>
  /\ UNCHANGED <<kind, attempts, config, tried, expired, baseURL>>

StartNext ==
  \/ \E how \in Constructors, key \in Keys, custom \in Ingestors \cup {Nowhere} :
       Construct(how, key, custom)
  \/ DeadlinePasses
  \/ UrlFails
  \/ \E base \in Ingestors \cup {Nowhere} : UrlAnswers(base)
  \/ AskFails
  \/ \E usable \in BOOLEAN : KeyGenerated(usable)
  \/ OfferLost
  \/ \E answered \in BOOLEAN : OfferTaken(answered)

StartSpec == StartInit /\ [][StartNext]_startVars

-----------------------------------------------------------------------------
StartTypeOK ==
  /\ spc \in {"idle", "discovering", "asking", "offering", "ready", "failed", "closed"}
  /\ kind \in {"none", "sync", "resilient"}
  /\ attempts \in 0..MaxAttempts
  /\ config \in [DOMAIN Defaults -> Int]
  /\ tried \in 0..Urls /\ expired \in BOOLEAN
  /\ baseURL \in Ingestors \cup {Nowhere}
  /\ secret \in Nat /\ encryptor \in Nat /\ keyUUID \in Nat
  /\ registered \subseteq (Ingestors \cup {Nowhere}) \X Nat \X Nat

\* Whatever was asked for, a client is only started with a queue, a batch size
\* and a number of workers the queue and the worker pool can work with.
UsableConfiguration ==
  spc = "ready" => \A f \in {"queueSize", "batchSize", "workers"} : config[f] >= 1

\* A new client names its key by the id under which the very ingestor it talks
\* to has registered that key, after however many handshakes that failed, with
\* lost replies, before it.
ClientKeyIsRegistered ==
  spc = "ready" => <<baseURL, keyUUID, encryptor>> \in registered
=============================================================================
