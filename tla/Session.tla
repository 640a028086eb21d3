------------------------------ MODULE Session ------------------------------
(***************************************************************************)
(* The life of the session keys in pkg/client/resilient_client.go and      *)
(* pkg/crypto/crypto.go: goroutines seal entries under the current         *)
(* encryptor while RenewSession replaces it and Close destroys it.         *)
(*                                                                         *)
(* A session is a number: session s has encryptor s, AES key s and key id  *)
(* s.  Encryptor.Close overwrites the key with zeros but leaves the        *)
(* encryptor usable, so sealing with a closed encryptor succeeds, under    *)
(* ZeroKey.  Encryptor.mu makes copying and zeroing the key atomic.        *)
(*                                                                         *)
(* A sealer is in sendMultipart: it grabs encryptor and key id under       *)
(* c.mu, seals the parts one by one without c.mu, and sends.               *)
(***************************************************************************)
EXTENDS Integers

CONSTANTS
  Workers,     \* sealers that Close waits for
  Direct,      \* sealers in SendLogBatch, which Close does not wait for
  Renewers,    \* goroutines in RenewSession
  Closers,     \* goroutines in Close, past its closed check
  MaxParts,    \* bound on the encrypted parts of one request
  MaxSessions  \* bound on the sessions negotiated

Sealers == Workers \cup Direct

ASSUME SessionAssumption ==
  /\ MaxParts \in Nat \ {0}
  /\ MaxSessions \in Nat \ {0}

VARIABLES
  encryptor,  \* c.encryptor
  keyUUID,    \* c.keyUUID
  live,       \* the encryptors whose key has not been zeroed
  issued,     \* how many sessions the server has handed out
  spc,        \* where each sealer is
  using,      \* the encryptor and key id it grabbed
  left,       \* the parts it still has to seal
  body,       \* what it has sealed: pairs <<key id, key>>
  sent,       \* ghost: the sealed parts the server was sent
  npc,        \* where each renewer is
  mine,       \* the session it negotiated, then the one it replaced
  ctxDone,    \* c.ctx is cancelled
  kpc,        \* where each closer is
  doomed      \* the encryptor it is going to zero

renewVars == <<npc, mine>>
closeVars == <<ctxDone, kpc, doomed>>
sealVars == <<spc, using, left, body, sent>>
keyVars == <<encryptor, keyUUID, live, issued>>
sessionVars == <<keyVars, sealVars, renewVars, closeVars>>

Sessions == 1..MaxSessions
ZeroKey == 0

SessionInit ==
  /\ encryptor = 1
  /\ keyUUID = 1
  /\ live = {1}
  /\ issued = 1
  /\ spc = [s \in Sealers |-> "idle"]
  /\ using = [s \in Sealers |-> [enc |-> 1, id |-> 1]]
  /\ left = [s \in Sealers |-> 0]
  /\ body = [s \in Sealers |-> {}]
  /\ sent = {}
  /\ npc = [r \in Renewers |-> "idle"]
  /\ mine = [r \in Renewers |-> 1]
  /\ ctxDone = FALSE
  /\ kpc = [k \in Closers |-> "new"]
  /\ doomed = [k \in Closers |-> 1]

-----------------------------------------------------------------------------
(* buildMultipartBody and sendMultipart.                                   *)

Grab(s, n) ==
  /\ spc[s] = "idle"
  /\ spc' = [spc EXCEPT ![s] = "sealing"]
  /\ using' = [using EXCEPT ![s] = [enc |-> encryptor, id |-> keyUUID]]
  /\ left' = [left EXCEPT ![s] = n]
  /\ body' = [body EXCEPT ![s] = {}]
  /\ UNCHANGED <<sent, keyVars, renewVars, closeVars>>

\* The key EncryptRaw copies out of encryptor e.
KeyIn(e) == IF e \in live THEN e ELSE ZeroKey

\* Mutant of Seal: the loop over the parts runs once too often.
SealOnePartTooMany(s) ==
  /\ spc[s] = "sealing"
  /\ left[s] >= 0
  /\ left' = [left EXCEPT ![s] = @ - 1]
  /\ body' = [body EXCEPT ![s] = @ \cup {<<using[s].id, KeyIn(using[s].enc)>>}]
  /\ UNCHANGED <<spc, using, sent, keyVars, renewVars, closeVars>>

Seal(s) ==
  /\ spc[s] = "sealing"
  /\ left[s] > 0
  /\ left' = [left EXCEPT ![s] = @ - 1]
  /\ body' = [body EXCEPT ![s] = @ \cup {<<using[s].id, KeyIn(using[s].enc)>>}]
  /\ UNCHANGED <<spc, using, sent, keyVars, renewVars, closeVars>>

\* Mutant of Send: the request does not carry the client's context.
SendWithoutContext(s) ==
  /\ spc[s] = "sealing"
  /\ left[s] = 0
  /\ sent' = sent \cup body[s]
  /\ spc' = [spc EXCEPT ![s] = "idle"]
  /\ UNCHANGED <<using, left, body, keyVars, renewVars, closeVars>>

\* The HTTP client sends nothing under a cancelled context.
Send(s) ==
  /\ spc[s] = "sealing"
  /\ left[s] = 0
  /\ sent' = IF ctxDone THEN sent ELSE sent \cup body[s]
  /\ spc' = [spc EXCEPT ![s] = "idle"]
  /\ UNCHANGED <<using, left, body, keyVars, renewVars, closeVars>>

\* A worker that finds the context cancelled returns.
WorkerExits(s) ==
  /\ s \in Workers
  /\ spc[s] = "idle"
  /\ ctxDone
  /\ spc' = [spc EXCEPT ![s] = "exit"]
  /\ UNCHANGED <<using, left, body, sent, keyVars, renewVars, closeVars>>

-----------------------------------------------------------------------------
(* RenewSession.  A failed handshake changes nothing.                      *)

Handshake(r) ==
  /\ npc[r] = "idle"
  /\ issued < MaxSessions
  /\ issued' = issued + 1
  /\ mine' = [mine EXCEPT ![r] = issued + 1]
  /\ live' = live \cup {issued + 1}
  /\ npc' = [npc EXCEPT ![r] = "negotiated"]
  /\ UNCHANGED <<encryptor, keyUUID, sealVars, closeVars>>

\* Mutant of Swap: only the encryptor is replaced under c.mu.
SwapEncryptorOnly(r) ==
  /\ npc[r] = "negotiated"
  /\ encryptor' = mine[r]
  /\ mine' = [mine EXCEPT ![r] = encryptor]
  /\ npc' = [npc EXCEPT ![r] = "swapped"]
  /\ UNCHANGED <<keyUUID, live, issued, sealVars, closeVars>>

\* Mutant of Swap: the encryptor to be zeroed is taken to be the previous
\* session's, not read under c.mu.
SwapGuessingOld(r) ==
  /\ npc[r] = "negotiated"
  /\ encryptor' = mine[r]
  /\ keyUUID' = mine[r]
  /\ mine' = [mine EXCEPT ![r] = @ - 1]
  /\ npc' = [npc EXCEPT ![r] = "swapped"]
  /\ UNCHANGED <<live, issued, sealVars, closeVars>>

Swap(r) ==
  /\ npc[r] = "negotiated"
  /\ encryptor' = mine[r]
  /\ keyUUID' = mine[r]
  /\ mine' = [mine EXCEPT ![r] = encryptor]
  /\ npc' = [npc EXCEPT ![r] = "swapped"]
  /\ UNCHANGED <<live, issued, sealVars, closeVars>>

ZeroOld(r) ==
  /\ npc[r] = "swapped"
  /\ live' = live \ {mine[r]}
  /\ npc' = [npc EXCEPT ![r] = "idle"]
  /\ UNCHANGED <<encryptor, keyUUID, issued, mine, sealVars, closeVars>>

-----------------------------------------------------------------------------
(* Close, from c.cancel() on.                                              *)

CancelClient(k) ==
  /\ kpc[k] = "new"
  /\ kpc' = [kpc EXCEPT ![k] = "joining"]
  /\ ctxDone' = TRUE
  /\ UNCHANGED <<doomed, keyVars, sealVars, renewVars>>

\* c.wg.Wait(), then c.encryptor is read under c.mu.
Join(k) ==
  /\ kpc[k] = "joining"
  /\ \A w \in Workers : spc[w] = "exit"
  /\ kpc' = [kpc EXCEPT ![k] = "zeroing"]
  /\ doomed' = [doomed EXCEPT ![k] = encryptor]
  /\ UNCHANGED <<ctxDone, keyVars, sealVars, renewVars>>

ZeroCurrent(k) ==
  /\ kpc[k] = "zeroing"
  /\ live' = live \ {doomed[k]}
  /\ kpc' = [kpc EXCEPT ![k] = "closed"]
  /\ UNCHANGED <<encryptor, keyUUID, issued, ctxDone, doomed, sealVars, renewVars>>

-----------------------------------------------------------------------------
SessionNext ==
  \/ \E s \in Sealers :
       (\E n \in 1..MaxParts : Grab(s, n)) \/ Seal(s) \/ Send(s) \/ WorkerExits(s)
  \/ \E r \in Renewers : Handshake(r) \/ Swap(r) \/ ZeroOld(r)
  \/ \E k \in Closers : CancelClient(k) \/ Join(k) \/ ZeroCurrent(k)

SessionSpec == SessionInit /\ [][SessionNext]_sessionVars

-----------------------------------------------------------------------------
SessionTypeOK ==
  /\ encryptor \in Nat /\ keyUUID \in Nat /\ issued \in Nat
  /\ live \subseteq Nat
  /\ spc \in [Sealers -> {"idle", "sealing", "exit"}]
  /\ using \in [Sealers -> [enc : Nat, id : Nat]]
  /\ left \in [Sealers -> Nat]
  /\ body \in [Sealers -> SUBSET (Nat \X Nat)]
  /\ sent \in SUBSET (Nat \X Nat)
  /\ npc \in [Renewers -> {"idle", "negotiated", "swapped"}]
  /\ mine \in [Renewers -> Nat]
  /\ ctxDone \in BOOLEAN
  /\ kpc \in [Closers -> {"new", "joining", "zeroing", "closed"}]
  /\ doomed \in [Closers -> Nat]

\* A part is sealed under the key its key id names or, if the encryptor was
\* closed in between, under the zero key: never under another session's key,
\* however renewals and requests interleave.
NeverAnotherSessionsKey ==
  \A s \in Sealers : \A p \in body[s] : p[2] \in {p[1], ZeroKey}

\* The encryptors that a Close has zeroed.
Closed == {doomed[k] : k \in {c \in Closers : kpc[c] = "closed"}}

\* Renewals and Closes leave no key behind: when no renewal is under way, the
\* only encryptor that can still hold its key is the current one, and not even
\* that one once a Close has zeroed it.  A key is alive in a closed client only
\* because a session was swapped in after Close had read the encryptor.
NoStrayKeys ==
  (\A r \in Renewers : npc[r] = "idle") => live \subseteq {encryptor} \ Closed

\* Renewals never destroy the key in use: until a Close zeroes it, the
\* current encryptor has its key.
CurrentKeyIsLive ==
  (\A k \in Closers : kpc[k] # "closed") => encryptor \in live

\* As long as no session was renewed nothing sealed under the zero key is ever
\* sent, not even by a direct sender that Close does not wait for: Close zeroes
\* the key only after it has cancelled the context the request carries.
NothingSentUnderZeroKey ==
  issued = 1 => \A p \in sent : p[2] # ZeroKey

-----------------------------------------------------------------------------
(* What a comment promises and the code does not do.                       *)

\* "The Encryptor must not be used after Close": whatever is sent is sealed
\* under the key its key id names.
SentUnderNamedKey == \A p \in sent : p[2] = p[1]

=============================================================================
