--------------------------- MODULE SessionProofs ---------------------------
(***************************************************************************)
(* Proofs about Session, for any sets of sealers, renewers and closers and *)
(* any bounds: type correctness, no part sealed under another session's    *)
(* key, no key left behind by renewals, and the current key kept alive.    *)
(*                                                                         *)
(* KeysInv adds to the properties what makes them inductive: encryptor and *)
(* key id change together, a renewer under way holds a session of its own, *)
(* every live key belongs to the client or to such a renewer, and a key    *)
(* that a Close has zeroed stays zeroed.                                   *)
(***************************************************************************)
EXTENDS Session, TLAPS

\* Renewers that hold a session the client does not use (any more).
UnderWay == {r \in Renewers : npc[r] # "idle"}

Paired ==
  /\ encryptor = keyUUID
  /\ \A s \in Sealers : using[s].enc = using[s].id

Accounted == live \subseteq {encryptor} \cup {mine[r] : r \in UnderWay}

\* The sessions the client and the renewers hold are different ones, and no
\* number above issued is in use.
Distinct ==
  /\ encryptor <= issued
  /\ \A r \in UnderWay : mine[r] # encryptor /\ mine[r] <= issued
  /\ \A q, r \in UnderWay : mine[q] = mine[r] => q = r

\* Nobody but a Close zeroes the key of a session not yet swapped in.
FreshAreLive ==
  (\A k \in Closers : kpc[k] # "closed")
    => \A r \in Renewers : npc[r] = "negotiated" => mine[r] \in live

\* What a Close has zeroed stays zeroed, because no session comes twice.
BuriedInv ==
  /\ \A k \in Closers : doomed[k] <= issued
  /\ \A k \in Closers : kpc[k] = "closed" => doomed[k] \notin live

KeysInv ==
  /\ SessionTypeOK
  /\ Paired
  /\ NeverAnotherSessionsKey
  /\ Accounted
  /\ Distinct
  /\ FreshAreLive
  /\ CurrentKeyIsLive
  /\ BuriedInv

-----------------------------------------------------------------------------
LEMMA InitInv == SessionInit => KeysInv
<1> SUFFICES ASSUME SessionInit PROVE KeysInv
  OBVIOUS
<1>1. SessionTypeOK
  <2>1. ctxDone \in BOOLEAN
    BY DEF SessionInit
  <2>2. /\ encryptor = 1 /\ keyUUID = 1 /\ issued = 1 /\ live = {1} /\ sent = {}
        /\ spc = [s \in Sealers |-> "idle"]
        /\ using = [s \in Sealers |-> [enc |-> 1, id |-> 1]]
        /\ left = [s \in Sealers |-> 0]
        /\ body = [s \in Sealers |-> {}]
        /\ npc = [r \in Renewers |-> "idle"]
        /\ mine = [r \in Renewers |-> 1]
        /\ kpc = [k \in Closers |-> "new"]
        /\ doomed = [k \in Closers |-> 1]
    BY DEF SessionInit
  <2> QED
    BY <2>1, <2>2 DEF SessionTypeOK
<1>2. Paired /\ NeverAnotherSessionsKey
  BY DEF SessionInit, Paired, NeverAnotherSessionsKey
<1>3. UnderWay = {}
  BY DEF SessionInit, UnderWay
<1>4. Accounted /\ Distinct /\ FreshAreLive /\ CurrentKeyIsLive
  <2>1. encryptor = 1 /\ issued = 1 /\ live = {1}
    BY DEF SessionInit
  <2>2. FreshAreLive
    BY DEF SessionInit, FreshAreLive
  <2> QED
    BY <1>3, <2>1, <2>2 DEF Accounted, Distinct, CurrentKeyIsLive
<1>5. BuriedInv
  <2>1. issued = 1 /\ \A k \in Closers : doomed[k] = 1 /\ kpc[k] = "new"
    BY DEF SessionInit
  <2> QED
    BY <2>1 DEF BuriedInv
<1> QED
  BY <1>1, <1>2, <1>4, <1>5 DEF KeysInv

LEMMA StepType == SessionTypeOK /\ SessionNext => SessionTypeOK'
<1> SUFFICES ASSUME SessionTypeOK, SessionNext PROVE SessionTypeOK'
  OBVIOUS
<1> USE DEF SessionTypeOK, sealVars, keyVars, renewVars, closeVars
<1>1. ASSUME NEW s \in Sealers, NEW n \in 1..MaxParts, Grab(s, n)
      PROVE  SessionTypeOK'
  BY <1>1, SessionAssumption DEF Grab, SessionAssumption
<1>2. ASSUME NEW s \in Sealers, Seal(s) PROVE SessionTypeOK'
  <2>1. <<using[s].id, KeyIn(using[s].enc)>> \in Nat \X Nat
    BY DEF KeyIn, ZeroKey
  <2>2. body' \in [Sealers -> SUBSET (Nat \X Nat)]
    BY <1>2, <2>1 DEF Seal
  <2> QED
    BY <1>2, <2>2 DEF Seal
<1>3. ASSUME NEW s \in Sealers, Send(s) PROVE SessionTypeOK'
  <2>1. sent' \in SUBSET (Nat \X Nat)
    BY <1>3 DEF Send
  <2> QED
    BY <1>3, <2>1 DEF Send
<1>4. ASSUME NEW s \in Sealers, WorkerExits(s) PROVE SessionTypeOK'
  BY <1>4 DEF WorkerExits
<1>5. ASSUME NEW r \in Renewers, Handshake(r) PROVE SessionTypeOK'
  BY <1>5 DEF Handshake
<1>6. ASSUME NEW r \in Renewers, Swap(r) PROVE SessionTypeOK'
  BY <1>6 DEF Swap
<1>7. ASSUME NEW r \in Renewers, ZeroOld(r) PROVE SessionTypeOK'
  BY <1>7 DEF ZeroOld
<1>8. ASSUME NEW k \in Closers, CancelClient(k) PROVE SessionTypeOK'
  BY <1>8 DEF CancelClient
<1>9. ASSUME NEW k \in Closers, Join(k) PROVE SessionTypeOK'
  BY <1>9 DEF Join
<1>10. ASSUME NEW k \in Closers, ZeroCurrent(k) PROVE SessionTypeOK'
  BY <1>10 DEF ZeroCurrent
<1> QED
  BY <1>1, <1>2, <1>3, <1>4, <1>5, <1>6, <1>7, <1>8, <1>9, <1>10 DEF SessionNext

\* Only Grab, Seal and Swap touch what Paired and NeverAnotherSessionsKey
\* speak of; Grab reads and Swap writes encryptor and key id together.
LEMMA StepPaired ==
  ASSUME SessionTypeOK, Paired, NeverAnotherSessionsKey, SessionNext
  PROVE  Paired' /\ NeverAnotherSessionsKey'
<1> USE DEF SessionTypeOK, Paired, NeverAnotherSessionsKey, sealVars, keyVars,
            renewVars, closeVars
<1>1. ASSUME NEW s \in Sealers, NEW n \in 1..MaxParts, Grab(s, n)
      PROVE  Paired' /\ NeverAnotherSessionsKey'
  BY <1>1 DEF Grab
<1>2. ASSUME NEW s \in Sealers, Seal(s)
      PROVE  Paired' /\ NeverAnotherSessionsKey'
  <2>1. Paired'
    BY <1>2 DEF Seal
  <2>2. KeyIn(using[s].enc) \in {using[s].id, ZeroKey}
    BY DEF KeyIn
  <2>3. ASSUME NEW t \in Sealers, NEW p \in body'[t]
        PROVE  p[2] \in {p[1], ZeroKey}
    <3>1. CASE p \in body[t]
      BY <3>1
    <3>2. CASE p \notin body[t]
      <4>1. t = s /\ p = <<using[s].id, KeyIn(using[s].enc)>>
        BY <1>2, <2>3, <3>2 DEF Seal
      <4> QED
        BY <2>2, <4>1
    <3> QED
      BY <3>1, <3>2
  <2> QED
    BY <2>1, <2>3
<1>3. ASSUME NEW s \in Sealers, Send(s) \/ WorkerExits(s)
      PROVE  Paired' /\ NeverAnotherSessionsKey'
  BY <1>3 DEF Send, WorkerExits
<1>4. ASSUME NEW r \in Renewers, Handshake(r) \/ Swap(r) \/ ZeroOld(r)
      PROVE  Paired' /\ NeverAnotherSessionsKey'
  BY <1>4 DEF Handshake, Swap, ZeroOld
<1>5. ASSUME NEW k \in Closers, CancelClient(k) \/ Join(k) \/ ZeroCurrent(k)
      PROVE  Paired' /\ NeverAnotherSessionsKey'
  BY <1>5 DEF CancelClient, Join, ZeroCurrent
<1> QED
  BY <1>1, <1>2, <1>3, <1>4, <1>5 DEF SessionNext

\* A renewal brings a session nobody holds, exchanges it for the current one,
\* and destroys what it got in exchange.
LEMMA StepKeys ==
  ASSUME SessionTypeOK, Accounted, Distinct, FreshAreLive, CurrentKeyIsLive,
         SessionNext
  PROVE  Accounted' /\ Distinct' /\ CurrentKeyIsLive'
<1> USE DEF SessionTypeOK, Accounted, Distinct, CurrentKeyIsLive, UnderWay,
            sealVars, keyVars, renewVars, closeVars
<1>1. ASSUME NEW s \in Sealers,
             (\E n \in 1..MaxParts : Grab(s, n)) \/ Seal(s) \/ Send(s)
               \/ WorkerExits(s)
      PROVE  Accounted' /\ Distinct' /\ CurrentKeyIsLive'
  <2>1. UNCHANGED <<keyVars, renewVars, closeVars>>
    BY <1>1 DEF Grab, Seal, Send, WorkerExits
  <2> QED
    BY <2>1
<1>2. ASSUME NEW r \in Renewers, Handshake(r)
      PROVE  Accounted' /\ Distinct' /\ CurrentKeyIsLive'
  <2> USE <1>2 DEF Handshake
  <2>1. UnderWay' = UnderWay \cup {r} /\ r \notin UnderWay
    OBVIOUS
  <2>2. mine'[r] = issued + 1 /\ \A q \in UnderWay : mine'[q] = mine[q]
    OBVIOUS
  <2>3. Accounted'
    BY <2>1, <2>2
  <2>4. Distinct'
    BY <2>1, <2>2
  <2>5. CurrentKeyIsLive'
    <3>1. live \subseteq live' /\ encryptor' = encryptor
      OBVIOUS
    <3>2. \A k \in Closers : kpc'[k] = kpc[k]
      OBVIOUS
    <3>3. CASE \A k \in Closers : kpc[k] # "closed"
      BY <3>1, <3>3
    <3>4. CASE \E k \in Closers : kpc[k] = "closed"
      BY <3>2, <3>4
    <3> QED
      BY <3>3, <3>4
  <2> QED
    BY <2>3, <2>4, <2>5
<1>3. ASSUME NEW r \in Renewers, Swap(r)
      PROVE  Accounted' /\ Distinct' /\ CurrentKeyIsLive'
  <2> USE <1>3 DEF Swap
  <2>1. UnderWay' = UnderWay /\ r \in UnderWay
    OBVIOUS
  <2>2. /\ mine'[r] = encryptor /\ encryptor' = mine[r]
        /\ \A q \in UnderWay \ {r} : mine'[q] = mine[q]
    OBVIOUS
  <2>3. Accounted'
    BY <2>1, <2>2
  <2>4. Distinct'
    BY <2>1, <2>2
  <2>5. CurrentKeyIsLive'
    BY DEF FreshAreLive
  <2> QED
    BY <2>3, <2>4, <2>5
<1>4. ASSUME NEW r \in Renewers, ZeroOld(r)
      PROVE  Accounted' /\ Distinct' /\ CurrentKeyIsLive'
  <2>1. UnderWay' = UnderWay \ {r} /\ r \in UnderWay
    BY <1>4 DEF ZeroOld
  <2>2. /\ live' = live \ {mine[r]}
        /\ UNCHANGED <<encryptor, issued, mine, kpc>>
    BY <1>4 DEF ZeroOld
  <2>3. ASSUME NEW e \in live', e # encryptor
        PROVE  \E q \in UnderWay' : e = mine'[q]
    <3>1. e \in live /\ e # mine[r]
      BY <2>2, <2>3
    <3>2. PICK q \in UnderWay : e = mine[q]
      BY <2>3, <3>1
    <3> QED
      BY <2>1, <2>2, <3>1, <3>2
  <2>4. Accounted'
    <3>1. encryptor' = encryptor
      BY <2>2
    <3>2. ASSUME NEW e \in live'
          PROVE  e \in {encryptor'} \cup {mine'[q] : q \in UnderWay'}
      BY <2>3, <3>1
    <3> QED
      BY <3>2
  <2>5. Distinct'
    BY <2>1, <2>2
  <2>6. CurrentKeyIsLive'
    BY <2>1, <2>2
  <2> QED
    BY <2>4, <2>5, <2>6
<1>5. ASSUME NEW k \in Closers, CancelClient(k) \/ Join(k) \/ ZeroCurrent(k)
      PROVE  Accounted' /\ Distinct' /\ CurrentKeyIsLive'
  <2>1. UNCHANGED <<encryptor, issued, mine, npc>> /\ UnderWay' = UnderWay
    BY <1>5 DEF CancelClient, Join, ZeroCurrent
  <2>2. live' \subseteq live
    BY <1>5 DEF CancelClient, Join, ZeroCurrent
  <2>3. Accounted'
    BY <2>1, <2>2
  <2>4. Distinct'
    BY <2>1
  <2>5. CASE ZeroCurrent(k)
    <3>1. kpc'[k] = "closed"
      BY <2>5 DEF ZeroCurrent
    <3> QED
      BY <2>3, <2>4, <3>1 DEF CurrentKeyIsLive
  <2>6. CASE CancelClient(k) \/ Join(k)
    <3>1. live' = live
      BY <2>6 DEF CancelClient, Join
    <3>2. \A j \in Closers : kpc'[j] # "closed" => kpc[j] # "closed"
      BY <2>6 DEF CancelClient, Join
    <3> QED
      BY <2>1, <2>3, <2>4, <3>1, <3>2 DEF CurrentKeyIsLive
  <2> QED
    BY <1>5, <2>5, <2>6
<1> QED
  BY <1>1, <1>2, <1>3, <1>4, <1>5 DEF SessionNext

\* Handshake makes a live key, Swap takes one out of the renewer's hands,
\* ZeroOld zeroes a key no other renewer holds.
LEMMA StepFresh ==
  ASSUME SessionTypeOK, Distinct, FreshAreLive, SessionNext
  PROVE  FreshAreLive'
<1> USE DEF SessionTypeOK, FreshAreLive, sealVars, keyVars, renewVars, closeVars
<1>1. ASSUME NEW s \in Sealers,
             (\E n \in 1..MaxParts : Grab(s, n)) \/ Seal(s) \/ Send(s)
               \/ WorkerExits(s)
      PROVE  FreshAreLive'
  <2>1. UNCHANGED <<live, npc, mine, kpc>>
    BY <1>1 DEF Grab, Seal, Send, WorkerExits
  <2> QED
    BY <2>1
<1>2. ASSUME NEW r \in Renewers, Handshake(r) \/ Swap(r)
      PROVE  FreshAreLive'
  BY <1>2 DEF Handshake, Swap
<1>3. ASSUME NEW r \in Renewers, ZeroOld(r)
      PROVE  FreshAreLive'
  <2>1. /\ live' = live \ {mine[r]} /\ npc[r] = "swapped" /\ npc'[r] = "idle"
        /\ UNCHANGED <<mine, kpc>>
        /\ \A q \in Renewers \ {r} : npc'[q] = npc[q]
    BY <1>3 DEF ZeroOld
  <2>2. \A q \in Renewers : npc[q] = "negotiated" => mine[q] # mine[r]
    BY <2>1 DEF Distinct, UnderWay
  <2> QED
    BY <2>1, <2>2
<1>4. ASSUME NEW k \in Closers, CancelClient(k) \/ Join(k)
      PROVE  FreshAreLive'
  <2>1. UNCHANGED <<live, npc, mine>>
    BY <1>4 DEF CancelClient, Join
  <2>2. \A j \in Closers : kpc'[j] # "closed" => kpc[j] # "closed"
    BY <1>4 DEF CancelClient, Join
  <2> QED
    BY <2>1, <2>2
<1>5. ASSUME NEW k \in Closers, ZeroCurrent(k)
      PROVE  FreshAreLive'
  <2>1. kpc'[k] = "closed"
    BY <1>5 DEF ZeroCurrent
  <2> QED
    BY <2>1
<1> QED
  BY <1>1, <1>2, <1>3, <1>4, <1>5 DEF SessionNext

\* Only Handshake makes a key, of a number never used; Join takes the number of
\* the current session.
LEMMA StepBuried ==
  ASSUME SessionTypeOK, Distinct, BuriedInv, SessionNext
  PROVE  BuriedInv'
<1> USE DEF SessionTypeOK, BuriedInv, sealVars, keyVars, renewVars, closeVars
<1>1. ASSUME NEW s \in Sealers,
             (\E n \in 1..MaxParts : Grab(s, n)) \/ Seal(s) \/ Send(s)
               \/ WorkerExits(s)
      PROVE  BuriedInv'
  <2>1. UNCHANGED <<live, issued, kpc, doomed>>
    BY <1>1 DEF Grab, Seal, Send, WorkerExits
  <2> QED
    BY <2>1
<1>2. ASSUME NEW r \in Renewers, Handshake(r) PROVE BuriedInv'
  BY <1>2 DEF Handshake
<1>3. ASSUME NEW r \in Renewers, Swap(r) \/ ZeroOld(r) PROVE BuriedInv'
  <2>1. live' \subseteq live /\ UNCHANGED <<issued, kpc, doomed>>
    BY <1>3 DEF Swap, ZeroOld
  <2> QED
    BY <2>1
<1>4. ASSUME NEW k \in Closers, CancelClient(k) PROVE BuriedInv'
  BY <1>4 DEF CancelClient
<1>5. ASSUME NEW k \in Closers, Join(k) PROVE BuriedInv'
  BY <1>5 DEF Join, Distinct
<1>6. ASSUME NEW k \in Closers, ZeroCurrent(k) PROVE BuriedInv'
  BY <1>6 DEF ZeroCurrent
<1> QED
  BY <1>1, <1>2, <1>3, <1>4, <1>5, <1>6 DEF SessionNext

LEMMA StepInv == KeysInv /\ [SessionNext]_sessionVars => KeysInv'
<1> SUFFICES ASSUME KeysInv, [SessionNext]_sessionVars PROVE KeysInv'
  OBVIOUS
<1>1. CASE SessionNext
  BY <1>1, StepType, StepPaired, StepKeys, StepFresh, StepBuried DEF KeysInv
<1>2. CASE UNCHANGED sessionVars
  BY <1>2 DEF KeysInv, SessionTypeOK, Paired, NeverAnotherSessionsKey,
              Accounted, Distinct, FreshAreLive, CurrentKeyIsLive, UnderWay,
              BuriedInv, sessionVars,
              sealVars, keyVars, renewVars, closeVars
<1> QED
  BY <1>1, <1>2

LEMMA SpecInv == SessionSpec => []KeysInv
  BY InitInv, StepInv, PTL DEF SessionSpec

-----------------------------------------------------------------------------
\* Until a session is negotiated there is one encryptor; its key is intact, and
\* so is everything sealed with it, as long as the context is alive.
OneKey ==
  /\ encryptor = 1
  /\ \A r \in Renewers : npc[r] = "idle"
  /\ \A s \in Sealers : using[s].enc = 1
  /\ \A k \in Closers : kpc[k] # "new" => ctxDone
  /\ ~ctxDone => 1 \in live
  /\ ~ctxDone => \A s \in Sealers : \A p \in body[s] : p[2] # ZeroKey
  /\ \A p \in sent : p[2] # ZeroKey

OneKeyInv == issued >= 1 /\ (issued = 1 => OneKey)

LEMMA OneKeyInit == SessionInit => OneKeyInv
  BY DEF SessionInit, OneKeyInv, OneKey

LEMMA OneKeyStep ==
  ASSUME SessionTypeOK, OneKeyInv, SessionNext
  PROVE  OneKeyInv'
<1>1. issued' >= issued
  <2> USE DEF SessionTypeOK, keyVars
  <2>1. ASSUME NEW s \in Sealers,
               (\E n \in 1..MaxParts : Grab(s, n)) \/ Seal(s) \/ Send(s)
                 \/ WorkerExits(s)
        PROVE  issued' >= issued
    BY <2>1 DEF Grab, Seal, Send, WorkerExits
  <2>2. ASSUME NEW r \in Renewers, Handshake(r) \/ Swap(r) \/ ZeroOld(r)
        PROVE  issued' >= issued
    BY <2>2 DEF Handshake, Swap, ZeroOld
  <2>3. ASSUME NEW k \in Closers, CancelClient(k) \/ Join(k) \/ ZeroCurrent(k)
        PROVE  issued' >= issued
    BY <2>3 DEF CancelClient, Join, ZeroCurrent
  <2> QED
    BY <2>1, <2>2, <2>3 DEF SessionNext
<1>2. issued' \in Nat /\ issued \in Nat
  BY StepType DEF SessionTypeOK
<1> SUFFICES ASSUME issued = 1, issued' = 1, OneKey PROVE OneKey'
  BY <1>1, <1>2 DEF OneKeyInv
<1> USE DEF SessionTypeOK, OneKey, sealVars, keyVars, renewVars, closeVars
<1>3. ASSUME NEW s \in Sealers, NEW n \in 1..MaxParts, Grab(s, n)
      PROVE  OneKey'
  BY <1>3 DEF Grab
<1>4. ASSUME NEW s \in Sealers, Seal(s) PROVE OneKey'
  <2>1. UNCHANGED <<encryptor, npc, using, kpc, ctxDone, live, sent>>
    BY <1>4 DEF Seal
  <2>2. ~ctxDone => KeyIn(using[s].enc) # ZeroKey
    BY DEF KeyIn, ZeroKey
  <2>3. ASSUME ~ctxDone, NEW t \in Sealers, NEW p \in body'[t]
        PROVE  p[2] # ZeroKey
    BY <1>4, <2>2, <2>3 DEF Seal
  <2> QED
    BY <2>1, <2>3
<1>5. ASSUME NEW s \in Sealers, Send(s) PROVE OneKey'
  <2>1. UNCHANGED <<encryptor, npc, using, kpc, ctxDone, live, body>>
    BY <1>5 DEF Send
  <2>2. \A p \in sent' : p[2] # ZeroKey
    BY <1>5 DEF Send
  <2> QED
    BY <2>1, <2>2
<1>6. ASSUME NEW s \in Sealers, WorkerExits(s) PROVE OneKey'
  BY <1>6 DEF WorkerExits
\* No renewal is under way, and a new one would raise issued.
<1>7. ASSUME NEW r \in Renewers, Handshake(r) \/ Swap(r) \/ ZeroOld(r)
      PROVE  OneKey'
  BY <1>7 DEF Handshake, Swap, ZeroOld
<1>8. ASSUME NEW k \in Closers, CancelClient(k) \/ Join(k) \/ ZeroCurrent(k)
      PROVE  OneKey'
  <2>1. UNCHANGED <<encryptor, npc, using, body, sent>>
    BY <1>8 DEF CancelClient, Join, ZeroCurrent
  <2>2. ctxDone'
    BY <1>8 DEF CancelClient, Join, ZeroCurrent
  <2> QED
    BY <2>1, <2>2
<1> QED
  BY <1>3, <1>4, <1>5, <1>6, <1>7, <1>8 DEF SessionNext

LEMMA SpecOneKey == SessionSpec => []OneKeyInv
<1>1. KeysInv /\ OneKeyInv /\ [SessionNext]_sessionVars => OneKeyInv'
  <2> SUFFICES ASSUME KeysInv, OneKeyInv, [SessionNext]_sessionVars
               PROVE  OneKeyInv'
    OBVIOUS
  <2>1. CASE SessionNext
    BY <2>1, OneKeyStep DEF KeysInv
  <2>2. CASE UNCHANGED sessionVars
    BY <2>2 DEF OneKeyInv, OneKey, sessionVars, sealVars, keyVars, renewVars,
                closeVars
  <2> QED
    BY <2>1, <2>2
<1> QED
  BY <1>1, OneKeyInit, SpecInv, PTL DEF SessionSpec

-----------------------------------------------------------------------------
\* Every variable keeps its type.
THEOREM SessionTypeCorrect == SessionSpec => []SessionTypeOK
<1>1. KeysInv => SessionTypeOK
  BY DEF KeysInv
<1> QED
  BY <1>1, SpecInv, PTL

\* As long as no session was renewed, nothing sealed under the zeroed key is
\* ever sent.
THEOREM CloseSendsNoZeroKey == SessionSpec => []NothingSentUnderZeroKey
<1>1. OneKeyInv => NothingSentUnderZeroKey
  BY DEF OneKeyInv, OneKey, NothingSentUnderZeroKey
<1> QED
  BY <1>1, SpecOneKey, PTL

\* No part is ever sealed under the key of a session other than the one its
\* key id names.
THEOREM KeysAreNotMixedUp == SessionSpec => []NeverAnotherSessionsKey
<1>1. KeysInv => NeverAnotherSessionsKey
  BY DEF KeysInv
<1> QED
  BY <1>1, SpecInv, PTL

\* Any number of concurrent renewals leaves at most the current key alive, and
\* not even that one behind a Close that zeroed it.
THEOREM RenewalsCleanUp == SessionSpec => []NoStrayKeys
<1>1. KeysInv => NoStrayKeys
  BY DEF KeysInv, Accounted, UnderWay, BuriedInv, Closed,
         NoStrayKeys
<1> QED
  BY <1>1, SpecInv, PTL

\* No renewal destroys the key in use.
THEOREM RenewalsKeepCurrentKey == SessionSpec => []CurrentKeyIsLive
<1>1. KeysInv => CurrentKeyIsLive
  BY DEF KeysInv
<1> QED
  BY <1>1, SpecInv, PTL
=============================================================================
