-------------------------------- MODULE Sdk --------------------------------
(***************************************************************************)
(* The package-level SDK: logflux.go, scope.go, span.go and the parts of   *)
(* pkg/payload they use.  Application goroutines make capture calls while  *)
(* others initialise the package, close the client or write to spans and   *)
(* scopes.                                                                 *)
(*                                                                         *)
(* Every capture function is the same pipeline with stages left out or in  *)
(* another order, so a function is modelled by its route, the sequence of  *)
(* its stages, and a stage by an action.  Each stage is what the function  *)
(* does between two locks.  The n-th Init brings generation n of the       *)
(* client, hooks, sampler, breadcrumb ring and payload context; 0 is nil.  *)
(*                                                                         *)
(* A client is modelled by what ResilientClient promises a sender: an open *)
(* one accepts an entry or counts it as dropped, a closed one refuses it.  *)
(*                                                                         *)
(* Maps are where goroutines meet without a lock: a payload keeps the map  *)
(* its caller passed, a breadcrumb keeps it for later errors.  Every call  *)
(* that takes a map gets one of its own, named like the call, which the    *)
(* application may write at any moment.                                    *)
(***************************************************************************)
EXTENDS Breadcrumb, FiniteSets

CONSTANTS
  Goroutines,       \* application goroutines making the calls below
  Kinds,            \* the functions they call
  Spans,            \* spans started and not yet ended when the calls begin
  MaxCalls,         \* bound: calls of each goroutine
  MaxInits,         \* bound: initialisations
  Earlier           \* a breadcrumb the scope had before it was shared

Gens == 1..MaxInits

\* The ring of the scope the goroutines share, beside those of the package.
ScopeRing == MaxInits + 1


VARIABLES
  locked,        \* an Init holds globalMu for writing
  inits,         \* how many Inits have locked it
  globalClient, hooks, sampler, breadcrumbs,
  globalCtx,     \* the payload context, which has a lock of its own
  clients,       \* the clients the Inits have made
  rings,
  ended,         \* the spans whose End has begun
  attributed,    \* the spans that have an attribute map
  call, at, made,   \* the call of a goroutine, its stage and its number
  dropped,       \* its last call ended without sending anything: "early", or
                 \* "late" if its payload was complete
  traces,        \* ghost: traces sent for a span, saturating at 2
  hooksAt, ctxAt,   \* ghost: the hooks and context in force when a client
                    \* was published
  crashed        \* the process died: the call that walked a map, and the map

packageVars == <<globalClient, hooks, sampler, breadcrumbs, globalCtx>>
initVars == <<locked, inits, packageVars, hooksAt, ctxAt>>
callVars == <<call, at, made, dropped>>
objectVars == <<clients, rings, ended, attributed, traces>>
sdkVars == <<initVars, callVars, objectVars, crashed>>

-----------------------------------------------------------------------------
(* The routes.                                                             *)

\* Mutant of LogRoute: the breadcrumb is added before the hook has run.
LogRouteCrumbFirst ==
  <<"client", "sampler", "context", "ring", "add", "hooks", "marshal", "send">>

\* Log at level Info or more severe, and what calls it.
LogRoute ==
  <<"client", "sampler", "context", "hooks", "ring", "add", "marshal", "send">>

\* Log at level Debug leaves no breadcrumb.
DebugRoute == <<"client", "sampler", "context", "hooks", "marshal", "send">>

CaptureErrorRoute ==
  <<"client", "sampler", "context", "ring", "snapshot", "hooks", "marshal", "send">>

MetricRoute == <<"client", "sampler", "context", "hooks", "marshal", "send">>

EventRoute ==
  <<"client", "sampler", "context", "hooks", "ring", "add", "marshal", "send">>

AuditRoute == <<"client", "context", "hooks", "marshal", "send">>

EndRoute == <<"end", "client", "context", "hooks", "marshal", "send">>

ScopeLogRoute == <<"client", "context", "copy", "add", "marshal", "send">>

ScopeErrorRoute ==
  <<"client", "context", "copy", "snapshot", "marshal", "send">>

ScopeEventRoute == <<"client", "context", "copy", "add", "marshal", "send">>

ScopeAddBreadcrumbRoute == <<"add">>
AddBreadcrumbRoute == <<"ring", "add">>
ClearBreadcrumbsRoute == <<"ring", "clear">>
CloseRoute == <<"client", "close">>

Route ==
  [log |-> LogRoute, debug |-> DebugRoute, error |-> CaptureErrorRoute,
   metric |-> MetricRoute, event |-> EventRoute, audit |-> AuditRoute,
   end |-> EndRoute, scopeLog |-> ScopeLogRoute,
   scopeError |-> ScopeErrorRoute, scopeEvent |-> ScopeEventRoute,
   scopeAddBreadcrumb |-> ScopeAddBreadcrumbRoute,
   addBreadcrumb |-> AddBreadcrumbRoute,
   clearBreadcrumbs |-> ClearBreadcrumbsRoute, close |-> CloseRoute]

ScopeKinds == {"scopeLog", "scopeError", "scopeEvent", "scopeAddBreadcrumb"}

\* Their payload keeps the caller's map, which SetAttributes stores as it is.
KeepingKinds == {"log", "debug", "error", "metric", "event", "audit"}

\* Their breadcrumb keeps it, as its Data.
RecordingKinds == {"event", "scopeEvent", "addBreadcrumb", "scopeAddBreadcrumb"}

\* Calls, the breadcrumbs they add and the maps they are given have one name.
CallNames == Goroutines \X (1..MaxCalls) \X DOMAIN Route
Crumbs == CallNames \cup {Earlier}

KindOf(name) == name[3]

\* The breadcrumbs with Data, that is, with somebody's map.
HasData(b) == b = Earlier \/ KindOf(b) \in RecordingKinds

\* The scope's attribute map.
ScopeMap == <<"scope">>

Maps == Spans \cup {ScopeMap} \cup Crumbs

ASSUME SdkAssumption ==
  /\ Kinds \subseteq DOMAIN Route
  /\ MaxCalls \in Nat \ {0}
  /\ MaxInits \in Nat
  /\ NoCrumb \notin Crumbs
  /\ Earlier \notin CallNames
  /\ "none" \notin Spans

\* A call that has not begun, or is over.  held are the maps of others that its
\* payload holds and Marshal will walk.
NoCall == [kind |-> "none", span |-> "none", client |-> 0, ctx |-> 0,
           ring |-> 0, hooks |-> 0, held |-> {}]

SdkInit ==
  /\ locked = FALSE /\ inits = 0
  /\ globalClient = 0 /\ hooks = 0 /\ sampler = "none" /\ breadcrumbs = 0
  /\ globalCtx = 0
  /\ clients = [n \in Gens |-> "none"]
  /\ rings = [r \in Gens \cup {ScopeRing} |->
                IF r = ScopeRing THEN Add(NewBreadcrumbRing, Earlier)
                ELSE NewBreadcrumbRing]
  /\ ended = {} /\ attributed = {}
  /\ call = [g \in Goroutines |-> NoCall]
  /\ at = [g \in Goroutines |-> 0]
  /\ made = [g \in Goroutines |-> 0]
  /\ dropped = [g \in Goroutines |-> "no"]
  /\ traces = [s \in Spans |-> 0]
  /\ hooksAt = [n \in Gens |-> 0] /\ ctxAt = [n \in Gens |-> 0]
  /\ crashed = {}

-----------------------------------------------------------------------------
(* Init, InitFromEnv, InitWithConfig.  The package lock is held from before *)
(* discovery and handshake until they are over, but the payload context is  *)
(* behind another lock and is replaced first.                               *)

\* What the three functions replace before they call the constructor.
\* InitFromEnv leaves the context alone, and only Init stores the hooks.
InitLocks(how) ==
  /\ ~locked
  /\ inits < MaxInits
  /\ locked' = TRUE
  /\ inits' = inits + 1
  /\ globalCtx' = IF how = "InitFromEnv" THEN globalCtx ELSE inits'
  /\ breadcrumbs' = inits'
  /\ hooks' = IF how = "Init" THEN inits' ELSE hooks
  /\ \/ sampler' = "all"
     \/ how = "Init" /\ sampler' = "some"
  /\ UNCHANGED <<globalClient, hooksAt, ctxAt, callVars, objectVars>>

\* Mutant of InitReturns: a failed Init keeps the client it was to replace.
InitReturnsKeepingOld(ok) ==
  /\ locked
  /\ locked' = FALSE
  /\ globalClient' = IF ok THEN inits ELSE globalClient
  /\ clients' = IF ok THEN [clients EXCEPT ![inits] = "open"] ELSE clients
  /\ hooksAt' = [hooksAt EXCEPT ![inits] = hooks]
  /\ ctxAt' = [ctxAt EXCEPT ![inits] = globalCtx]
  /\ UNCHANGED <<inits, hooks, sampler, breadcrumbs, globalCtx, callVars, rings,
                 ended, attributed, traces>>

\* The constructor returned: a failed Init leaves no client, and a client it
\* replaces is dropped without being closed.
InitReturns(ok) ==
  /\ locked
  /\ locked' = FALSE
  /\ globalClient' = IF ok THEN inits ELSE 0
  /\ clients' = IF ok THEN [clients EXCEPT ![inits] = "open"] ELSE clients
  /\ hooksAt' = [hooksAt EXCEPT ![inits] = hooks]
  /\ ctxAt' = [ctxAt EXCEPT ![inits] = globalCtx]
  /\ UNCHANGED <<inits, hooks, sampler, breadcrumbs, globalCtx, callVars, rings,
                 ended, attributed, traces>>

-----------------------------------------------------------------------------
(* The stages.                                                             *)

\* Goroutine g is about to do stage s.
Doing(g, s) ==
  /\ at[g] > 0
  /\ Route[call[g].kind][at[g]] = s

Remaining(g) == Len(Route[call[g].kind]) - at[g]

\* The call of g ends, with all it held in its local variables.
Ends(g) ==
  /\ call' = [call EXCEPT ![g] = NoCall]
  /\ at' = [at EXCEPT ![g] = 0]
  /\ UNCHANGED made

\* It returns without having sent anything.
Drops(g, when) == Ends(g) /\ dropped' = [dropped EXCEPT ![g] = when]

\* It goes on, n stages further, with c for its local variables.
GoesOn(g, n, c) ==
  /\ IF Remaining(g) < n THEN Ends(g)
     ELSE /\ call' = [call EXCEPT ![g] = c]
          /\ at' = [at EXCEPT ![g] = @ + n]
          /\ UNCHANGED made
  /\ UNCHANGED dropped

CallOf(g) == <<g, made[g], call[g].kind>>

Calls(g, kind, span) ==
  /\ at[g] = 0
  /\ made[g] < MaxCalls
  /\ kind \in Kinds
  /\ kind # "end" => span = "none"
  /\ kind = "end" => span \in Spans
  /\ call' = [call EXCEPT ![g] = [NoCall EXCEPT !.kind = kind, !.span = span]]
  /\ at' = [at EXCEPT ![g] = 1]
  /\ made' = [made EXCEPT ![g] = @ + 1]
  /\ dropped' = [dropped EXCEPT ![g] = "no"]
  /\ UNCHANGED <<initVars, objectVars>>

\* getClient: without a client every function returns silently.
GetClient(g) ==
  /\ Doing(g, "client")
  /\ ~locked
  /\ IF globalClient = 0 THEN Drops(g, "early")
     ELSE GoesOn(g, 1, [call[g] EXCEPT !.client = globalClient])
  /\ UNCHANGED <<initVars, objectVars>>

\* getSampler and ShouldSample: a rate below one may say either.
Sample(g) ==
  /\ Doing(g, "sampler")
  /\ ~locked
  /\ \/ GoesOn(g, 1, call[g])
     \/ sampler = "some" /\ Drops(g, "early")
  /\ UNCHANGED <<initVars, objectVars>>

\* The payload is made and ApplyContext fills it in, whoever holds globalMu.
\* Then SetAttributes stores the caller's map in it.
ApplyContext(g) ==
  /\ Doing(g, "context")
  /\ GoesOn(g, 1, [call[g] EXCEPT !.ctx = globalCtx,
                     !.held = IF call[g].kind \in KeepingKinds
                              THEN @ \cup {CallOf(g)} ELSE @])
  /\ UNCHANGED <<initVars, objectVars>>

\* Mutant of RunHook: the hooks of the first Init are cached.
RunHookCached(g) ==
  /\ Doing(g, "hooks")
  /\ ~locked
  /\ \/ GoesOn(g, 1, [call[g] EXCEPT !.hooks = IF hooks = 0 THEN 0 ELSE 1])
     \/ hooks # 0 /\ Drops(g, "early")
  /\ UNCHANGED <<initVars, objectVars>>

\* getHooks and the callback, which may drop the entry.
RunHook(g) ==
  /\ Doing(g, "hooks")
  /\ ~locked
  /\ \/ GoesOn(g, 1, [call[g] EXCEPT !.hooks = hooks])
     \/ hooks # 0 /\ Drops(g, "early")
  /\ UNCHANGED <<initVars, objectVars>>

\* getBreadcrumbs: without a ring its use is skipped.
GetBreadcrumbs(g) ==
  /\ Doing(g, "ring")
  /\ ~locked
  /\ GoesOn(g, IF breadcrumbs = 0 THEN 2 ELSE 1,
            [call[g] EXCEPT !.ring = breadcrumbs])
  /\ UNCHANGED <<initVars, objectVars>>

RingOf(g) == IF call[g].kind \in ScopeKinds THEN ScopeRing ELSE call[g].ring

AddCrumb(g) ==
  /\ Doing(g, "add")
  /\ rings' = [rings EXCEPT ![RingOf(g)] = Add(@, CallOf(g))]
  /\ GoesOn(g, 1, call[g])
  /\ UNCHANGED <<initVars, clients, ended, attributed, traces>>

ClearCrumbs(g) ==
  /\ Doing(g, "clear")
  /\ rings' = [rings EXCEPT ![RingOf(g)] = Clear(@)]
  /\ GoesOn(g, 1, call[g])
  /\ UNCHANGED <<initVars, clients, ended, attributed, traces>>

\* WithBreadcrumbs: the trail is copied under the lock of the ring, but not the
\* maps its breadcrumbs keep.
SnapshotCrumbs(g) ==
  /\ Doing(g, "snapshot")
  /\ LET trail == Snapshot(rings[RingOf(g)])
         found == {b \in Crumbs : HasData(b) /\ \E i \in DOMAIN trail : trail[i] = b}
     IN  GoesOn(g, 1, [call[g] EXCEPT !.held = @ \cup found])
  /\ UNCHANGED <<initVars, objectVars>>

\* Mutant of CopyAttributes: the scope's own map goes into the payload.
CopyAttributesShared(g) ==
  /\ Doing(g, "copy")
  /\ GoesOn(g, 1, [call[g] EXCEPT !.held = @ \cup {ScopeMap}])
  /\ UNCHANGED <<initVars, objectVars>>

\* applyScope copies the attributes under the lock of the scope; scope.Event
\* then copies those of its caller.
CopyAttributes(g) ==
  /\ Doing(g, "copy")
  /\ GoesOn(g, 1, call[g])
  /\ UNCHANGED <<initVars, objectVars>>

\* Mutant of BeginEnd: the flag is set when the trace has been sent.
BeginEndUnmarked(g) ==
  /\ Doing(g, "end")
  /\ LET s == call[g].span
     IN  IF traces[s] > 0 THEN Drops(g, "early")
         ELSE GoesOn(g, 1, [call[g] EXCEPT !.held = attributed \cap {s}])
  /\ UNCHANGED <<initVars, objectVars>>

\* The locked part of Span.End.  The payload will hold the span's own map.
BeginEnd(g) ==
  /\ Doing(g, "end")
  /\ LET s == call[g].span
     IN  IF s \in ended THEN Drops(g, "early") /\ UNCHANGED ended
         ELSE /\ ended' = ended \cup {s}
              /\ GoesOn(g, 1, [call[g] EXCEPT !.held = attributed \cap {s}])
  /\ UNCHANGED <<initVars, clients, rings, attributed, traces>>

\* payload.Marshal has walked the payload; it began when g came to the stage.
\* Only the value of a metric, a float, can be impossible to encode.
Marshal(g) ==
  /\ Doing(g, "marshal")
  /\ \/ GoesOn(g, 1, call[g])
     \/ call[g].kind = "metric" /\ Drops(g, "late")
  /\ UNCHANGED <<initVars, objectVars>>

\* A closed client refuses the entry.  An open one accepts it, unless
\* validation, Options.BeforeSend, a quota or the full queue drops it.
Send(g) ==
  /\ Doing(g, "send")
  /\ \/ /\ clients[call[g].client] = "open"
        /\ GoesOn(g, 1, call[g])
        /\ traces' = [s \in Spans |->
                        IF call[g].span = s /\ traces[s] < 2 THEN traces[s] + 1
                        ELSE traces[s]]
     \/ Drops(g, "late") /\ UNCHANGED traces
  /\ UNCHANGED <<initVars, clients, rings, ended, attributed>>

CloseClient(g) ==
  /\ Doing(g, "close")
  /\ clients' = [clients EXCEPT ![call[g].client] = "closed"]
  /\ GoesOn(g, 1, call[g])
  /\ UNCHANGED <<initVars, rings, ended, attributed, traces>>

Stage(g) ==
  \/ GetClient(g)
  \/ Sample(g)
  \/ ApplyContext(g)
  \/ RunHook(g)
  \/ GetBreadcrumbs(g)
  \/ AddCrumb(g)
  \/ ClearCrumbs(g)
  \/ SnapshotCrumbs(g)
  \/ CopyAttributes(g)
  \/ BeginEnd(g)
  \/ Marshal(g)
  \/ Send(g)
  \/ CloseClient(g)

-----------------------------------------------------------------------------
(* The attribute setters of spans and scopes write under the object's lock, *)
(* the application writes its own maps as it likes.  payload.Marshal and    *)
(* the copy in scope.Event read without a lock.                             *)

\* g is walking map m.
Walking(g, m) ==
  \/ Doing(g, "marshal") /\ m \in call[g].held
  \/ Doing(g, "copy") /\ call[g].kind = "scopeEvent" /\ m = CallOf(g)

\* SetAttribute, SetAttributes or SetError on a span.
SetAttribute(s) ==
  /\ attributed' = attributed \cup {s}
  /\ UNCHANGED <<initVars, callVars, clients, rings, ended, traces, crashed>>

\* Somebody writes map m while g walks it.  The Go runtime may find that out
\* and kill the process.
WriteMeetsWalk(g, m) ==
  /\ Walking(g, m)
  /\ crashed' = {<<CallOf(g), m>>}
  /\ UNCHANGED <<initVars, callVars, objectVars>>

SdkNext ==
  /\ crashed = {}
  /\ \/ /\ \/ \E how \in {"Init", "InitFromEnv", "InitWithConfig"} : InitLocks(how)
           \/ \E ok \in BOOLEAN : InitReturns(ok)
           \/ \E g \in Goroutines :
                \/ \E kind \in Kinds, span \in Spans \cup {"none"} :
                     Calls(g, kind, span)
                \/ Stage(g)
        /\ UNCHANGED crashed
     \/ \E s \in Spans : SetAttribute(s)
     \/ \E g \in Goroutines :
          \E m \in call[g].held \cup {CallOf(g)} : WriteMeetsWalk(g, m)

SdkSpec == SdkInit /\ [][SdkNext]_sdkVars

-----------------------------------------------------------------------------
Locals == [kind: DOMAIN Route \cup {"none"}, span: Spans \cup {"none"},
           client: 0..MaxInits, ctx: 0..MaxInits, ring: 0..MaxInits,
           hooks: 0..MaxInits, held: SUBSET Maps]

SdkTypeOK ==
  /\ locked \in BOOLEAN /\ inits \in 0..MaxInits
  /\ globalClient \in 0..MaxInits /\ hooks \in 0..MaxInits
  /\ breadcrumbs \in 0..MaxInits /\ globalCtx \in 0..MaxInits
  /\ sampler \in {"none", "all", "some"}
  /\ clients \in [Gens -> {"none", "open", "closed"}]
  /\ \A r \in DOMAIN rings :
       /\ rings[r].position \in 0..(maxSize - 1)
       /\ Size(rings[r]) = Len(Snapshot(rings[r]))
  /\ ended \subseteq Spans /\ attributed \subseteq Spans
  /\ call \in [Goroutines -> Locals]
  /\ \A g \in Goroutines :
       /\ at[g] \in Nat /\ made[g] \in 0..MaxCalls
       /\ at[g] = 0 <=> call[g].kind = "none"
       /\ at[g] > 0 => at[g] <= Len(Route[call[g].kind])
  /\ dropped \in [Goroutines -> {"no", "early", "late"}]
  /\ traces \in [Spans -> 0..2]
  /\ hooksAt \in [Gens -> 0..MaxInits] /\ ctxAt \in [Gens -> 0..MaxInits]
  /\ crashed \subseteq CallNames \X Maps

\* Unless an Init is under way the client and the breadcrumb ring in force
\* come from the same, latest Init, and so do hooks and context unless that
\* one leaves them alone; after a failed Init no client is left.
NoMixedGenerations ==
  ~locked /\ globalClient # 0 =>
    /\ globalClient = inits /\ breadcrumbs = inits
    /\ hooks = hooksAt[inits] /\ globalCtx = ctxAt[inits]

\* An entry reaches its client with hooks and a context at least as recent as
\* those in force when that client was published, although the client, the
\* context and the hooks are read at different moments.  They may be more recent:
\* a capture that read the client before an Init may find the hooks of that Init,
\* or none, and its entry still goes to the earlier client.
NeverOlderThanItsClient ==
  \A g \in Goroutines :
    Doing(g, "send") =>
      /\ call[g].ctx >= ctxAt[call[g].client]
      /\ call[g].kind \notin ScopeKinds => call[g].hooks >= hooksAt[call[g].client]

\* What the sampler or a hook of its kind keeps from being sent is not sent
\* later, as a breadcrumb in the trail of an error, either.  (What fails to
\* encode, or what the client drops, its BeforeSend included, has left one.)
FilteredLeavesNothing ==
  \A g \in Goroutines :
    dropped[g] = "early" =>
      \A r \in DOMAIN rings :
        \A i \in DOMAIN rings[r].items :
          \A kind \in Kinds : rings[r].items[i] # <<g, made[g], kind>>

\* A span sends at most one trace, however many goroutines end it at once.
OneTracePerSpan == \A s \in Spans : traces[s] <= 1

\* Every ring of the package, replaced or not, and the scope's is a bounded
\* trail for all the goroutines that still hold it.
TrailOf(r) == INSTANCE Trail WITH
                trail <- Snapshot(rings[r]), Capacity <- maxSize
TrailContract ==
  /\ \A r \in Gens : TrailOf(r)!TrailInit
  /\ [][\A r \in Gens \cup {ScopeRing} :
          UNCHANGED Snapshot(rings[r]) \/ TrailOf(r)!TrailNext]_sdkVars

\* A process that dies of concurrent map access has only lent its maps to the
\* package: End walks the map of its span, a call the map it was given, and the
\* capture of an error the Data of earlier breadcrumbs, whose calls returned long
\* ago perhaps.  No setter of a scope can cause it.
OnlyLentMapsRace ==
  \A c \in crashed :
    LET walker == c[1]
        m == c[2]
    IN  \/ KindOf(walker) = "end" /\ m \in Spans
        \/ KindOf(walker) \in KeepingKinds \cup {"scopeEvent"} /\ m = walker
        \/ KindOf(walker) \in {"error", "scopeError"} /\ m \in Crumbs /\ HasData(m)
=============================================================================
