----------------------------- MODULE SdkProofs -----------------------------
(***************************************************************************)
(* Proofs about Sdk, for any goroutines, spans, calls, initialisations and *)
(* capacity of the rings: what an Init brings stays together, an entry is  *)
(* never older than its client, a filtered call leaves nothing behind, a   *)
(* span is sent once, only lent maps race, every ring is a bounded trail.  *)
(*                                                                         *)
(* All routes have a few things in common (GoodRoute), and so have all     *)
(* stages (Continues): the steps are looked at through these two.          *)
(***************************************************************************)
EXTENDS Sdk, BreadcrumbProofs

\* Stage x comes before the i-th one of a route.
Before(r, i, x) == \E j \in 1..(i - 1) : r[j] = x

\* The stages that may drop a call, before and after its payload is complete.
EarlyStages == {"client", "sampler", "hooks", "end"}
LateStages == {"marshal", "send"}

\* What is true of every route, stage by stage.
GoodStage(k, r, i) ==
  /\ r[i] = "client" =>
       \A x \in {"client", "context", "hooks"} : ~Before(r, i, x)
  /\ r[i] \in EarlyStages => ~Before(r, i, "add")
  /\ r[i] = "snapshot" => k \in {"error", "scopeError"}
  /\ r[i] = "end" <=> (k = "end" /\ i = 1)
  /\ r[i] = "ring" =>
       /\ i < Len(r)
       /\ r[i + 1] \in {"add", "clear", "snapshot"}
  /\ r[i] = "send" =>
       /\ i = Len(r)
       /\ Before(r, i, "client") /\ Before(r, i, "context")
       /\ k \notin ScopeKinds => Before(r, i, "hooks")

GoodRoute(k, r) ==
  /\ Len(r) \in Nat \ {0}
  /\ \A i \in 1..Len(r) : GoodStage(k, r, i)

LEMMA RoutesAreGood == \A k \in DOMAIN Route : GoodRoute(k, Route[k])
<1> USE DEF GoodRoute, GoodStage, Before, EarlyStages, ScopeKinds
<1>1. GoodRoute("log", LogRoute)
  BY DEF LogRoute
<1>2. GoodRoute("debug", DebugRoute)
  BY DEF DebugRoute
<1>3. GoodRoute("error", CaptureErrorRoute)
  BY DEF CaptureErrorRoute
<1>4. GoodRoute("metric", MetricRoute)
  BY DEF MetricRoute
<1>5. GoodRoute("event", EventRoute)
  BY DEF EventRoute
<1>6. GoodRoute("audit", AuditRoute)
  BY DEF AuditRoute
<1>7. GoodRoute("end", EndRoute)
  BY DEF EndRoute
<1>8. GoodRoute("scopeLog", ScopeLogRoute)
  BY DEF ScopeLogRoute
<1>9. GoodRoute("scopeError", ScopeErrorRoute)
  BY DEF ScopeErrorRoute
<1>10. GoodRoute("scopeEvent", ScopeEventRoute)
  BY DEF ScopeEventRoute
<1>11. GoodRoute("addBreadcrumb", AddBreadcrumbRoute)
  BY DEF AddBreadcrumbRoute
<1>12. GoodRoute("clearBreadcrumbs", ClearBreadcrumbsRoute)
  BY DEF ClearBreadcrumbsRoute
<1>13. GoodRoute("close", CloseRoute)
  BY DEF CloseRoute
<1>14. GoodRoute("scopeAddBreadcrumb", ScopeAddBreadcrumbRoute)
  BY DEF ScopeAddBreadcrumbRoute
<1> HIDE DEF GoodRoute, GoodStage, Before, EarlyStages, ScopeKinds
<1> QED
  BY <1>1, <1>2, <1>3, <1>4, <1>5, <1>6, <1>7, <1>8, <1>9, <1>10, <1>11, <1>12, <1>13,
     <1>14 DEF Route

-----------------------------------------------------------------------------
(* What a stage does, whichever it is.                                     *)

\* SdkTypeOK without the rings.
CallsTypeOK ==
  /\ locked \in BOOLEAN /\ inits \in 0..MaxInits
  /\ globalClient \in 0..MaxInits /\ hooks \in 0..MaxInits
  /\ breadcrumbs \in 0..MaxInits /\ globalCtx \in 0..MaxInits
  /\ sampler \in {"none", "all", "some"}
  /\ clients \in [Gens -> {"none", "open", "closed"}]
  /\ ended \subseteq Spans /\ attributed \subseteq Spans
  /\ call \in [Goroutines -> Locals]
  /\ at \in [Goroutines -> Nat] /\ made \in [Goroutines -> 0..MaxCalls]
  /\ \A g \in Goroutines :
       /\ at[g] = 0 <=> call[g].kind = "none"
       /\ at[g] > 0 => at[g] <= Len(Route[call[g].kind])
  /\ dropped \in [Goroutines -> {"no", "early", "late"}]
  /\ traces \in [Spans -> 0..2]
  /\ hooksAt \in [Gens -> 0..MaxInits] /\ ctxAt \in [Gens -> 0..MaxInits]
  /\ crashed \subseteq CallNames \X Maps

RouteOf(g) == Route[call[g].kind]
StageOf(g) == RouteOf(g)[at[g]]

LEMMA UnderWay ==
  ASSUME CallsTypeOK, NEW g \in Goroutines, at[g] > 0
  PROVE  /\ call[g] \in Locals /\ call[g].kind \in DOMAIN Route
         /\ GoodRoute(call[g].kind, RouteOf(g))
         /\ at[g] \in 1..Len(RouteOf(g)) /\ Len(RouteOf(g)) \in Nat
         /\ GoodStage(call[g].kind, RouteOf(g), at[g])
<1>1. /\ call[g] \in Locals /\ call[g].kind # "none" /\ at[g] \in Nat
      /\ at[g] <= Len(RouteOf(g))
  BY DEF CallsTypeOK, RouteOf
<1>2. call[g].kind \in DOMAIN Route
  BY <1>1 DEF Locals
<1>3. GoodRoute(call[g].kind, RouteOf(g))
  BY <1>2, RoutesAreGood DEF RouteOf
<1>4. Len(RouteOf(g)) \in Nat
  BY <1>3 DEF GoodRoute
<1>5. at[g] \in 1..Len(RouteOf(g))
  BY <1>1, <1>4
<1> QED
  BY <1>1, <1>2, <1>3, <1>4, <1>5 DEF GoodRoute

\* Map m may be in the payload of call c.
MayHold(c, m) ==
  \/ KindOf(c) = "end" /\ m \in Spans
  \/ KindOf(c) \in KeepingKinds /\ m = c
  \/ KindOf(c) \in {"error", "scopeError"} /\ m \in Crumbs /\ HasData(m)

\* The local variables d differ from those of g in f at most.
Others(g, d, f) ==
  /\ d.kind = call[g].kind /\ d.span = call[g].span
  /\ f # "client" => d.client = call[g].client
  /\ f # "ctx" => d.ctx = call[g].ctx
  /\ f # "hooks" => d.hooks = call[g].hooks
  /\ f # "held" => d.held = call[g].held

\* The call of g goes on with local variables d, n stages further.
Continues(g, n, d) ==
  LET c == call[g]
      s == StageOf(g)
  IN  /\ GoesOn(g, n, d)
      /\ d \in Locals /\ d.kind = c.kind /\ d.span = c.span
      /\ n = 2 => s = "ring"
      /\ IF s = "client" THEN d.client = globalClient /\ globalClient # 0 /\ ~locked
                         ELSE d.client = c.client
      /\ d.ctx = IF s = "context" THEN globalCtx ELSE c.ctx
      /\ d.hooks = IF s = "hooks" THEN hooks ELSE c.hooks
      /\ \A m \in d.held \ c.held : MayHold(CallOf(g), m)
      /\ IF s = "end" THEN c.span \notin ended /\ ended' = ended \cup {c.span}
                      ELSE ended' = ended
      /\ IF s = "send"
         THEN traces' = [x \in Spans |-> IF c.span = x /\ traces[x] < 2
                                         THEN traces[x] + 1 ELSE traces[x]]
         ELSE traces' = traces
      /\ CASE s = "add" ->
                rings' = [rings EXCEPT ![RingOf(g)] = Add(@, CallOf(g))]
           [] s = "clear" -> rings' = [rings EXCEPT ![RingOf(g)] = Clear(@)]
           [] OTHER -> rings' = rings

LEMMA NameOfCall ==
  ASSUME CallsTypeOK, NEW g \in Goroutines, at[g] > 0, made[g] > 0
  PROVE  CallOf(g) \in CallNames /\ KindOf(CallOf(g)) = call[g].kind
<1>1. call[g].kind \in DOMAIN Route
  BY UnderWay
<1>2. made[g] \in 1..MaxCalls
  BY SdkAssumption DEF CallsTypeOK, SdkAssumption
<1> QED
  BY <1>1, <1>2 DEF CallOf, CallNames, KindOf

LEMMA StageIsUnderWay ==
  ASSUME NEW g \in Goroutines, Stage(g)
  PROVE  at[g] > 0
BY DEF Stage, Doing, GetClient, Sample, ApplyContext, RunHook, GetBreadcrumbs,
   AddCrumb, ClearCrumbs, SnapshotCrumbs, CopyAttributes, BeginEnd, Marshal, Send,
   CloseClient

LEMMA StageMoves ==
  ASSUME CallsTypeOK, NEW g \in Goroutines, made[g] > 0, Stage(g)
  PROVE  /\ at[g] > 0
         /\ \/ /\ UNCHANGED <<rings, ended, traces>>
               /\ \/ Drops(g, "early") /\ StageOf(g) \in EarlyStages
                  \/ Drops(g, "late") /\ StageOf(g) \in LateStages
            \/ \E n \in {1, 2}, d \in Locals : Continues(g, n, d)
         /\ UNCHANGED <<initVars, attributed>>
         /\ clients' \in [Gens -> {"none", "open", "closed"}]
<1>0. at[g] > 0 /\ call[g] \in Locals
  BY StageIsUnderWay, UnderWay
<1>00. CallOf(g) \in CallNames
  BY <1>0, NameOfCall
<1> USE DEF Doing, StageOf, RouteOf, objectVars, EarlyStages, LateStages
<1>1. CASE GetClient(g)
  <2>1. CASE globalClient = 0
    BY <1>0, <1>1, <2>1 DEF GetClient, CallsTypeOK
  <2>2. CASE globalClient # 0
    <3> DEFINE d == [call[g] EXCEPT !.client = globalClient]
    <3>1. d \in Locals /\ d.client = globalClient /\ Others(g, d, "client")
      BY <1>0 DEF CallsTypeOK, Locals, Others
    <3> HIDE DEF d
    <3>2. GoesOn(g, 1, d)
      BY <1>0, <1>1, <2>2 DEF d, GetClient
    <3>3. Continues(g, 1, d)
      BY <1>0, <1>1, <2>2, <3>1, <3>2 DEF GetClient, Continues, Others
    <3> QED
      BY <1>0, <1>1, <3>1, <3>3 DEF GetClient, CallsTypeOK
  <2> QED
    BY <2>1, <2>2
<1>2. CASE Sample(g)
  <2>1. CASE Drops(g, "early")
    BY <1>0, <1>2, <2>1 DEF Sample, CallsTypeOK
  <2>2. CASE GoesOn(g, 1, call[g])
    <3>1. Continues(g, 1, call[g])
      BY <1>0, <1>2, <2>2 DEF Sample, Continues
    <3> QED
      BY <1>0, <1>2, <3>1 DEF Sample, CallsTypeOK
  <2> QED
    BY <1>2, <2>1, <2>2 DEF Sample
<1>3. CASE ApplyContext(g)
  <2> DEFINE own == IF call[g].kind \in KeepingKinds THEN {CallOf(g)} ELSE {}
             d == [call[g] EXCEPT !.ctx = globalCtx, !.held = @ \cup own]
  <2>0. own \subseteq Maps /\ \A m \in own : MayHold(CallOf(g), m)
    BY <1>00 DEF MayHold, KindOf, CallOf, Maps, Crumbs
  <2>a. [call[g] EXCEPT !.ctx = globalCtx,
                        !.held = IF call[g].kind \in KeepingKinds
                                 THEN @ \cup {CallOf(g)} ELSE @] = d
    BY <1>0 DEF Locals
  <2> HIDE DEF own
  <2>1. /\ d \in Locals /\ d.ctx = globalCtx /\ d.held = call[g].held \cup own
        /\ d.kind = call[g].kind /\ d.span = call[g].span
        /\ d.client = call[g].client /\ d.hooks = call[g].hooks
    BY <1>0, <2>0 DEF CallsTypeOK, Locals
  <2> HIDE DEF d
  <2>2. GoesOn(g, 1, d)
    BY <1>0, <1>3, <2>a DEF ApplyContext
  <2>3. Continues(g, 1, d)
    BY <1>0, <1>3, <2>0, <2>1, <2>2 DEF ApplyContext, Continues
  <2> QED
    BY <1>0, <1>3, <2>1, <2>3 DEF ApplyContext, CallsTypeOK
<1>4. CASE RunHook(g)
  <2>1. CASE Drops(g, "early")
    BY <1>0, <1>4, <2>1 DEF RunHook, CallsTypeOK
  <2>2. CASE GoesOn(g, 1, [call[g] EXCEPT !.hooks = hooks])
    <3> DEFINE d == [call[g] EXCEPT !.hooks = hooks]
    <3>1. d \in Locals /\ d.hooks = hooks /\ Others(g, d, "hooks")
      BY <1>0 DEF CallsTypeOK, Locals, Others
    <3> HIDE DEF d
    <3>2. GoesOn(g, 1, d)
      BY <1>0, <1>4, <2>2 DEF d, RunHook
    <3>3. Continues(g, 1, d)
      BY <1>0, <1>4, <2>2, <3>1, <3>2 DEF RunHook, Continues, Others
    <3> QED
      BY <1>0, <1>4, <3>1, <3>3 DEF RunHook, CallsTypeOK
  <2> QED
    BY <1>4, <2>1, <2>2 DEF RunHook
<1>5. CASE GetBreadcrumbs(g)
  <2> DEFINE d == [call[g] EXCEPT !.ring = breadcrumbs]
             n == IF breadcrumbs = 0 THEN 2 ELSE 1
  <2>1. d \in Locals /\ n \in {1, 2} /\ Continues(g, n, d)
    BY <1>0, <1>5 DEF GetBreadcrumbs, CallsTypeOK, Locals, Continues
  <2> QED
    BY <1>0, <1>5, <2>1 DEF GetBreadcrumbs, CallsTypeOK
<1>6. CASE AddCrumb(g)
  <2>1. Continues(g, 1, call[g])
    BY <1>0, <1>6 DEF AddCrumb, Continues
  <2> QED
    BY <1>0, <1>6, <2>1 DEF AddCrumb, CallsTypeOK
<1>7. CASE ClearCrumbs(g)
  <2>1. Continues(g, 1, call[g])
    BY <1>0, <1>7 DEF ClearCrumbs, Continues
  <2> QED
    BY <1>0, <1>7, <2>1 DEF ClearCrumbs, CallsTypeOK
<1>8. CASE SnapshotCrumbs(g)
  <2> DEFINE trail == Snapshot(rings[RingOf(g)])
             found == {b \in Crumbs : HasData(b) /\ \E i \in DOMAIN trail : trail[i] = b}
             d == [call[g] EXCEPT !.held = @ \cup found]
  <2>1. found \subseteq Maps /\ \A m \in found : m \in Crumbs /\ HasData(m)
    BY DEF Maps
  <2> HIDE DEF found
  <2>2. call[g].kind \in {"error", "scopeError"}
    BY <1>0, <1>8, UnderWay DEF SnapshotCrumbs, GoodStage
  <2>3. \A m \in found : MayHold(CallOf(g), m)
    BY <2>1, <2>2 DEF MayHold, KindOf, CallOf
  <2>4. d \in Locals /\ d.held = call[g].held \cup found /\ Others(g, d, "held")
    BY <1>0, <2>1 DEF Locals, Others
  <2> HIDE DEF d
  <2>5. GoesOn(g, 1, d)
    BY <1>0, <1>8 DEF d, found, SnapshotCrumbs
  <2>6. Continues(g, 1, d)
    BY <1>0, <1>8, <2>3, <2>4, <2>5 DEF SnapshotCrumbs, Continues, Others
  <2> QED
    BY <1>0, <1>8, <2>4, <2>6 DEF SnapshotCrumbs, CallsTypeOK
<1>9. CASE CopyAttributes(g)
  <2>1. Continues(g, 1, call[g])
    BY <1>0, <1>9 DEF CopyAttributes, Continues
  <2> QED
    BY <1>0, <1>9, <2>1 DEF CopyAttributes, CallsTypeOK
<1>10. CASE BeginEnd(g)
  <2>1. CASE call[g].span \in ended
    BY <1>0, <1>10, <2>1 DEF BeginEnd, CallsTypeOK
  <2>2. CASE call[g].span \notin ended
    <3> DEFINE own == attributed \cap {call[g].span}
               d == [call[g] EXCEPT !.held = own]
    <3>0. call[g].kind = "end" /\ own \subseteq Spans
      BY <1>0, <1>10, UnderWay DEF BeginEnd, GoodStage, CallsTypeOK
    <3> HIDE DEF own
    <3>a. \A m \in own : MayHold(CallOf(g), m)
      BY <3>0 DEF MayHold, KindOf, CallOf
    <3>1. d \in Locals /\ d.held = own /\ Others(g, d, "held")
      BY <1>0, <3>0 DEF Locals, Others, Maps
    <3> HIDE DEF d
    <3>2. GoesOn(g, 1, d)
      BY <1>0, <1>10, <2>2 DEF d, own, BeginEnd
    <3>3. Continues(g, 1, d)
      BY <1>0, <1>10, <2>2, <3>a, <3>1, <3>2 DEF BeginEnd, Continues, Others
    <3> QED
      BY <1>0, <1>10, <3>1, <3>3 DEF BeginEnd, CallsTypeOK
  <2> QED
    BY <2>1, <2>2
<1>11. CASE Marshal(g)
  <2>1. CASE Drops(g, "late")
    BY <1>0, <1>11, <2>1 DEF Marshal, CallsTypeOK
  <2>2. CASE GoesOn(g, 1, call[g])
    <3>1. Continues(g, 1, call[g])
      BY <1>0, <1>11, <2>2 DEF Marshal, Continues
    <3> QED
      BY <1>0, <1>11, <3>1 DEF Marshal, CallsTypeOK
  <2> QED
    BY <1>11, <2>1, <2>2 DEF Marshal
<1>12. CASE Send(g)
  <2>1. CASE Drops(g, "late") /\ UNCHANGED traces
    BY <1>0, <1>12, <2>1 DEF Send, CallsTypeOK
  <2>2. CASE /\ GoesOn(g, 1, call[g])
             /\ traces' = [s \in Spans |->
                             IF call[g].span = s /\ traces[s] < 2 THEN traces[s] + 1
                             ELSE traces[s]]
    <3>1. Continues(g, 1, call[g])
      BY <1>0, <1>12, <2>2 DEF Send, Continues
    <3> QED
      BY <1>0, <1>12, <3>1 DEF Send, CallsTypeOK
  <2> QED
    BY <1>12, <2>1, <2>2 DEF Send
<1>13. CASE CloseClient(g)
  <2>1. Continues(g, 1, call[g])
    BY <1>0, <1>13 DEF CloseClient, Continues
  <2>2. clients' \in [Gens -> {"none", "open", "closed"}]
    BY <1>13 DEF CloseClient, CallsTypeOK
  <2> QED
    BY <1>0, <1>13, <2>1, <2>2 DEF CloseClient
<1> QED
  BY <1>1, <1>2, <1>3, <1>4, <1>5, <1>6, <1>7, <1>8, <1>9, <1>10, <1>11, <1>12, <1>13
     DEF Stage

\* Where a call that goes on arrives, and what it then has behind it.
LEMMA Landing ==
  ASSUME CallsTypeOK, NEW g \in Goroutines, at[g] > 0,
         NEW n \in {1, 2}, NEW d \in Locals, Continues(g, n, d)
  PROVE  /\ made' = made /\ dropped' = dropped
         /\ call' \in [Goroutines -> Locals] /\ at' \in [Goroutines -> Nat]
         /\ \A h \in Goroutines \ {g} : call'[h] = call[h] /\ at'[h] = at[h]
         /\ \/ call'[g] = NoCall /\ at'[g] = 0
            \/ /\ call'[g] = d /\ at'[g] = at[g] + n
               /\ at'[g] <= Len(RouteOf(g))
               /\ StageOf(g) # "send"
               /\ \A x \in {"client", "context", "hooks"} :
                    Before(RouteOf(g), at'[g], x) =>
                      Before(RouteOf(g), at[g], x) \/ StageOf(g) = x
               /\ Before(RouteOf(g), at[g], "add") \/ StageOf(g) = "add" =>
                    Before(RouteOf(g), at'[g], "add")
<1>1. /\ call[g] \in Locals /\ at[g] \in 1..Len(RouteOf(g)) /\ Len(RouteOf(g)) \in Nat
      /\ GoodStage(call[g].kind, RouteOf(g), at[g])
  BY UnderWay
<1>2. NoCall \in Locals
  BY SdkAssumption DEF NoCall, Locals, SdkAssumption
<1>3. GoesOn(g, n, d) /\ (n = 2 => StageOf(g) = "ring")
  BY DEF Continues
<1>4. call \in [Goroutines -> Locals] /\ at \in [Goroutines -> Nat]
  BY DEF CallsTypeOK
<1>5. CASE Remaining(g) < n
  BY <1>2, <1>3, <1>4, <1>5 DEF GoesOn, Ends
<1>6. CASE ~(Remaining(g) < n)
  <2>1. /\ call' = [call EXCEPT ![g] = d] /\ at' = [at EXCEPT ![g] = @ + n]
        /\ made' = made /\ dropped' = dropped
    BY <1>3, <1>6 DEF GoesOn
  <2>2. at[g] + n <= Len(RouteOf(g))
    BY <1>1, <1>6 DEF Remaining, RouteOf
  <2>3. StageOf(g) # "send"
    BY <1>1, <2>2 DEF GoodStage, StageOf
  <2>4. ASSUME NEW x \in {"client", "context", "hooks"},
               Before(RouteOf(g), at[g] + n, x)
        PROVE  Before(RouteOf(g), at[g], x) \/ StageOf(g) = x
    <3>1. PICK j \in 1..((at[g] + n) - 1) : RouteOf(g)[j] = x
      BY <2>4 DEF Before
    <3>2. CASE j < at[g]
      BY <1>1, <3>1, <3>2 DEF Before
    <3>3. CASE j = at[g]
      BY <3>1, <3>3 DEF StageOf
    <3>4. CASE j > at[g]
      <4>1. n = 2 /\ j = at[g] + 1
        BY <1>1, <3>1, <3>4
      <4> QED
        BY <1>1, <1>3, <3>1, <4>1 DEF GoodStage, StageOf
    <3> QED
      BY <1>1, <3>1, <3>2, <3>3, <3>4
  <2>5. Before(RouteOf(g), at[g], "add") \/ StageOf(g) = "add" =>
          Before(RouteOf(g), at[g] + n, "add")
    BY <1>1 DEF Before, StageOf
  <2> QED
    BY <1>1, <1>4, <2>1, <2>2, <2>3, <2>4, <2>5
<1> QED
  BY <1>5, <1>6

LEMMA DropLands ==
  ASSUME CallsTypeOK, NEW g \in Goroutines, NEW when, Drops(g, when)
  PROVE  /\ made' = made /\ dropped' = [dropped EXCEPT ![g] = when]
         /\ call' \in [Goroutines -> Locals] /\ at' \in [Goroutines -> Nat]
         /\ \A h \in Goroutines \ {g} : call'[h] = call[h] /\ at'[h] = at[h]
         /\ call'[g] = NoCall /\ at'[g] = 0
<1>1. NoCall \in Locals
  BY SdkAssumption DEF NoCall, Locals, SdkAssumption
<1> QED
  BY <1>1 DEF Drops, Ends, CallsTypeOK

-----------------------------------------------------------------------------
(* The inductive invariant.                                                *)

\* The last Init whose client is out.
Published == IF locked THEN inits - 1 ELSE inits

\* Client, hooks and context come from published Inits, and hooks and context
\* only ever get newer.
GenInv ==
  /\ locked => inits > 0
  /\ breadcrumbs = inits
  /\ hooks <= inits /\ globalCtx <= inits
  /\ globalClient <= Published
  /\ \A n \in 1..Published : hooksAt[n] <= hooks /\ ctxAt[n] <= globalCtx
  /\ NoMixedGenerations

\* NeverOlderThanItsClient, from the moment the context or the hooks are read.
MatchInv ==
  \A g \in Goroutines :
    at[g] > 0 /\ Before(RouteOf(g), at[g], "client") =>
      /\ call[g].client \in 1..Published
      /\ Before(RouteOf(g), at[g], "context") => ctxAt[call[g].client] <= call[g].ctx
      /\ Before(RouteOf(g), at[g], "hooks") => hooksAt[call[g].client] <= call[g].hooks

\* g has set the flag of its span and may send the trace.
Ending(g) == call[g].kind = "end" /\ at[g] > 1

\* Only one goroutine gets past the flag of a span, and it has not sent yet.
SpanInv ==
  /\ \A s \in Spans : traces[s] <= 1 /\ (s \notin ended => traces[s] = 0)
  /\ \A g \in Goroutines : call[g].span \in Spans <=> call[g].kind = "end"
  /\ \A g \in Goroutines :
       Ending(g) => call[g].span \in ended /\ traces[call[g].span] = 0
  /\ \A g, h \in Goroutines :
       Ending(g) /\ Ending(h) /\ call[g].span = call[h].span => g = h

\* Whatever map a payload holds was lent to the package.
RaceInv ==
  /\ OnlyLentMapsRace
  /\ \A g \in Goroutines : \A m \in call[g].held : MayHold(CallOf(g), m)

\* The n-th call of g has left a breadcrumb in some ring.
Left(g, n) ==
  \E r \in DOMAIN rings : \E i \in DOMAIN rings[r].items, kind \in DOMAIN Route :
    rings[r].items[i] = <<g, n, kind>>

\* A breadcrumb comes from an earlier call, or from one past its add stage.
CrumbInv ==
  \A g \in Goroutines :
    /\ at[g] > 0 => made[g] > 0 /\ dropped[g] = "no"
    /\ dropped[g] = "early" => made[g] > 0
    /\ \A n \in 1..MaxCalls :
         Left(g, n) =>
           /\ n <= made[g]
           /\ at[g] > 0 /\ n = made[g] => Before(RouteOf(g), at[g], "add")
           /\ dropped[g] = "early" => n # made[g]

SdkInv == CallsTypeOK /\ GenInv /\ MatchInv /\ SpanInv /\ RaceInv /\ CrumbInv

LEMMA InvInit == SdkInit => SdkInv
<1> SUFFICES ASSUME SdkInit PROVE SdkInv
  OBVIOUS
<1> USE SdkAssumption DEF SdkAssumption, SdkInit
<1>1. CallsTypeOK
  <2>1. NoCall \in Locals /\ NoCall.kind = "none" /\ 0 \in 0..MaxInits /\ 0 \in 0..MaxCalls
    BY DEF NoCall, Locals
  <2>2. /\ call \in [Goroutines -> Locals] /\ at \in [Goroutines -> Nat]
        /\ made \in [Goroutines -> 0..MaxCalls] /\ dropped \in [Goroutines -> {"no", "early", "late"}]
        /\ \A g \in Goroutines :
             /\ at[g] = 0 <=> call[g].kind = "none"
             /\ at[g] > 0 => at[g] <= Len(Route[call[g].kind])
    BY <2>1
  <2>3. /\ clients \in [Gens -> {"none", "open", "closed"}]
        /\ traces \in [Spans -> 0..2]
        /\ hooksAt \in [Gens -> 0..MaxInits] /\ ctxAt \in [Gens -> 0..MaxInits]
    BY <2>1
  <2> QED
    BY <2>1, <2>2, <2>3 DEF CallsTypeOK
<1>2. GenInv /\ MatchInv
  BY DEF GenInv, NoMixedGenerations, Published, MatchInv
<1>3. SpanInv /\ RaceInv
  BY DEF SpanInv, RaceInv, OnlyLentMapsRace, Ending, NoCall
<1>4. ASSUME NEW g \in Goroutines, NEW n \in 1..MaxCalls PROVE ~Left(g, n)
  <2>1. \A kind \in DOMAIN Route : <<g, n, kind>> \notin {NoCrumb, Earlier}
    BY DEF Crumbs, CallNames
  <2>2. ASSUME NEW r \in DOMAIN rings, NEW i \in DOMAIN rings[r].items
        PROVE  rings[r].items[i] \in {NoCrumb, Earlier}
    BY DEF NewBreadcrumbRing, Add
  <2> QED
    BY <2>1, <2>2 DEF Left
<1>5. CrumbInv
  BY <1>4 DEF CrumbInv
<1> QED
  BY <1>1, <1>2, <1>3, <1>5 DEF SdkInv

\* The two ends of an Init.
LEMMA InitKeepsInv ==
  ASSUME SdkInv, UNCHANGED crashed,
         \/ \E how \in {"Init", "InitFromEnv", "InitWithConfig"} : InitLocks(how)
         \/ \E ok \in BOOLEAN : InitReturns(ok)
  PROVE  SdkInv'
<1>0. UNCHANGED <<callVars, rings, ended, attributed, traces>>
  BY DEF InitLocks, InitReturns, objectVars
<1>1. SpanInv' /\ RaceInv' /\ CrumbInv'
  BY <1>0 DEF SdkInv, SpanInv, Ending, RaceInv, OnlyLentMapsRace, MayHold, CallOf, CrumbInv, Left, RouteOf,
     callVars
<1>2. CASE \E how \in {"Init", "InitFromEnv", "InitWithConfig"} : InitLocks(how)
  <2>1. PICK how \in {"Init", "InitFromEnv", "InitWithConfig"} : InitLocks(how)
    BY <1>2
  <2>2. /\ ~locked /\ locked' = TRUE /\ inits' = inits + 1 /\ inits < MaxInits
        /\ breadcrumbs' = inits'
        /\ globalCtx' \in {globalCtx, inits'} /\ hooks' \in {hooks, inits'}
        /\ sampler' \in {"all", "some"}
        /\ UNCHANGED <<globalClient, hooksAt, ctxAt, clients>>
    BY <2>1 DEF InitLocks, objectVars
  <2>3. inits \in Nat /\ inits' \in 0..MaxInits /\ MaxInits \in Nat
    BY <2>2, SdkAssumption DEF SdkInv, CallsTypeOK, SdkAssumption
  <2>4. CallsTypeOK'
    BY <1>0, <2>2, <2>3 DEF SdkInv, CallsTypeOK, callVars
  <2>5. Published' = Published
    BY <2>2, <2>3 DEF Published
  <2>6. GenInv'
    <3>1. /\ hooks \in Nat /\ globalCtx \in Nat /\ hooks <= inits /\ globalCtx <= inits
          /\ Published \in Int /\ globalClient <= Published
          /\ \A m \in 1..Published : hooksAt[m] \in Nat /\ ctxAt[m] \in Nat
      BY <2>2, <2>3 DEF SdkInv, CallsTypeOK, GenInv, Published, Gens
    <3>2. /\ hooks <= hooks' /\ globalCtx <= globalCtx'
          /\ hooks' \in Nat /\ globalCtx' \in Nat /\ hooks' <= inits'
          /\ globalCtx' <= inits' /\ inits' > 0
      BY <2>2, <2>3, <3>1
    <3>3. \A m \in 1..Published : hooksAt'[m] <= hooks' /\ ctxAt'[m] <= globalCtx'
      BY <2>2, <3>1, <3>2 DEF SdkInv, GenInv
    <3> QED
      BY <2>2, <2>5, <3>1, <3>2, <3>3 DEF GenInv, NoMixedGenerations
  <2>7. MatchInv'
    BY <1>0, <2>2, <2>5 DEF SdkInv, MatchInv, RouteOf, callVars
  <2> QED
    BY <1>1, <2>4, <2>6, <2>7 DEF SdkInv
<1>3. CASE \E ok \in BOOLEAN : InitReturns(ok)
  <2>1. PICK ok \in BOOLEAN : InitReturns(ok)
    BY <1>3
  <2>2. /\ locked /\ locked' = FALSE
        /\ globalClient' \in {inits, 0}
        /\ hooksAt' = [hooksAt EXCEPT ![inits] = hooks]
        /\ ctxAt' = [ctxAt EXCEPT ![inits] = globalCtx]
        /\ UNCHANGED <<inits, hooks, sampler, breadcrumbs, globalCtx>>
    BY <2>1 DEF InitReturns
  <2>3. inits \in 1..MaxInits /\ MaxInits \in Nat /\ inits \in Gens
    BY <2>2, SdkAssumption DEF SdkInv, CallsTypeOK, GenInv, SdkAssumption, Gens
  <2>4. CallsTypeOK'
    <3>1. clients' \in [Gens -> {"none", "open", "closed"}]
      BY <2>1 DEF InitReturns, SdkInv, CallsTypeOK
    <3>2. /\ globalClient' \in 0..MaxInits
          /\ hooksAt' \in [Gens -> 0..MaxInits] /\ ctxAt' \in [Gens -> 0..MaxInits]
      BY <2>2, <2>3 DEF SdkInv, CallsTypeOK
    <3> QED
      BY <1>0, <2>2, <3>1, <3>2 DEF SdkInv, CallsTypeOK, callVars
  <2>5. Published = inits - 1 /\ Published' = inits
    BY <2>2 DEF Published
  <2>6. GenInv'
    <3>1. \A n \in 1..inits : n = inits \/ n \in 1..(inits - 1)
      BY <2>3
    <3>2. hooksAt'[inits] = hooks /\ ctxAt'[inits] = globalCtx
      BY <2>2, <2>3 DEF SdkInv, CallsTypeOK
    <3>3. \A n \in 1..(inits - 1) : hooksAt'[n] = hooksAt[n] /\ ctxAt'[n] = ctxAt[n]
      BY <2>2, <2>3 DEF SdkInv, CallsTypeOK, Gens
    <3> QED
      BY <2>2, <2>3, <2>5, <3>1, <3>2, <3>3
         DEF SdkInv, CallsTypeOK, GenInv, NoMixedGenerations
  <2>7. MatchInv'
    <3>1. \A n \in 1..(inits - 1) :
            hooksAt'[n] = hooksAt[n] /\ ctxAt'[n] = ctxAt[n] /\ n \in 1..inits
      BY <2>2, <2>3 DEF SdkInv, CallsTypeOK, Gens
    <3> QED
      BY <1>0, <2>5, <3>1 DEF SdkInv, MatchInv, RouteOf, callVars
  <2> QED
    BY <1>1, <2>4, <2>6, <2>7 DEF SdkInv
<1> QED
  BY <1>2, <1>3

\* A call begins.
LEMMA CallsKeepsInv ==
  ASSUME SdkInv, UNCHANGED crashed, NEW g \in Goroutines, NEW kind \in Kinds,
         NEW span \in Spans \cup {"none"}, Calls(g, kind, span)
  PROVE  SdkInv'
<1> DEFINE c == [NoCall EXCEPT !.kind = kind, !.span = span]
<1>0. kind \in DOMAIN Route /\ kind # "none" /\ MaxCalls \in Nat /\ MaxInits \in Nat
      /\ "none" \notin Spans
  <2>1. "none" \notin DOMAIN Route
    BY DEF Route
  <2> QED
    BY <2>1, SdkAssumption DEF SdkAssumption
<1>1. /\ c \in Locals /\ c.kind = kind /\ c.span = span /\ c.held = {}
      /\ span \in Spans <=> kind = "end"
  <2>1. c \in Locals /\ c.kind = kind /\ c.span = span /\ c.held = {}
    <3>1. NoCall \in Locals /\ NoCall.held = {}
      BY <1>0 DEF NoCall, Locals
    <3>2. c.kind = kind /\ c.span = span /\ c.held = NoCall.held
      BY DEF NoCall
    <3>3. c \in Locals
      BY <1>0, <3>1 DEF Locals
    <3> QED
      BY <3>1, <3>2, <3>3
  <2>2. span \in Spans <=> kind = "end"
    BY <1>0 DEF Calls
  <2> QED
    BY <2>1, <2>2
<1> HIDE DEF c
<1>2. /\ at[g] = 0 /\ made[g] < MaxCalls
      /\ call' = [call EXCEPT ![g] = c] /\ at' = [at EXCEPT ![g] = 1]
      /\ made' = [made EXCEPT ![g] = @ + 1] /\ dropped' = [dropped EXCEPT ![g] = "no"]
      /\ UNCHANGED <<initVars, objectVars>>
  BY DEF Calls, c
<1>3. CallsTypeOK'
  <2>1. 1 <= Len(Route[kind])
    BY <1>0, RoutesAreGood DEF GoodRoute
  <2>2. made[g] + 1 \in 0..MaxCalls
    BY <1>0, <1>2 DEF SdkInv, CallsTypeOK
  <2> QED
    BY <1>0, <1>1, <1>2, <2>1, <2>2
       DEF SdkInv, CallsTypeOK, initVars, packageVars, objectVars
<1>4. GenInv'
  BY <1>2 DEF SdkInv, GenInv, NoMixedGenerations, Published, initVars, packageVars
<1>5. at'[g] = 1 /\ call'[g] = c
      /\ \A h \in Goroutines \ {g} : call'[h] = call[h] /\ at'[h] = at[h]
  BY <1>2 DEF SdkInv, CallsTypeOK
<1>6. \A r, x : ~Before(r, 1, x)
  BY DEF Before
<1>7. MatchInv'
  BY <1>2, <1>5, <1>6 DEF SdkInv, MatchInv, RouteOf, Published, initVars, packageVars
<1>8. SpanInv' /\ RaceInv'
  BY <1>1, <1>2, <1>5 DEF SdkInv, SpanInv, Ending, RaceInv, OnlyLentMapsRace, MayHold, CallOf, objectVars
<1>9. CrumbInv'
  <2>1. rings' = rings
    BY <1>2 DEF objectVars
  <2>2. /\ made[g] \in Nat /\ made'[g] = made[g] + 1 /\ dropped'[g] = "no"
        /\ \A h \in Goroutines \ {g} : made'[h] = made[h] /\ dropped'[h] = dropped[h]
    BY <1>2 DEF SdkInv, CallsTypeOK
  <2>3. \A h \in Goroutines, n \in 1..MaxCalls : Left(h, n)' <=> Left(h, n)
    BY <2>1 DEF Left
  <2>4. \A n \in 1..MaxCalls : Left(g, n) => n <= made[g]
    BY DEF SdkInv, CrumbInv
  <2>5. \A n \in 1..MaxCalls : n <= made[g] => n <= made[g] + 1 /\ n # made[g] + 1
    BY <1>0, <2>2
  <2>6. made[g] + 1 > 0
    BY <2>2
  <2> QED
    BY <1>5, <2>2, <2>3, <2>4, <2>5, <2>6 DEF SdkInv, CrumbInv, RouteOf
<1> QED
  BY <1>3, <1>4, <1>7, <1>8, <1>9 DEF SdkInv

\* A call that ends early takes its account with it.
LEMMA DropKeepsInv ==
  ASSUME SdkInv, UNCHANGED <<initVars, attributed, rings, ended, traces, crashed>>,
         clients' \in [Gens -> {"none", "open", "closed"}],
         NEW g \in Goroutines, at[g] > 0, NEW when \in {"early", "late"}, Drops(g, when),
         when = "early" => StageOf(g) \in EarlyStages
  PROVE  SdkInv'
<1>0. CallsTypeOK /\ GoodStage(call[g].kind, RouteOf(g), at[g])
  BY UnderWay DEF SdkInv
<1>1. /\ made' = made /\ dropped' = [dropped EXCEPT ![g] = when]
      /\ call' \in [Goroutines -> Locals] /\ at' \in [Goroutines -> Nat]
      /\ \A h \in Goroutines \ {g} : call'[h] = call[h] /\ at'[h] = at[h]
      /\ call'[g] = NoCall /\ at'[g] = 0
  BY <1>0, DropLands
<1>2. CallsTypeOK'
  <2>1. dropped' \in [Goroutines -> {"no", "early", "late"}] /\ made' \in [Goroutines -> 0..MaxCalls]
    BY <1>0, <1>1 DEF CallsTypeOK
  <2>2. \A h \in Goroutines :
          /\ at'[h] = 0 <=> call'[h].kind = "none"
          /\ at'[h] > 0 => at'[h] <= Len(Route[call'[h].kind])
    <3>1. \A h \in Goroutines \ {g} :
            /\ at[h] = 0 <=> call[h].kind = "none"
            /\ at[h] > 0 => at[h] <= Len(Route[call[h].kind])
      BY <1>0 DEF CallsTypeOK
    <3>2. NoCall.kind = "none"
      BY DEF NoCall
    <3> QED
      BY <1>1, <3>1, <3>2
  <2> QED
    BY <1>0, <1>1, <2>1, <2>2 DEF CallsTypeOK, initVars, packageVars
<1>3. GenInv' /\ MatchInv'
  BY <1>1 DEF SdkInv, GenInv, NoMixedGenerations, MatchInv, Published, RouteOf,
     initVars, packageVars
<1>4. SpanInv' /\ RaceInv'
  BY <1>1, SdkAssumption
     DEF SdkInv, SpanInv, Ending, RaceInv, OnlyLentMapsRace, MayHold, CallOf, NoCall, SdkAssumption
<1>5. CrumbInv'
  <2>1. \A h \in Goroutines, n \in 1..MaxCalls : Left(h, n)' <=> Left(h, n)
    BY DEF Left
  <2>2. when = "early" => ~Before(RouteOf(g), at[g], "add")
    BY <1>0 DEF GoodStage, StageOf
  <2>3. /\ \A h \in Goroutines \ {g} : dropped'[h] = dropped[h]
        /\ made[g] > 0
        /\ \A n \in 1..MaxCalls :
             Left(g, n) => n <= made[g] /\ (when = "early" => n # made[g])
        /\ dropped'[g] = when
    BY <1>0, <1>1, <2>2 DEF SdkInv, CrumbInv, CallsTypeOK
  <2> QED
    BY <1>1, <2>1, <2>3 DEF SdkInv, CrumbInv, RouteOf
<1> QED
  BY <1>2, <1>3, <1>4, <1>5 DEF SdkInv

\* A call goes on, or ends after its last stage.
LEMMA ContinueKeepsInv ==
  ASSUME SdkInv, UNCHANGED <<initVars, attributed, crashed>>,
         clients' \in [Gens -> {"none", "open", "closed"}],
         NEW g \in Goroutines, at[g] > 0,
         NEW n \in {1, 2}, NEW d \in Locals, Continues(g, n, d)
  PROVE  SdkInv'
<1> DEFINE s == StageOf(g)
           r == RouteOf(g)
           c == call[g]
           Ended == call'[g] = NoCall /\ at'[g] = 0
           Moved == /\ call'[g] = d /\ at'[g] = at[g] + n
                    /\ at'[g] <= Len(r) /\ s # "send"
                    /\ \A x \in {"client", "context", "hooks"} :
                         Before(r, at'[g], x) => Before(r, at[g], x) \/ s = x
                    /\ Before(r, at[g], "add") \/ s = "add" =>
                         Before(r, at'[g], "add")
<1>0. /\ CallsTypeOK /\ GoodStage(c.kind, r, at[g])
      /\ c \in Locals /\ at[g] \in 1..Len(r) /\ Len(r) \in Nat
  BY UnderWay DEF SdkInv
<1>1. /\ made' = made /\ dropped' = dropped
      /\ call' \in [Goroutines -> Locals] /\ at' \in [Goroutines -> Nat]
      /\ \A h \in Goroutines \ {g} : call'[h] = call[h] /\ at'[h] = at[h]
      /\ Ended \/ Moved
  BY <1>0, Landing
<1>2. d.kind = c.kind /\ d.span = c.span /\ Route[d.kind] = r
  BY DEF Continues, RouteOf
<1>3. NoCall.kind = "none" /\ NoCall.span = "none" /\ NoCall.held = {}
  BY DEF NoCall
<1> HIDE DEF s, r, c
<1>4. CallsTypeOK'
  <2>1. ended' \subseteq Spans /\ traces' \in [Spans -> 0..2]
    <3>1. s = "end" => c.span \in Spans
      BY <1>0 DEF SdkInv, SpanInv, GoodStage, s, r, c, StageOf
    <3>2. ended' \subseteq Spans
      BY <1>0, <3>1 DEF Continues, CallsTypeOK, s, c
    <3>3. traces' \in [Spans -> 0..2]
      <4>1. CASE s = "send"
        <5>1. traces' = [x \in Spans |-> IF c.span = x /\ traces[x] < 2
                                         THEN traces[x] + 1 ELSE traces[x]]
          BY <4>1 DEF Continues, s, c
        <5>2. \A x \in Spans : traces[x] \in 0..2
          BY <1>0 DEF CallsTypeOK
        <5> QED
          BY <5>1, <5>2
      <4>2. CASE s # "send"
        BY <1>0, <4>2 DEF Continues, CallsTypeOK, s
      <4> QED
        BY <4>1, <4>2
    <3> QED
      BY <3>2, <3>3
  <2>2. \A h \in Goroutines :
          /\ at'[h] = 0 <=> call'[h].kind = "none"
          /\ at'[h] > 0 => at'[h] <= Len(Route[call'[h].kind])
    <3>1. \A h \in Goroutines \ {g} :
            /\ at[h] = 0 <=> call[h].kind = "none"
            /\ at[h] > 0 => at[h] <= Len(Route[call[h].kind])
      BY <1>0 DEF CallsTypeOK
    <3>2. CASE Ended
      BY <1>1, <1>3, <3>1, <3>2
    <3>3. CASE Moved
      <4>1. at'[g] > 0 /\ at'[g] <= Len(Route[d.kind]) /\ call'[g] = d
        BY <1>0, <1>2, <3>3
      <4>2. d.kind # "none"
        BY <1>0, <1>2 DEF CallsTypeOK, c
      <4> QED
        BY <1>1, <3>1, <4>1, <4>2
    <3> QED
      BY <1>1, <3>2, <3>3
  <2> QED
    BY <1>0, <1>1, <2>1, <2>2 DEF CallsTypeOK, initVars, packageVars
<1>5. GenInv'
  BY DEF SdkInv, GenInv, NoMixedGenerations, Published, initVars, packageVars
<1>6. MatchInv'
  <2>1. Published' = Published /\ ctxAt' = ctxAt /\ hooksAt' = hooksAt
    BY DEF Published, initVars, packageVars
  <2>2. ASSUME Moved, Before(r, at'[g], "client")
        PROVE  /\ d.client \in 1..Published
               /\ Before(r, at'[g], "context") => ctxAt[d.client] <= d.ctx
               /\ Before(r, at'[g], "hooks") => hooksAt[d.client] <= d.hooks
    <3>1. CASE s = "client"
      <4>1. ~Before(r, at'[g], "context") /\ ~Before(r, at'[g], "hooks")
        BY <1>0, <2>2, <3>1 DEF GoodStage, s, r, StageOf
      <4>2. d.client = globalClient /\ globalClient # 0
        BY <3>1 DEF Continues, s
      <4>3. globalClient \in 0..MaxInits /\ globalClient <= Published
        BY DEF SdkInv, CallsTypeOK, GenInv
      <4>4. Published \in Int
        BY DEF SdkInv, CallsTypeOK, Published
      <4> QED
        BY <4>1, <4>2, <4>3, <4>4, SdkAssumption DEF SdkAssumption
    <3>2. CASE s # "client"
      <4>1. Before(r, at[g], "client")
        BY <2>2, <3>2
      <4>2. d.client = c.client /\ c.client \in 1..Published
        BY <3>2, <4>1 DEF Continues, SdkInv, MatchInv, s, r, c
      <4>3. ctxAt[c.client] <= globalCtx /\ hooksAt[c.client] <= hooks
        BY <4>2 DEF SdkInv, GenInv
      <4>4. Before(r, at[g], "context") => ctxAt[c.client] <= c.ctx
        BY <4>1 DEF SdkInv, MatchInv, r, c
      <4>5. Before(r, at[g], "hooks") => hooksAt[c.client] <= c.hooks
        BY <4>1 DEF SdkInv, MatchInv, r, c
      <4>6. /\ d.ctx = IF s = "context" THEN globalCtx ELSE c.ctx
            /\ d.hooks = IF s = "hooks" THEN hooks ELSE c.hooks
        BY DEF Continues, s, c
      <4> QED
        BY <2>2, <4>2, <4>3, <4>4, <4>5, <4>6
    <3> QED
      BY <3>1, <3>2
  <2> QED
    BY <1>1, <1>2, <2>1, <2>2 DEF SdkInv, MatchInv, RouteOf
<1>7. SpanInv'
  <2>1. c.span \in Spans <=> c.kind = "end"
    BY DEF SdkInv, SpanInv, c
  <2>2. s = "end" <=> (c.kind = "end" /\ at[g] = 1)
    BY <1>0 DEF GoodStage, s, r, StageOf
  <2>3. CASE s = "end"
    <3>1. c.span \notin ended /\ ended' = ended \cup {c.span} /\ traces' = traces
      BY <2>3 DEF Continues, s, c
    <3>2. \A h \in Goroutines \ {g} :
            /\ Ending(h)' <=> Ending(h)
            /\ Ending(h) => call[h].span # c.span
      BY <1>1, <3>1 DEF SdkInv, SpanInv, Ending
    <3>3. call'[g].span \in Spans <=> call'[g].kind = "end"
      BY <1>1, <1>2, <1>3, <2>1, SdkAssumption DEF SdkAssumption
    <3>4. Ending(g)' => call'[g].span = c.span
      BY <1>1, <1>2 DEF Ending
    <3>5. traces[c.span] = 0
      BY <2>1, <2>2, <2>3, <3>1 DEF SdkInv, SpanInv
    <3> QED
      BY <1>1, <3>1, <3>2, <3>3, <3>4, <3>5 DEF SdkInv, SpanInv
  <2>4. CASE s = "send"
    <3>1. Ended /\ ended' = ended
      BY <1>1, <2>4 DEF Continues, s
    <3>2. traces' = [x \in Spans |-> IF c.span = x /\ traces[x] < 2
                                     THEN traces[x] + 1 ELSE traces[x]]
      BY <2>4 DEF Continues, s, c
    <3>3. c.kind = "end" => Ending(g)
      BY <1>0, <2>2, <2>4 DEF Ending, c
    <3>4. c.span \in Spans => traces[c.span] = 0 /\ c.span \in ended
      BY <2>1, <3>3 DEF SdkInv, SpanInv, c
    <3>5. \A h \in Goroutines \ {g} :
            /\ Ending(h)' <=> Ending(h)
            /\ Ending(h) => call[h].span # c.span
      BY <1>1, <2>1, <3>3 DEF SdkInv, SpanInv, Ending, c
    <3>6. ~Ending(g)' /\ call'[g].span \notin Spans /\ call'[g].kind # "end"
      BY <1>3, <3>1, SdkAssumption DEF SdkAssumption, Ending
    <3>7. \A x \in Spans : /\ x # c.span => traces'[x] = traces[x]
                           /\ x = c.span => traces'[x] = 1
      BY <3>2, <3>4
    <3>8. \A x \in Spans : traces'[x] <= 1 /\ (x \notin ended' => traces'[x] = 0)
      BY <3>1, <3>4, <3>7 DEF SdkInv, SpanInv
    <3>9. \A h \in Goroutines \ {g} :
            Ending(h) => call[h].span \in Spans
      BY DEF SdkInv, SpanInv, Ending
    <3> QED
      BY <1>1, <3>1, <3>5, <3>6, <3>7, <3>8, <3>9 DEF SdkInv, SpanInv
  <2>5. CASE s \notin {"end", "send"}
    <3>1. ended' = ended /\ traces' = traces
      BY <2>5 DEF Continues, s
    <3>2. \A h \in Goroutines : Ending(h)' => Ending(h) /\ call'[h].span = call[h].span
      BY <1>0, <1>1, <1>2, <1>3, <2>2, <2>5 DEF Ending, c
    <3>3. call'[g].span \in Spans <=> call'[g].kind = "end"
      BY <1>1, <1>2, <1>3, <2>1, SdkAssumption DEF SdkAssumption
    <3> QED
      BY <1>1, <3>1, <3>2, <3>3 DEF SdkInv, SpanInv
  <2> QED
    BY <2>3, <2>4, <2>5
<1>8. RaceInv'
  <2>1. \A m \in d.held : MayHold(CallOf(g), m)
    BY DEF Continues, SdkInv, RaceInv
  <2>2. CASE Moved
    <3>1. CallOf(g)' = CallOf(g) /\ call'[g].held = d.held
      BY <1>1, <1>2, <2>2 DEF CallOf, c
    <3>2. \A h \in Goroutines \ {g} : CallOf(h)' = CallOf(h) /\ call'[h].held = call[h].held
      BY <1>1 DEF CallOf
    <3> QED
      BY <2>1, <3>1, <3>2 DEF SdkInv, RaceInv, OnlyLentMapsRace, MayHold
  <2>3. CASE Ended
    <3>1. call'[g].held = {}
      BY <1>3, <2>3
    <3>2. \A h \in Goroutines \ {g} : CallOf(h)' = CallOf(h) /\ call'[h].held = call[h].held
      BY <1>1 DEF CallOf
    <3> QED
      BY <3>1, <3>2 DEF SdkInv, RaceInv, OnlyLentMapsRace, MayHold
  <2> QED
    BY <1>1, <2>2, <2>3
<1>9. CrumbInv'
  <2>1. made[g] > 0 /\ dropped[g] = "no" /\ made[g] \in 1..MaxCalls /\ MaxCalls \in Nat
    BY SdkAssumption DEF SdkInv, CrumbInv, CallsTypeOK, SdkAssumption
  <2>2. \A h \in Goroutines, m \in 1..MaxCalls :
          Left(h, m)' => Left(h, m) \/ (s = "add" /\ h = g /\ m = made[g])
    <3>1. CASE s = "add"
      <4>1. rings' = [rings EXCEPT ![RingOf(g)] = Add(@, CallOf(g))]
        BY <3>1 DEF Continues, s
      <4>2. \A q \in DOMAIN rings : \A i \in DOMAIN rings'[q].items :
              \/ i \in DOMAIN rings[q].items /\ rings'[q].items[i] = rings[q].items[i]
              \/ rings'[q].items[i] = <<g, made[g], call[g].kind>>
        BY <4>1 DEF Add, CallOf
      <4> QED
        BY <3>1, <4>1, <4>2 DEF Left
    <3>2. CASE s = "clear"
      <4>1. rings' = [rings EXCEPT ![RingOf(g)] = Clear(@)]
        BY <3>2 DEF Continues, s
      <4>2. \A q \in DOMAIN rings : rings'[q].items = rings[q].items
        BY <4>1 DEF Clear
      <4> QED
        BY <4>1, <4>2 DEF Left
    <3>3. CASE s \notin {"add", "clear"}
      BY <3>3 DEF Continues, Left, s
    <3> QED
      BY <3>1, <3>2, <3>3
  <2>3. \A m \in 1..MaxCalls :
          Left(g, m)' => m <= made[g] /\ (at'[g] > 0 /\ m = made[g] =>
                                            Before(r, at'[g], "add"))
    BY <1>1, <2>1, <2>2 DEF SdkInv, CrumbInv, r
  <2>4. at'[g] > 0 => RouteOf(g)' = r
    BY <1>1, <1>2 DEF RouteOf
  <2> QED
    BY <1>1, <2>1, <2>2, <2>3, <2>4 DEF SdkInv, CrumbInv, RouteOf
<1> QED
  BY <1>4, <1>5, <1>6, <1>7, <1>8, <1>9 DEF SdkInv

\* An attribute setter of a span.
LEMMA SetKeepsInv ==
  ASSUME SdkInv, NEW o \in Spans, SetAttribute(o)
  PROVE  SdkInv'
<1>1. /\ UNCHANGED <<initVars, callVars, clients, rings, ended, traces, crashed>>
      /\ attributed' = attributed \cup {o}
  BY DEF SetAttribute
<1>2. CallsTypeOK'
  BY <1>1 DEF SdkInv, CallsTypeOK, initVars, packageVars, callVars
<1>3. GenInv' /\ MatchInv'
  BY <1>1 DEF SdkInv, GenInv, NoMixedGenerations, MatchInv, Published, RouteOf,
     initVars, packageVars, callVars
<1>4. SpanInv' /\ RaceInv' /\ CrumbInv'
  BY <1>1 DEF SdkInv, SpanInv, Ending, RaceInv, OnlyLentMapsRace, MayHold, CallOf,
     CrumbInv, Left, RouteOf, callVars
<1> QED
  BY <1>2, <1>3, <1>4 DEF SdkInv

\* The process dies.
LEMMA DeathKeepsInv ==
  ASSUME SdkInv, NEW g \in Goroutines, NEW m, WriteMeetsWalk(g, m)
  PROVE  SdkInv'
<1>1. /\ UNCHANGED <<initVars, callVars, objectVars>>
      /\ crashed' = {<<CallOf(g), m>>} /\ Walking(g, m)
  BY DEF WriteMeetsWalk
<1>2. at[g] > 0 /\ call[g] \in Locals /\ made[g] > 0
  BY <1>1, UnderWay DEF Walking, Doing, SdkInv, CrumbInv
<1>3. CallOf(g) \in CallNames /\ KindOf(CallOf(g)) = call[g].kind
  BY <1>2, NameOfCall DEF SdkInv
<1>4. \/ m \in call[g].held /\ MayHold(CallOf(g), m)
      \/ call[g].kind = "scopeEvent" /\ m = CallOf(g)
  BY <1>1 DEF Walking, SdkInv, RaceInv
<1>5. m \in Maps
  BY <1>2, <1>3, <1>4 DEF Locals, Maps, Crumbs
<1>6. CallsTypeOK'
  BY <1>1, <1>3, <1>5 DEF SdkInv, CallsTypeOK, initVars, packageVars, callVars, objectVars
<1>7. OnlyLentMapsRace'
  BY <1>1, <1>3, <1>4 DEF OnlyLentMapsRace, MayHold
<1>8. GenInv' /\ MatchInv' /\ SpanInv' /\ CrumbInv'
  BY <1>1 DEF SdkInv, GenInv, NoMixedGenerations, MatchInv, Published, RouteOf, SpanInv,
     Ending, CrumbInv, Left, initVars, packageVars, callVars, objectVars
<1>9. RaceInv'
  BY <1>1, <1>7 DEF SdkInv, RaceInv, MayHold, CallOf, callVars
<1> QED
  BY <1>6, <1>8, <1>9 DEF SdkInv

LEMMA InvStep == SdkInv /\ [SdkNext]_sdkVars => SdkInv'
<1> SUFFICES ASSUME SdkInv, [SdkNext]_sdkVars PROVE SdkInv'
  OBVIOUS
<1>1. ASSUME \/ \E how \in {"Init", "InitFromEnv", "InitWithConfig"} : InitLocks(how)
             \/ \E ok \in BOOLEAN : InitReturns(ok),
             UNCHANGED crashed
      PROVE  SdkInv'
  BY <1>1, InitKeepsInv
<1>2. ASSUME NEW g \in Goroutines, NEW kind \in Kinds, NEW span \in Spans \cup {"none"},
             Calls(g, kind, span), UNCHANGED crashed
      PROVE  SdkInv'
  BY <1>2, CallsKeepsInv
<1>3. ASSUME NEW g \in Goroutines, Stage(g), UNCHANGED crashed
      PROVE  SdkInv'
  <2>0. made[g] > 0
    BY <1>3, StageIsUnderWay DEF SdkInv, CrumbInv
  <2>1. /\ at[g] > 0 /\ UNCHANGED <<initVars, attributed, crashed>>
        /\ clients' \in [Gens -> {"none", "open", "closed"}]
        /\ \/ /\ UNCHANGED <<rings, ended, traces>>
              /\ \/ Drops(g, "early") /\ StageOf(g) \in EarlyStages
                 \/ Drops(g, "late") /\ StageOf(g) \in LateStages
           \/ \E n \in {1, 2}, d \in Locals : Continues(g, n, d)
    BY <1>3, <2>0, StageMoves DEF SdkInv
  <2>2. CASE \E n \in {1, 2}, d \in Locals : Continues(g, n, d)
    BY <2>1, <2>2, ContinueKeepsInv
  <2>3. CASE UNCHANGED <<rings, ended, traces>> /\ Drops(g, "early")
             /\ StageOf(g) \in EarlyStages
    BY <2>1, <2>3, DropKeepsInv
  <2>4. CASE UNCHANGED <<rings, ended, traces>> /\ Drops(g, "late")
    BY <2>1, <2>4, DropKeepsInv
  <2> QED
    BY <2>1, <2>2, <2>3, <2>4
<1>4. ASSUME NEW o \in Spans, SetAttribute(o)
      PROVE  SdkInv'
  BY <1>4, SetKeepsInv
<1>5. ASSUME NEW g \in Goroutines, NEW m, WriteMeetsWalk(g, m)
      PROVE  SdkInv'
  BY <1>5, DeathKeepsInv
<1>6. CASE UNCHANGED sdkVars
  <2>1. CallsTypeOK' /\ GenInv'
    BY <1>6 DEF SdkInv, CallsTypeOK, GenInv, NoMixedGenerations, Published,
       sdkVars, initVars, packageVars, callVars, objectVars
  <2>2. MatchInv' /\ SpanInv'
    BY <1>6 DEF SdkInv, MatchInv, Published, RouteOf, SpanInv, Ending,
       sdkVars, initVars, packageVars, callVars, objectVars
  <2>3. RaceInv' /\ CrumbInv'
    BY <1>6 DEF SdkInv, RaceInv, OnlyLentMapsRace, MayHold, CallOf, CrumbInv, Left, RouteOf,
       sdkVars, initVars, packageVars, callVars, objectVars
  <2> QED
    BY <2>1, <2>2, <2>3 DEF SdkInv
<1> QED
  BY <1>1, <1>2, <1>3, <1>4, <1>5, <1>6 DEF SdkNext

LEMMA InvHolds == SdkSpec => []SdkInv
  BY InvInit, InvStep, PTL DEF SdkSpec

-----------------------------------------------------------------------------
\* Once no Init is under way, client, ring, hooks and context belong together.
THEOREM GenerationsStayTogether == SdkSpec => []NoMixedGenerations
<1>1. SdkInv => NoMixedGenerations
  BY DEF SdkInv, GenInv
<1> QED
  BY <1>1, InvHolds, PTL

\* An entry gets to a client with hooks and a context no older than those in force
\* when that client was published.
THEOREM EntriesMatchClients == SdkSpec => []NeverOlderThanItsClient
<1>1. SdkInv => NeverOlderThanItsClient
  <2> SUFFICES ASSUME SdkInv, NEW g \in Goroutines, Doing(g, "send")
               PROVE  /\ call[g].ctx >= ctxAt[call[g].client]
                      /\ call[g].kind \notin ScopeKinds =>
                           call[g].hooks >= hooksAt[call[g].client]
    BY DEF NeverOlderThanItsClient
  <2>1. CallsTypeOK /\ at[g] > 0 /\ StageOf(g) = "send"
    BY DEF Doing, StageOf, RouteOf, SdkInv
  <2>2. GoodStage(call[g].kind, RouteOf(g), at[g]) /\ call[g] \in Locals
    BY <2>1, UnderWay
  <2>3. /\ call[g].client \in 1..Published
        /\ ctxAt[call[g].client] <= call[g].ctx
        /\ call[g].kind \notin ScopeKinds => hooksAt[call[g].client] <= call[g].hooks
    BY <2>1, <2>2 DEF SdkInv, MatchInv, GoodStage, StageOf
  <2>4. /\ call[g].client \in Gens
        /\ call[g].ctx \in Int /\ call[g].hooks \in Int
    BY <2>1, <2>2, <2>3, SdkAssumption DEF CallsTypeOK, Published, Gens, Locals, SdkAssumption
  <2>5. ctxAt[call[g].client] \in Int /\ hooksAt[call[g].client] \in Int
    BY <2>1, <2>4 DEF CallsTypeOK
  <2> QED
    BY <2>3, <2>4, <2>5
<1> QED
  BY <1>1, InvHolds, PTL

\* What a hook or the sampler filters out has left no breadcrumb.
THEOREM NothingLeftBehind == SdkSpec => []FilteredLeavesNothing
<1>1. SdkInv => FilteredLeavesNothing
  <2> SUFFICES ASSUME SdkInv, NEW g \in Goroutines, dropped[g] = "early",
                      NEW r \in DOMAIN rings, NEW i \in DOMAIN rings[r].items,
                      NEW kind \in Kinds, rings[r].items[i] = <<g, made[g], kind>>
               PROVE  FALSE
    BY DEF FilteredLeavesNothing
  <2>1. made[g] \in 1..MaxCalls /\ kind \in DOMAIN Route
    BY SdkAssumption DEF SdkInv, CallsTypeOK, CrumbInv, SdkAssumption
  <2>2. Left(g, made[g])
    BY <2>1 DEF Left
  <2> QED
    BY <2>1, <2>2 DEF SdkInv, CrumbInv
<1> QED
  BY <1>1, InvHolds, PTL

\* A span is sent once, whoever ends it.
THEOREM SpansAreSentOnce == SdkSpec => []OneTracePerSpan
<1>1. SdkInv => OneTracePerSpan
  BY DEF SdkInv, SpanInv, OneTracePerSpan
<1> QED
  BY <1>1, InvHolds, PTL

\* A process that dies of concurrent map access dies of a map that was lent to the
\* package: a span's own, the argument of the call that walks it, or the Data of a
\* breadcrumb in the trail of an error.
THEOREM OnlyLentMapsAreAtRisk == SdkSpec => []OnlyLentMapsRace
<1>1. SdkInv => OnlyLentMapsRace
  BY DEF SdkInv, RaceInv
<1> QED
  BY <1>1, InvHolds, PTL

-----------------------------------------------------------------------------
(* The rings.                                                              *)

RingNames == Gens \cup {ScopeRing}

RingsInv == rings \in [RingNames -> Rings(Crumbs)]

\* A step adds a breadcrumb to one ring, clears one, or leaves them alone.
LEMMA RingsMove ==
  ASSUME SdkInv, [SdkNext]_sdkVars
  PROVE  \/ rings' = rings
         \/ \E q, b : b \in Crumbs /\ rings' = [rings EXCEPT ![q] = Add(@, b)]
         \/ \E q : rings' = [rings EXCEPT ![q] = Clear(@)]
<1>1. ASSUME NEW g \in Goroutines, Stage(g), rings' # rings
      PROVE  \/ \E q, b : b \in Crumbs /\ rings' = [rings EXCEPT ![q] = Add(@, b)]
             \/ \E q : rings' = [rings EXCEPT ![q] = Clear(@)]
  <2>0. at[g] > 0 /\ made[g] > 0
    BY <1>1, StageIsUnderWay DEF SdkInv, CrumbInv
  <2>1. at[g] > 0 /\ \E n \in {1, 2}, d \in Locals : Continues(g, n, d)
    BY <1>1, <2>0, StageMoves DEF SdkInv
  <2>2. \/ rings' = [rings EXCEPT ![RingOf(g)] = Add(@, CallOf(g))]
        \/ rings' = [rings EXCEPT ![RingOf(g)] = Clear(@)]
    BY <1>1, <2>1 DEF Continues
  <2>4. CallOf(g) \in Crumbs
    BY <2>0, NameOfCall DEF SdkInv, Crumbs
  <2> QED
    BY <2>2, <2>4
<1>2. \A how : InitLocks(how) => rings' = rings
  BY DEF InitLocks, objectVars
<1>3. \A ok : InitReturns(ok) => rings' = rings
  BY DEF InitReturns
<1>4. \A g, kind, span : Calls(g, kind, span) => rings' = rings
  BY DEF Calls, objectVars
<1>5. \A o : SetAttribute(o) => rings' = rings
  BY DEF SetAttribute
<1>6. \A g, m : WriteMeetsWalk(g, m) => rings' = rings
  BY DEF WriteMeetsWalk, objectVars
<1>7. UNCHANGED sdkVars => rings' = rings
  BY DEF sdkVars, objectVars
<1> QED
  BY <1>1, <1>2, <1>3, <1>4, <1>5, <1>6, <1>7 DEF SdkNext

LEMMA RingsInit == SdkInit => RingsInv
<1> SUFFICES ASSUME SdkInit PROVE RingsInv
  OBVIOUS
<1>1. Earlier \in Crumbs
  BY DEF Crumbs
<1>2. NewBreadcrumbRing \in Rings(Crumbs)
  BY NewRingIsEmpty
<1>3. Add(NewBreadcrumbRing, Earlier) \in Rings(Crumbs)
  BY <1>1, <1>2, AddIsRing
<1> QED
  BY <1>2, <1>3 DEF SdkInit, RingsInv, RingNames

LEMMA RingsStep == SdkInv /\ RingsInv /\ [SdkNext]_sdkVars => RingsInv'
<1> SUFFICES ASSUME SdkInv, RingsInv, [SdkNext]_sdkVars PROVE RingsInv'
  OBVIOUS
<1>1. \A q \in RingNames, b \in Crumbs : Add(rings[q], b) \in Rings(Crumbs)
  BY AddIsRing DEF RingsInv
<1>2. \A q \in RingNames : Clear(rings[q]) \in Rings(Crumbs)
  BY ClearForgets DEF RingsInv
<1>3. ASSUME NEW q, NEW b \in Crumbs, rings' = [rings EXCEPT ![q] = Add(@, b)]
      PROVE  RingsInv'
  BY <1>1, <1>3 DEF RingsInv
<1>4. ASSUME NEW q, rings' = [rings EXCEPT ![q] = Clear(@)]
      PROVE  RingsInv'
  BY <1>2, <1>4 DEF RingsInv
<1> QED
  BY <1>3, <1>4, RingsMove DEF RingsInv

LEMMA RingsHold == SdkSpec => []RingsInv
<1>1. SdkInv /\ RingsInv /\ [SdkNext]_sdkVars => RingsInv'
  BY RingsStep
<1> QED
  BY RingsInit, <1>1, InvHolds, PTL DEF SdkSpec

\* The package keeps to its types; its rings are as long as they say.
THEOREM SdkTypeCorrect == SdkSpec => []SdkTypeOK
<1>1. SdkInv /\ RingsInv => SdkTypeOK
  <2> SUFFICES ASSUME SdkInv, RingsInv PROVE SdkTypeOK
    OBVIOUS
  <2>1. ASSUME NEW r \in DOMAIN rings
        PROVE  /\ rings[r].position \in 0..(maxSize - 1)
               /\ Size(rings[r]) = Len(Snapshot(rings[r]))
    <3>1. rings[r] \in Rings(Crumbs)
      BY DEF RingsInv
    <3> QED
      BY <3>1, SnapshotEntries DEF Rings
  <2> QED
    BY <2>1 DEF SdkTypeOK, SdkInv, CallsTypeOK
<1> QED
  BY <1>1, InvHolds, RingsHold, PTL

\* Every ring is a bounded trail, for all who still hold it.
THEOREM RingsAreTrails == SdkSpec => TrailContract
<1>1. SdkInit => \A r \in Gens : TrailOf(r)!TrailInit
  <2> SUFFICES ASSUME SdkInit, NEW r \in Gens PROVE TrailOf(r)!TrailInit
    OBVIOUS
  <2>1. rings[r] = NewBreadcrumbRing
    BY SdkAssumption DEF SdkInit, Gens, ScopeRing, SdkAssumption
  <2> QED
    BY <2>1, NewRingIsEmpty DEF TrailOf!TrailInit
<1>2. SdkInv /\ RingsInv /\ [SdkNext]_sdkVars =>
        [\A r \in Gens \cup {ScopeRing} :
           UNCHANGED Snapshot(rings[r]) \/ TrailOf(r)!TrailNext]_sdkVars
  <2> SUFFICES ASSUME SdkInv, RingsInv, [SdkNext]_sdkVars, NEW r \in RingNames
               PROVE  TrailOf(r)!TrailNext \/ UNCHANGED Snapshot(rings[r])
    BY DEF RingNames
  <2>0. rings[r] \in Rings(Crumbs)
    BY DEF RingsInv
  <2>1. ASSUME NEW q, NEW b \in Crumbs, rings' = [rings EXCEPT ![q] = Add(@, b)], q = r
        PROVE  TrailOf(r)!TrailNext
    <3>1. rings'[r] = Add(rings[r], b)
      BY <2>1 DEF RingsInv
    <3>2. Snapshot(rings[r])' = NewestOf(Append(Snapshot(rings[r]), b))
      BY <2>0, <3>1, AddRecords
    <3> QED
      BY <3>2 DEF NewestOf, TrailOf!TrailNext, TrailOf!Record, TrailOf!Newest
  <2>2. ASSUME NEW q, rings' = [rings EXCEPT ![q] = Clear(@)], q = r
        PROVE  TrailOf(r)!TrailNext
    <3>1. rings'[r] = Clear(rings[r])
      BY <2>2 DEF RingsInv
    <3>2. Snapshot(rings[r])' = <<>>
      BY <2>0, <3>1, ClearForgets
    <3> QED
      BY <3>2 DEF TrailOf!TrailNext, TrailOf!Forget
  <2>3. CASE rings'[r] = rings[r]
    BY <2>3
  <2> QED
    BY <2>1, <2>2, <2>3, RingsMove DEF RingsInv
<1> QED
  BY <1>1, <1>2, InvHolds, RingsHold, PTL DEF SdkSpec, TrailContract
=============================================================================
