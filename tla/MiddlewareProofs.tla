-------------------------- MODULE MiddlewareProofs --------------------------
(***************************************************************************)
(* Proofs about Adapters and Middleware, for any services, requests and    *)
(* levels: type correctness; a message carries the field of its own call   *)
(* although its logger is shared; every request that is over has left its  *)
(* one trace, with the status it deserves; and spans continue the trace    *)
(* their headers lead back to.                                             *)
(***************************************************************************)
EXTENDS Middleware, FiniteSetTheorems, TLAPS

-----------------------------------------------------------------------------
(* The loggers.                                                            *)

\* Where a log call through a zap logger can be.
ZapStages == {<<>>, <<"over">>, <<"send">>, <<"append", "send">>,
              <<"check", "append", "send">>}

\* A call that shares the room behind the fields has written to it before it
\* reads it.
RoomInv ==
  \A r \in Requests :
    Roomy(service[r]) =>
      /\ step[r] \in ZapStages
      /\ step[r] = <<"send">> => slot[service[r]] \in Requests \cup {Torn}

LogsInv ==
  /\ AdaptersTypeOK
  /\ DOMAIN step = Requests
  /\ RoomInv

\* How the stages of a zap call follow each other.
LEMMA ZapTails ==
  ASSUME NEW s \in ZapStages, s # <<>>
  PROVE  /\ Head(s) = "check" => Tail(s) = <<"append", "send">>
         /\ Head(s) = "append" => s = <<"append", "send">> /\ Tail(s) = <<"send">>
         /\ Head(s) = "send" => s = <<"send">>
         /\ Head(s) \in {"check", "append", "send", "over"}
<1>1. CASE s = <<"over">>
  <2>1. Head(s) = "over"
    BY <1>1
  <2> QED
    BY <2>1
<1>2. CASE s = <<"send">>
  <2>1. Head(s) = "send"
    BY <1>2
  <2> QED
    BY <1>2, <2>1
<1>3. CASE s = <<"append", "send">>
  <2>1. Head(s) = "append" /\ Tail(s) = <<"send">>
    BY <1>3
  <2> QED
    BY <1>3, <2>1
<1>4. CASE s = <<"check", "append", "send">>
  <2>1. Head(s) = "check" /\ Tail(s) = <<"append", "send">>
    BY <1>4
  <2> QED
    BY <2>1
<1> QED
  BY <1>1, <1>2, <1>3, <1>4 DEF ZapStages

LEMMA LogsUntouched ==
  ASSUME LogsInv, UNCHANGED logVars
  PROVE  LogsInv'
  BY DEF LogsInv, logVars, AdaptersTypeOK, RoomInv

LEMMA BeginKeepsLogs ==
  ASSUME NEW r \in Requests, NEW l \in Levels, LogsInv, BeginLog(r, l)
  PROVE  LogsInv'
<1>1. PICK route \in Routes(service[r]) : step' = [step EXCEPT ![r] = route]
  BY DEF BeginLog
<1>2. Roomy(service[r]) => route \in ZapStages /\ route # <<"send">>
  BY DEF Roomy, Routes, ZapRoute, ZapStages
<1>3. AdaptersTypeOK'
  BY DEF LogsInv, AdaptersTypeOK, BeginLog
<1>4. RoomInv'
  BY <1>1, <1>2 DEF LogsInv, RoomInv, BeginLog
<1> QED
  BY <1>1, <1>3, <1>4 DEF LogsInv

\* One step of a log call.
LEMMA LogStepKeepsLogs ==
  ASSUME NEW r \in Requests, LogsInv, LogStep(r)
  PROVE  LogsInv'
<1> USE DEF LogsInv
<1>0. /\ service \in [Requests -> Services] /\ slot \in [Services -> Requests \cup {Nobody, Torn}]
      /\ DOMAIN step = Requests
  BY DEF AdaptersTypeOK
<1>1. CASE CheckLevel(r)
  <2>1. /\ step[r] # <<>> /\ Head(step[r]) = "check"
        /\ UNCHANGED <<gone, slot, data, service, level, messages>>
    BY <1>1 DEF CheckLevel, At
  <2>2. \/ step' = [step EXCEPT ![r] = Tail(@)]
        \/ step' = [step EXCEPT ![r] = <<"over">>]
    BY <1>1 DEF CheckLevel
  <2>3. Roomy(service[r]) => step'[r] \in ZapStages /\ step'[r] # <<"send">>
    <3>1. step'[r] \in {Tail(step[r]), <<"over">>}
      BY <1>0, <2>2
    <3>2. Roomy(service[r]) => step'[r] \in {<<"append", "send">>, <<"over">>}
      BY <2>1, <3>1, ZapTails DEF RoomInv
    <3>3. <<"append", "send">> # <<"send">> /\ <<"over">> # <<"send">>
      OBVIOUS
    <3> QED
      BY <3>2, <3>3 DEF ZapStages
  <2> QED
    BY <1>0, <2>1, <2>2, <2>3 DEF AdaptersTypeOK, RoomInv
<1>2. CASE AppendField(r)
  <2>1. /\ step[r] # <<>> /\ Head(step[r]) = "append"
        /\ step' = [step EXCEPT ![r] = Tail(@)]
        /\ slot' = IF Roomy(service[r]) THEN [slot EXCEPT ![service[r]] = r] ELSE slot
        /\ UNCHANGED <<gone, data, service, level, messages>>
    BY <1>2 DEF AppendField, At, GoesOn
  <2>2. Roomy(service[r]) => step'[r] = <<"send">> /\ step'[r] \in ZapStages
    BY <1>0, <2>1, ZapTails DEF RoomInv, ZapStages
  <2>3. RoomInv'
    BY <1>0, <2>1, <2>2 DEF RoomInv
  <2> QED
    BY <1>0, <2>1, <2>3 DEF AdaptersTypeOK
<1>3. CASE MakeEntry(r) \/ PutField(r) \/ SetEventField(r)
  <2>1. /\ step[r] # <<>> /\ Head(step[r]) \in {"entry", "put", "set"}
        /\ step' = [step EXCEPT ![r] = Tail(@)]
        /\ UNCHANGED <<gone, slot, service, level, messages>>
    BY <1>3 DEF MakeEntry, PutField, SetEventField, At, GoesOn
  <2>2. data' = data \/ data' = [data EXCEPT ![service[r]] = @ \cup {r}]
    BY <1>3 DEF MakeEntry, PutField, SetEventField
  <2>3. ~Roomy(service[r])
    BY <2>1, ZapTails DEF RoomInv
  <2>4. RoomInv'
    BY <1>0, <2>1, <2>3 DEF RoomInv
  <2> QED
    BY <1>0, <2>1, <2>2, <2>4 DEF AdaptersTypeOK
<1>4. CASE SendMessage(r)
  <2>1. /\ step[r] # <<>> /\ Head(step[r]) = "send"
        /\ messages' = messages \cup {[by |-> r, fields |-> FieldsOf(r)]}
        /\ step' = [step EXCEPT ![r] = <<"over">>]
        /\ UNCHANGED <<gone, slot, data, service, level>>
    BY <1>4 DEF SendMessage, At
  <2>2. Roomy(service[r]) => slot[service[r]] \in Requests \cup {Torn}
    BY <2>1, ZapTails DEF RoomInv
  <2>3. data[service[r]] \subseteq Requests
    BY <1>0 DEF AdaptersTypeOK
  <2>4. FieldsOf(r) \subseteq Requests \cup {Torn}
    BY <2>2, <2>3 DEF FieldsOf
  <2>5. AdaptersTypeOK'
    BY <2>1, <2>4 DEF AdaptersTypeOK
  <2>6. RoomInv'
    BY <1>0, <2>1 DEF RoomInv, ZapStages
  <2> QED
    BY <1>0, <2>1, <2>5, <2>6
<1>5. ASSUME NEW q \in Requests, Collide(r, q) PROVE LogsInv'
  <2>1. UNCHANGED <<data, service, level>> /\ r # q /\ service[r] = service[q]
    BY <1>5 DEF Collide
  <2>2. CASE /\ Roomy(service[r]) /\ At(r, "append") /\ At(q, "append")
             /\ slot' = [slot EXCEPT ![service[r]] = Torn]
             /\ step' = [step EXCEPT ![r] = Tail(@), ![q] = Tail(@)]
             /\ UNCHANGED <<gone, messages>>
    <3>1. step'[r] = <<"send">> /\ step'[q] = <<"send">>
      BY <1>0, <2>1, <2>2, ZapTails DEF RoomInv, At
    <3>2. /\ DOMAIN step' = Requests
          /\ \A p \in Requests \ {r, q} : step'[p] = step[p]
      BY <1>0, <2>2
    <3>3. RoomInv'
      BY <1>0, <2>1, <2>2, <3>1, <3>2 DEF RoomInv, ZapStages
    <3> QED
      BY <1>0, <2>1, <2>2, <3>2, <3>3 DEF AdaptersTypeOK
  <2>3. CASE /\ Roomy(service[r]) /\ At(r, "append") /\ At(q, "send")
             /\ messages' = messages \cup {[by |-> q, fields |-> {Torn}]}
             /\ slot' = [slot EXCEPT ![service[r]] = r]
             /\ step' = [step EXCEPT ![r] = Tail(@), ![q] = <<"over">>]
             /\ UNCHANGED gone
    <3>1. step'[r] = <<"send">> /\ step'[q] = <<"over">>
      BY <1>0, <2>1, <2>3, ZapTails DEF RoomInv, At
    <3>2. /\ DOMAIN step' = Requests
          /\ \A p \in Requests \ {r, q} : step'[p] = step[p]
      BY <1>0, <2>3
    <3>3. RoomInv'
      BY <1>0, <2>1, <2>3, <3>1, <3>2 DEF RoomInv, ZapStages
    <3> QED
      BY <1>0, <2>1, <2>3, <3>2, <3>3 DEF AdaptersTypeOK
  <2>4. CASE /\ gone' = [gone EXCEPT ![service[r]] = "race"]
             /\ UNCHANGED <<slot, step, messages>>
    BY <1>0, <2>1, <2>4 DEF AdaptersTypeOK, RoomInv
  <2> QED
    BY <1>5, <2>2, <2>3, <2>4 DEF Collide
<1>6. CASE FormatTorn(r)
  <2>1. /\ gone' = [gone EXCEPT ![service[r]] = "race"]
        /\ UNCHANGED <<slot, data, service, step, level, messages>>
    BY <1>6 DEF FormatTorn
  <2> QED
    BY <1>0, <2>1 DEF AdaptersTypeOK, RoomInv
<1> QED
  BY <1>1, <1>2, <1>3, <1>4, <1>5, <1>6 DEF LogStep

LEMMA ReturnKeepsLogs ==
  ASSUME NEW r \in Requests, NEW outcome, LogsInv, LogReturns(r, outcome)
  PROVE  LogsInv'
<1>1. /\ step' = [step EXCEPT ![r] = <<>>]
      /\ level' = [level EXCEPT ![r] = "none"]
      /\ gone' = gone \/ gone' = [gone EXCEPT ![service[r]] = "exit"]
      /\ UNCHANGED <<slot, data, service, messages>>
  BY DEF LogReturns
<1>2. AdaptersTypeOK'
  BY <1>1 DEF LogsInv, AdaptersTypeOK
<1>3. RoomInv'
  BY <1>1 DEF LogsInv, RoomInv, ZapStages
<1> QED
  BY <1>1, <1>2, <1>3 DEF LogsInv

-----------------------------------------------------------------------------
(* The requests.                                                           *)

SpanRecords ==
  [id : Names, trace : Names, parent : Names, status : {"ok", "error"}]
Headers == [form : {"none", "garbled", "trace"}, trace : Names, span : Names]

\* What has been sent and captured for a request, by where it is.
Accounted(r) ==
  /\ phase[r] \in {"idle", "running"} =>
       traces[r] = 0 /\ reports[r] = 0 /\ failed[r] = "no"
  /\ phase[r] = "panicking" =>
       traces[r] = 0 /\ reports[r] = 0 /\ failed[r] = "panic"
  /\ phase[r] \in {"recovered", "captured"} =>
       /\ traces[r] = 1 /\ failed[r] = "panic" /\ span[r].status = "error"
       /\ Framework(r) # "tracing"
  /\ phase[r] = "recovered" => reports[r] = 0
  /\ phase[r] = "captured" => reports[r] = 1
  /\ phase[r] = "over" =>
       IF Framework(r) = "tracing" /\ failed[r] = "panic"
       THEN traces[r] = 0 /\ reports[r] = 0
       ELSE /\ traces[r] = 1
            /\ span[r].status = "error" <=> (failed[r] # "no" \/ recorded[r] = "5xx")
            /\ recorded[r] = written[r] /\ failed[r] = "no" =>
                 span[r].status = "error" <=> answer[r] = "5xx"
            /\ reports[r] = 1 <=> failed[r] = "panic"

TracesInv ==
  /\ IntegrationTypeOK
  /\ LogsInv
  /\ \A r \in Requests : step[r] # <<>> => phase[r] = "running"
  /\ \A r \in Requests : Accounted(r)

LEMMA TracesInit == MiddlewareInit => TracesInv
<1> SUFFICES ASSUME MiddlewareInit PROVE TracesInv
  OBVIOUS
<1> USE DEF MiddlewareInit, AdaptersInit
<1>1. LogsInv
  BY DEF LogsInv, AdaptersTypeOK, RoomInv, ZapStages
<1>2. IntegrationTypeOK
  <2>1. 0 \in 0..MaxLogs
    BY AdaptersAssumption
  <2> QED
    BY <1>1, <2>1 DEF LogsInv, IntegrationTypeOK, Names, NoHeader, NoSpan, NoName
<1> QED
  BY <1>1, <1>2 DEF TracesInv, Accounted

\* A step of request r's that leaves the loggers alone needs to be looked at
\* for r only.
LEMMA OthersStayAccounted ==
  ASSUME NEW r \in Requests, TracesInv, IntegrationTypeOK', UNCHANGED logVars,
         \A q \in Requests \ {r} :
           /\ phase'[q] = phase[q] /\ span'[q] = span[q] /\ traces'[q] = traces[q]
           /\ reports'[q] = reports[q] /\ written'[q] = written[q]
           /\ recorded'[q] = recorded[q]
           /\ failed'[q] = failed[q] /\ answer'[q] = answer[q],
         Accounted(r)', step[r] # <<>> => phase'[r] = "running"
  PROVE  TracesInv'
<1>1. LogsInv'
  BY LogsUntouched DEF TracesInv
<1>2. step' = step /\ service' = service
  BY DEF logVars
<1>3. \A q \in Requests \ {r} : Accounted(q)'
  BY <1>2 DEF TracesInv, Accounted, Framework
<1> QED
  BY <1>1, <1>2, <1>3 DEF TracesInv

\* End only changes the status of a span.
LEMMA StatusKeepsSpans ==
  ASSUME NEW r \in Requests, NEW status \in {"ok", "error"}, IntegrationTypeOK,
         span' = [span EXCEPT ![r].status = status]
  PROVE  span' \in [Requests -> SpanRecords]
<1>1. span \in [Requests -> SpanRecords]
  BY DEF IntegrationTypeOK, SpanRecords
<1>2. /\ r \in Requests /\ status \in {"ok", "error"}
      /\ span' = [span EXCEPT ![r].status = status]
  OBVIOUS
<1> QED
  BY ONLY <1>1, <1>2 DEF SpanRecords

LEMMA NamesOfSpans ==
  ASSUME NEW q \in Requests, NEW r \in Requests
  PROVE  /\ RequestSpan(r) \in Names /\ HandlerSpan(q, r) \in Names
         /\ Outside \in Names /\ NoName \in Names
  BY DEF RequestSpan, HandlerSpan, Outside, NoName, Names

\* What a request is continued with, given its header.
LEMMA SpanContinued ==
  ASSUME NEW r, NEW id, NEW h
  PROVE  /\ Continue(r, id, h) = [id |-> id, status |-> "ok",
                trace |-> IF Parses(h) THEN h.trace ELSE id,
                parent |-> IF Framework(r) # "fiber" /\ Parses(h) THEN h.span ELSE NoName]
         /\ Continue(r, id, h).id = id
         /\ Continue(r, id, h).trace = IF Parses(h) THEN h.trace ELSE id
<1>1. /\ FiberSpan(id, h) = [id |-> id, status |-> "ok", parent |-> NoName,
                             trace |-> IF Parses(h) THEN h.trace ELSE id]
      /\ ContinueFromRequest(id, h) =
           [id |-> id, status |-> "ok", trace |-> IF Parses(h) THEN h.trace ELSE id,
            parent |-> IF Parses(h) THEN h.span ELSE NoName]
  BY DEF FiberSpan, ContinueFromRequest, StartSpan
<1> QED
  BY <1>1 DEF Continue

LEMMA ServeStep ==
  ASSUME NEW r \in Requests, TracesInv, NEW h, Serve(r, h),
         h \in {NoHeader, Garbled, Foreign} \/ \E q \in Requests : h \in Outgoing(q, r)
  PROVE  TracesInv'
<1>0. header \in [Requests -> Headers] /\ span \in [Requests -> SpanRecords]
  BY DEF TracesInv, IntegrationTypeOK, Headers, SpanRecords
<1>1. h \in Headers
  <2>1. NoHeader \in Headers /\ Garbled \in Headers /\ Foreign \in Headers
    BY NamesOfSpans DEF NoHeader, Garbled, Foreign, Headers
  <2>2. ASSUME NEW q \in Requests, h \in Outgoing(q, r) PROVE h \in Headers
    <3>1. StartSpan(HandlerSpan(q, r)).trace = HandlerSpan(q, r)
          /\ StartSpan(HandlerSpan(q, r)).id = HandlerSpan(q, r)
      BY DEF StartSpan
    <3>2. header[q].trace \in Names /\ HandlerSpan(q, r) \in Names
      BY <1>0, NamesOfSpans DEF Headers
    <3>3. \A s : s.trace \in Names /\ s.id \in Names => InjectTraceContext(s) \in Headers
      BY DEF InjectTraceContext, Headers
    <3>4. /\ Continue(q, HandlerSpan(q, r), header[q]).id = HandlerSpan(q, r)
          /\ Continue(q, HandlerSpan(q, r), header[q]).trace
               \in {header[q].trace, HandlerSpan(q, r)}
      BY SpanContinued
    <3> QED
      BY <2>1, <2>2, <3>1, <3>2, <3>3, <3>4 DEF Outgoing
  <2> QED
    BY <2>1, <2>2
<1>2. /\ phase[r] = "idle"
      /\ phase' = [phase EXCEPT ![r] = "running"]
      /\ header' = [header EXCEPT ![r] = h]
      /\ span' = [span EXCEPT ![r] = Continue(r, RequestSpan(r), h)]
      /\ UNCHANGED <<logVars, traces, reports, written, recorded, failed, answer, logs>>
  BY DEF Serve
<1>3. Continue(r, RequestSpan(r), h) \in SpanRecords
  BY <1>1, SpanContinued, NamesOfSpans DEF SpanRecords, Headers
<1>4. header' \in [Requests -> Headers] /\ span' \in [Requests -> SpanRecords]
  BY <1>0, <1>1, <1>2, <1>3
<1>5. AdaptersTypeOK'
  BY <1>2, LogsUntouched DEF TracesInv, LogsInv
<1>6. IntegrationTypeOK'
  BY <1>2, <1>4, <1>5 DEF TracesInv, IntegrationTypeOK, Headers, SpanRecords
<1>7. Accounted(r)' /\ phase'[r] = "running"
  BY <1>2 DEF TracesInv, IntegrationTypeOK, Accounted
<1>8. \A q \in Requests \ {r} : phase'[q] = phase[q] /\ span'[q] = span[q]
  BY <1>0, <1>2 DEF TracesInv, IntegrationTypeOK
<1> QED
  BY <1>2, <1>6, <1>7, <1>8, OthersStayAccounted DEF TracesInv, IntegrationTypeOK

\* The handler makes and ends log calls.
LEMMA HandlerStep ==
  ASSUME NEW r \in Requests, TracesInv,
         Log(r) \/ LogOver(r) \/ (LogStep(r) /\ UNCHANGED requestVars)
  PROVE  TracesInv'
<1>0. LogsInv /\ DOMAIN step = Requests
  BY DEF TracesInv, LogsInv
<1>1. CASE Log(r)
  <2>1. PICK l \in Levels : BeginLog(r, l)
    BY <1>1 DEF Log
  <2>2. LogsInv' /\ service' = service
    BY <1>0, <2>1, BeginKeepsLogs DEF BeginLog
  <2>3. /\ phase[r] = "running" /\ logs[r] < MaxLogs
        /\ logs' = [logs EXCEPT ![r] = @ + 1]
        /\ UNCHANGED <<phase, header, span, traces, reports, written, recorded, failed,
                       answer>>
    BY <1>1 DEF Log, Handling
  <2>4. IntegrationTypeOK'
    BY <2>2, <2>3, AdaptersAssumption DEF TracesInv, LogsInv, IntegrationTypeOK
  <2>5. \A q \in Requests : step'[q] # <<>> => phase'[q] = "running"
    BY <1>0, <2>1, <2>3 DEF TracesInv, BeginLog
  <2>6. \A q \in Requests : Accounted(q)'
    BY <2>2, <2>3 DEF TracesInv, Accounted, Framework
  <2> QED
    BY <2>2, <2>4, <2>5, <2>6 DEF TracesInv
<1>2. CASE LogOver(r)
  <2>1. PICK outcome \in {"returns", "panics", "exits"} :
          /\ LogReturns(r, outcome)
          /\ phase' = IF outcome = "panics" THEN [phase EXCEPT ![r] = "panicking"]
                                            ELSE phase
          /\ failed' = IF outcome = "panics" THEN [failed EXCEPT ![r] = "panic"]
                                             ELSE failed
          /\ IF outcome = "panics" THEN Wrote(r) ELSE UNCHANGED written
    BY <1>2 DEF LogOver
  <2>2. LogsInv' /\ service' = service
    BY <1>0, <2>1, ReturnKeepsLogs DEF LogReturns
  <2>3. UNCHANGED <<header, span, traces, reports, recorded, answer, logs>>
    BY <1>2 DEF LogOver
  <2>4. /\ step[r] # <<>> /\ phase[r] = "running"
        /\ step' = [step EXCEPT ![r] = <<>>]
    BY <2>1 DEF LogReturns, At, TracesInv
  <2>5. IntegrationTypeOK'
    BY <2>1, <2>2, <2>3 DEF TracesInv, LogsInv, IntegrationTypeOK, Wrote
  <2>6. \A q \in Requests : step'[q] # <<>> => phase'[q] = "running"
    BY <1>0, <2>1, <2>4 DEF TracesInv
  <2>7. \A q \in Requests \ {r} : Accounted(q)'
    BY <2>1, <2>2, <2>3 DEF TracesInv, IntegrationTypeOK, Accounted, Framework, Wrote
  <2>8. Accounted(r)'
    BY <2>1, <2>2, <2>3, <2>4 DEF TracesInv, IntegrationTypeOK, Accounted, Framework
  <2> QED
    BY <2>2, <2>5, <2>6, <2>7, <2>8 DEF TracesInv
<1>3. CASE LogStep(r) /\ UNCHANGED requestVars
  <2>1. LogsInv'
    BY <1>0, <1>3, LogStepKeepsLogs
  <2>2. service' = service
    BY <1>3 DEF LogStep, CheckLevel, AppendField, MakeEntry, PutField, SetEventField,
                SendMessage, FormatTorn, Collide
  <2>3. \A q \in Requests : step'[q] # <<>> => step[q] # <<>>
    <3>1. CASE \E q \in Requests : Collide(r, q)
      <4>1. PICK q \in Requests : Collide(r, q)
        BY <3>1
      <4>2. \/ At(r, "append") /\ At(q, "append")
               /\ step' = [step EXCEPT ![r] = Tail(@), ![q] = Tail(@)]
            \/ At(r, "append") /\ At(q, "send")
               /\ step' = [step EXCEPT ![r] = Tail(@), ![q] = <<"over">>]
            \/ step' = step
        BY <4>1 DEF Collide
      <4> QED
        BY <1>0, <4>2 DEF At
    <3>2. CASE ~\E q \in Requests : Collide(r, q)
      <4>1. \/ step[r] # <<>> /\ \E t : step' = [step EXCEPT ![r] = t]
            \/ step' = step
        BY <1>3, <3>2 DEF LogStep, CheckLevel, AppendField, MakeEntry, PutField,
                          SetEventField, SendMessage, FormatTorn, At, GoesOn
      <4> QED
        BY <1>0, <4>1
    <3> QED
      BY <3>1, <3>2
  <2>4. UNCHANGED <<phase, header, span, traces, reports, written, recorded, failed,
                    answer, logs>>
    BY <1>3 DEF requestVars
  <2>5. IntegrationTypeOK'
    BY <2>1, <2>4 DEF TracesInv, LogsInv, IntegrationTypeOK
  <2>6. \A q \in Requests : Accounted(q)'
    BY <2>2, <2>4 DEF TracesInv, Accounted, Framework
  <2> QED
    BY <2>1, <2>3, <2>4, <2>5, <2>6 DEF TracesInv
<1> QED
  BY <1>1, <1>2, <1>3

\* The handler returns or panics and the middleware goes on.
LEMMA MiddlewareStep ==
  ASSUME NEW r \in Requests, TracesInv,
         Panic(r) \/ Return(r) \/ Escape(r) \/ Recover(r) \/ Capture(r) \/ Answer(r)
  PROVE  TracesInv'
<1>0. /\ UNCHANGED logVars
      /\ LogsInv' /\ AdaptersTypeOK' /\ Framework(r)' = Framework(r)
  <2>1. UNCHANGED logVars
    BY DEF Panic, Return, Escape, Recover, Capture, Answer
  <2> QED
    BY <2>1, LogsUntouched DEF TracesInv, LogsInv, Framework, logVars
<1> USE <1>0
<1>1. CASE Panic(r)
  <2>1. IntegrationTypeOK'
    BY <1>1 DEF Panic, TracesInv, IntegrationTypeOK, Wrote
  <2>2. Accounted(r)' /\ step[r] = <<>>
    BY <1>1 DEF Panic, Handling, TracesInv, IntegrationTypeOK, Accounted
  <2> QED
    BY <1>1, <2>1, <2>2, OthersStayAccounted DEF Panic, Wrote, TracesInv, IntegrationTypeOK
<1>2. CASE Return(r)
  <2>1. PICK err \in BOOLEAN :
          /\ Handling(r)
          /\ Wrote(r) /\ Recorded(r)
          /\ span' = [span EXCEPT ![r].status = TraceStatus(err, recorded'[r])]
          /\ traces' = [traces EXCEPT ![r] = @ + 1]
          /\ failed' = [failed EXCEPT ![r] = IF err THEN "error" ELSE @]
          /\ \E made \in IF err /\ (Framework(r) = "fiber" \/ written'[r] = "none")
                         THEN {"4xx", "5xx"}
                         ELSE {IF written'[r] = "none" THEN "ok" ELSE written'[r]} :
               answer' = [answer EXCEPT ![r] = made]
          /\ phase' = [phase EXCEPT ![r] = "over"]
          /\ UNCHANGED <<header, reports, logs>>
    BY <1>2 DEF Return, End
  <2>2. PICK status \in {"none", "ok", "4xx", "5xx"} :
          written' = [written EXCEPT ![r] = status]
    BY <2>1 DEF Wrote
  <2>a. written'[r] = status
    BY <2>2 DEF TracesInv, IntegrationTypeOK
  <2>b. PICK last \in {"none", "ok", "4xx", "5xx"} :
          recorded' = [recorded EXCEPT ![r] = last]
    BY <2>1, <2>a DEF Recorded
  <2>c. recorded'[r] = last
    BY <2>b DEF TracesInv, IntegrationTypeOK
  <2>3. PICK made \in IF err /\ (Framework(r) = "fiber" \/ status = "none")
                      THEN {"4xx", "5xx"}
                      ELSE {IF status = "none" THEN "ok" ELSE status} :
          answer' = [answer EXCEPT ![r] = made]
    BY <2>1, <2>a
  <2>4. /\ traces[r] = 0 /\ reports[r] = 0 /\ failed[r] = "no"
        /\ phase[r] = "running" /\ step[r] = <<>>
    BY <2>1 DEF Handling, TracesInv, Accounted
  <2>5. span' = [span EXCEPT ![r].status = IF last = "5xx" \/ err THEN "error" ELSE "ok"]
    BY <2>1, <2>c DEF TraceStatus
  <2>6. IntegrationTypeOK'
    <3>1. span' \in [Requests -> SpanRecords]
      <4> DEFINE shown == IF last = "5xx" \/ err THEN "error" ELSE "ok"
      <4>1. shown \in {"ok", "error"} /\ span' = [span EXCEPT ![r].status = shown]
        BY <2>5
      <4> HIDE DEF shown
      <4> QED
        BY <4>1, StatusKeepsSpans DEF TracesInv
    <3>2. traces' \in [Requests -> 0..1]
      BY <2>1, <2>4 DEF TracesInv, IntegrationTypeOK
    <3> QED
      BY <2>1, <2>2, <2>b, <2>3, <3>1, <3>2 DEF TracesInv, IntegrationTypeOK, SpanRecords
  <2>7. Accounted(r)'
    <3>1. /\ phase'[r] = "over" /\ traces'[r] = 1 /\ reports'[r] = 0
          /\ failed'[r] = IF err THEN "error" ELSE "no"
          /\ span'[r].status = IF last = "5xx" \/ err THEN "error" ELSE "ok"
          /\ answer'[r] = made
      BY <2>1, <2>3, <2>4, <2>5 DEF TracesInv, IntegrationTypeOK
    <3>2. status = last /\ ~err => last = "5xx" <=> made = "5xx"
      BY <2>3
    <3> QED
      BY <2>a, <2>c, <3>1, <3>2 DEF Accounted
  <2>8. \A q \in Requests \ {r} :
          /\ phase'[q] = phase[q] /\ span'[q] = span[q] /\ traces'[q] = traces[q]
          /\ reports'[q] = reports[q] /\ written'[q] = written[q]
          /\ recorded'[q] = recorded[q]
          /\ failed'[q] = failed[q] /\ answer'[q] = answer[q]
    BY <2>1, <2>2, <2>b, <2>3 DEF TracesInv, IntegrationTypeOK
  <2> QED
    BY <2>4, <2>6, <2>7, <2>8, OthersStayAccounted
<1>3. CASE Escape(r)
  <2>1. IntegrationTypeOK'
    BY <1>3 DEF Escape, TracesInv, IntegrationTypeOK
  <2>2. Accounted(r)' /\ step[r] = <<>>
    BY <1>3 DEF Escape, TracesInv, IntegrationTypeOK, Accounted
  <2> QED
    BY <1>3, <2>1, <2>2, OthersStayAccounted DEF Escape, TracesInv, IntegrationTypeOK
<1>4. CASE Recover(r)
  <2>1. traces[r] = 0
    BY <1>4 DEF Recover, TracesInv, Accounted
  <2>2. IntegrationTypeOK'
    <3>1. span' \in [Requests -> SpanRecords]
      BY <1>4, StatusKeepsSpans DEF Recover, End, TracesInv
    <3>2. traces' \in [Requests -> 0..1]
      BY <1>4, <2>1 DEF Recover, End, TracesInv, IntegrationTypeOK
    <3> QED
      BY <1>4, <3>1, <3>2 DEF Recover, TracesInv, IntegrationTypeOK, SpanRecords
  <2>3. Accounted(r)' /\ step[r] = <<>>
    BY <1>4 DEF Recover, End, TracesInv, IntegrationTypeOK, Accounted
  <2> QED
    BY <1>4, <2>2, <2>3, OthersStayAccounted DEF Recover, End, TracesInv, IntegrationTypeOK
<1>5. CASE Capture(r)
  <2>1. reports[r] = 0
    BY <1>5 DEF Capture, TracesInv, Accounted
  <2>2. IntegrationTypeOK'
    BY <1>5, <2>1 DEF Capture, TracesInv, IntegrationTypeOK
  <2>3. Accounted(r)' /\ step[r] = <<>>
    BY <1>5 DEF Capture, TracesInv, IntegrationTypeOK, Accounted
  <2> QED
    BY <1>5, <2>2, <2>3, OthersStayAccounted DEF Capture, TracesInv, IntegrationTypeOK
<1>6. CASE Answer(r)
  <2>1. PICK made \in {"ok", "4xx", "5xx", "broken"} :
          answer' = [answer EXCEPT ![r] = made]
    BY <1>6 DEF Answer, TracesInv, IntegrationTypeOK
  <2>2. /\ phase[r] = "captured" /\ phase' = [phase EXCEPT ![r] = "over"]
        /\ UNCHANGED <<header, span, traces, reports, written, recorded, failed, logs>>
    BY <1>6 DEF Answer
  <2>3. IntegrationTypeOK'
    BY <2>1, <2>2 DEF TracesInv, IntegrationTypeOK
  <2>4. Accounted(r)' /\ step[r] = <<>>
    BY <2>1, <2>2 DEF TracesInv, IntegrationTypeOK, Accounted
  <2> QED
    BY <2>1, <2>2, <2>3, <2>4, OthersStayAccounted DEF TracesInv, IntegrationTypeOK
<1> QED
  BY <1>1, <1>2, <1>3, <1>4, <1>5, <1>6

LEMMA TracesStep ==
  ASSUME TracesInv, [MiddlewareNext]_middlewareVars
  PROVE  TracesInv'
<1>1. ASSUME NEW r \in Requests, RequestStep(r) PROVE TracesInv'
  <2>1. CASE Arrive(r) \/ \E q \in Requests : CallOut(q, r)
    <3>1. PICK h : /\ Serve(r, h)
                   /\ h \in {NoHeader, Garbled, Foreign} \/ \E q \in Requests : h \in Outgoing(q, r)
      BY <2>1 DEF Arrive, CallOut
    <3> QED
      BY <3>1, ServeStep
  <2> QED
    BY <1>1, <2>1, HandlerStep, MiddlewareStep DEF RequestStep
<1>2. CASE UNCHANGED middlewareVars
  <2>1. LogsInv' /\ UNCHANGED logVars /\ UNCHANGED requestVars
    BY <1>2, LogsUntouched DEF middlewareVars, TracesInv
  <2> QED
    BY <2>1 DEF logVars, requestVars, TracesInv, LogsInv, IntegrationTypeOK,
                Accounted, Framework
<1> QED
  BY <1>1, <1>2 DEF MiddlewareNext

\* Every variable of loggers and middleware keeps its type, for any services,
\* requests and levels.
THEOREM IntegrationsTypeCorrect == MiddlewareSpec => []IntegrationTypeOK
<1>1. TracesInv => IntegrationTypeOK
  BY DEF TracesInv
<1> QED
  BY TracesInit, TracesStep, <1>1, PTL DEF MiddlewareSpec

\* Whatever ends a handler, its request leaves one trace, which shows an error if
\* the handler failed or the middleware recorded a 5xx, and a panic one report; a
\* panic through TracingMiddleware leaves nothing.
THEOREM RequestsLeaveOneTrace == MiddlewareSpec => []EveryRequestTraced
<1>1. TracesInv => EveryRequestTraced
  BY DEF TracesInv, Accounted, EveryRequestTraced
<1> QED
  BY TracesInit, TracesStep, <1>1, PTL DEF MiddlewareSpec
-----------------------------------------------------------------------------
(* The fields of messages.                                                 *)

\* Where a log call that puts its field into a map of all calls can be.
EntryStages == {<<>>, <<"over">>, <<"send">>, <<"check", "send">>,
                <<"put", "check", "send">>, <<"entry", "put", "check", "send">>}

\* Such a call has put its field into the map before its level is checked, and
\* nobody takes fields out again.
PutInv ==
  \A r \in Requests :
    OneMap(service[r]) =>
      /\ step[r] \in EntryStages
      /\ step[r] \in {<<"send">>, <<"check", "send">>} => r \in data[service[r]]

IsNamed(s) == s.lib = "zap" /\ s.made # <<>> /\ Last(s.made) = "named"

\* What a message carries, by the library it was logged with.
Apart(m) ==
  LET s == service[m.by]
  IN  CASE IsNamed(s) -> Cardinality(m.fields) = 1
        [] OneMap(s) -> m.by \in m.fields
        [] s.lib = "stdlib" -> m.fields = {}
        [] OTHER -> m.fields = {m.by}

ApartInv ==
  /\ PutInv
  /\ \A m \in messages : Apart(m)
  /\ \A s \in Services : gone[s] = "race" => OneMap(s) \/ IsNamed(s)

\* A zap logger has room to spare only if Named made it.
LEMMA RoomyIsNamed ==
  ASSUME NEW s \in Services, Roomy(s)
  PROVE  IsNamed(s)
<1>1. s.made \in Seq({"with", "named"})
  BY AdaptersAssumption
<1>2. s.made # <<>>
  <2>1. CASE s.made = <<>>
    <3>1. ZapFields(s.made) = [len |-> 0, cap |-> 0]
      BY <2>1 DEF ZapFields
    <3> QED
      BY <3>1 DEF Roomy
  <2> QED
    BY <2>1
<1>3. Len(s.made) - 1 \in Nat /\ Last(s.made) \in {"with", "named"}
  BY <1>1, <1>2 DEF Last
<1>4. CASE Last(s.made) = "with"
  <2>1. ZapFields(s.made) = ZapWith(Len(s.made) - 1)
    BY <1>2, <1>4 DEF ZapFields
  <2>2. ~(ZapFields(s.made).len < ZapFields(s.made).cap)
    BY <1>3, <2>1 DEF ZapWith
  <2> QED
    BY <2>2 DEF Roomy
<1> QED
  BY <1>2, <1>3, <1>4 DEF Roomy, IsNamed

\* How the stages of a call that writes to the map follow each other.
LEMMA EntryTails ==
  ASSUME NEW s \in EntryStages, s # <<>>
  PROVE  /\ Head(s) = "entry" => Tail(s) = <<"put", "check", "send">>
         /\ Head(s) = "put" => s = <<"put", "check", "send">> /\ Tail(s) = <<"check", "send">>
         /\ Head(s) = "check" => s = <<"check", "send">> /\ Tail(s) = <<"send">>
         /\ Head(s) = "send" => s = <<"send">>
         /\ Head(s) \in {"entry", "put", "check", "send", "over"}
<1>1. CASE s = <<"over">>
  <2>1. Head(s) = "over"
    BY <1>1
  <2> QED
    BY <2>1
<1>2. CASE s = <<"send">>
  <2>1. Head(s) = "send"
    BY <1>2
  <2> QED
    BY <1>2, <2>1
<1>3. CASE s = <<"check", "send">>
  <2>1. Head(s) = "check" /\ Tail(s) = <<"send">>
    BY <1>3
  <2> QED
    BY <1>3, <2>1
<1>4. CASE s = <<"put", "check", "send">>
  <2>1. Head(s) = "put" /\ Tail(s) = <<"check", "send">>
    BY <1>4
  <2> QED
    BY <1>4, <2>1
<1>5. CASE s = <<"entry", "put", "check", "send">>
  <2>1. Head(s) = "entry" /\ Tail(s) = <<"put", "check", "send">>
    BY <1>5
  <2> QED
    BY <2>1
<1> QED
  BY <1>1, <1>2, <1>3, <1>4, <1>5 DEF EntryStages

\* What a step of the loggers has to keep.
LEMMA ApartKept ==
  ASSUME LogsInv, ApartInv, service' = service, PutInv',
         \A m \in messages' \ messages : Apart(m),
         \A s \in Services : gone'[s] = "race" => gone[s] = "race" \/ OneMap(s) \/ IsNamed(s)
  PROVE  ApartInv'
<1>1. \A m \in messages' : Apart(m)'
  BY DEF ApartInv, Apart
<1> QED
  BY <1>1 DEF ApartInv

\* A message takes its own call's field along, or what there is for it.
LEMMA MessageIsApart ==
  ASSUME NEW r \in Requests, LogsInv, ApartInv, At(r, "send")
  PROVE  Apart([by |-> r, fields |-> FieldsOf(r)])
<1> DEFINE s == service[r]
<1>1. s \in Services
  BY DEF LogsInv, AdaptersTypeOK
<1>2. CASE Roomy(s)
  <2>0. ~OneMap(s) /\ s.lib # "stdlib"
    BY <1>2 DEF OneMap, Roomy
  <2>1. FieldsOf(r) = {slot[s]}
    BY <1>2, <2>0 DEF FieldsOf
  <2>2. Cardinality({slot[s]}) = 1
    BY FS_Singleton, Zenon
  <2> QED
    BY <1>1, <1>2, <2>0, <2>1, <2>2, RoomyIsNamed DEF Apart
<1>3. CASE ~Roomy(s) /\ OneMap(s)
  <2>1. step[r] = <<"send">>
    BY <1>3, EntryTails DEF At, ApartInv, PutInv
  <2>2. r \in data[s] /\ FieldsOf(r) = data[s]
    BY <1>3, <2>1 DEF ApartInv, PutInv, FieldsOf, OneMap
  <2> QED
    BY <1>3, <2>2 DEF Apart, OneMap, IsNamed
<1>4. CASE ~Roomy(s) /\ s.lib = "stdlib"
  <2>1. FieldsOf(r) = {}
    BY <1>4 DEF FieldsOf, OneMap
  <2> QED
    BY <1>4, <2>1 DEF Apart, OneMap, IsNamed
<1>5. CASE ~Roomy(s) /\ ~OneMap(s) /\ s.lib # "stdlib"
  <2>1. FieldsOf(r) = {r} /\ Cardinality({r}) = 1
    BY <1>5, FS_Singleton DEF FieldsOf
  <2> QED
    BY <1>5, <2>1 DEF Apart
<1> QED
  BY <1>2, <1>3, <1>4, <1>5

LEMMA LogStepKeepsApart ==
  ASSUME NEW r \in Requests, LogsInv, ApartInv, LogStep(r)
  PROVE  ApartInv'
<1>0. /\ service \in [Requests -> Services] /\ data \in [Services -> SUBSET Requests]
      /\ gone \in [Services -> {"no", "exit", "race"}]
      /\ DOMAIN step = Requests
  BY DEF LogsInv, AdaptersTypeOK
<1> DEFINE Entry == OneMap(service[r])
<1>1. ASSUME step[r] # <<>>, Entry
      PROVE  /\ Head(step[r]) = "put" => Tail(step[r]) = <<"check", "send">>
             /\ Head(step[r]) = "check" => step[r] = <<"check", "send">> /\ Tail(step[r]) = <<"send">>
             /\ Head(step[r]) = "send" => step[r] = <<"send">>
             /\ Head(step[r]) = "entry" => Tail(step[r]) = <<"put", "check", "send">>
             /\ Head(step[r]) \in {"entry", "put", "check", "send", "over"}
             /\ step[r] \in EntryStages
  BY <1>1, EntryTails, Zenon DEF ApartInv, PutInv
<1>2. /\ <<"send">> \in EntryStages /\ <<"check", "send">> \in EntryStages
      /\ <<"over">> \in EntryStages /\ <<"put", "check", "send">> \in EntryStages
      /\ <<"put", "check", "send">> \notin {<<"send">>, <<"check", "send">>}
      /\ <<"over">> # <<"send">> /\ <<"over">> # <<"check", "send">>
  BY DEF EntryStages
<1>3. ASSUME UNCHANGED service,
             \A s \in Services : data[s] \subseteq data'[s],
             \A q \in Requests \ {r} : step'[q] = step[q],
             Entry => /\ step'[r] \in EntryStages
                      /\ step'[r] \in {<<"send">>, <<"check", "send">>} =>
                           r \in data'[service[r]]
      PROVE  PutInv'
  BY <1>0, <1>3 DEF ApartInv, PutInv
<1>4. CASE CheckLevel(r)
  <2>1. /\ step[r] # <<>> /\ Head(step[r]) = "check"
        /\ UNCHANGED <<gone, slot, data, service, level, messages>>
        /\ \/ step' = [step EXCEPT ![r] = Tail(@)]
           \/ step' = [step EXCEPT ![r] = <<"over">>]
    BY <1>4 DEF CheckLevel, At
  <2>2. Entry => step'[r] \in {<<"send">>, <<"over">>} /\ r \in data[service[r]]
    BY <1>0, <1>1, <2>1 DEF ApartInv, PutInv
  <2>3. PutInv'
    BY <1>0, <1>2, <1>3, <2>1, <2>2
  <2> QED
    BY <2>1, <2>3, ApartKept
<1>5. CASE AppendField(r) \/ MakeEntry(r) \/ SetEventField(r)
  <2>1. /\ step[r] # <<>> /\ Head(step[r]) \in {"append", "entry", "set"}
        /\ step' = [step EXCEPT ![r] = Tail(@)]
        /\ UNCHANGED <<gone, data, service, messages>>
    BY <1>5 DEF AppendField, MakeEntry, SetEventField, At, GoesOn
  <2>2. Entry => step'[r] = <<"put", "check", "send">>
    BY <1>0, <1>1, <2>1
  <2>3. PutInv'
    BY <1>0, <1>2, <1>3, <2>1, <2>2
  <2> QED
    BY <2>1, <2>3, ApartKept
<1>6. CASE PutField(r)
  <2>1. /\ step[r] # <<>> /\ Head(step[r]) = "put"
        /\ step' = [step EXCEPT ![r] = Tail(@)]
        /\ data' = [data EXCEPT ![service[r]] = @ \cup {r}]
        /\ UNCHANGED <<gone, service, messages>>
    BY <1>6 DEF PutField, At, GoesOn
  <2>2. Entry => step'[r] = <<"check", "send">>
    BY <1>0, <1>1, <2>1
  <2>3. r \in data'[service[r]] /\ \A s \in Services : data[s] \subseteq data'[s]
    BY <1>0, <2>1
  <2>4. PutInv'
    BY <1>0, <1>2, <1>3, <2>1, <2>2, <2>3
  <2> QED
    BY <2>1, <2>4, ApartKept
<1>7. CASE SendMessage(r)
  <2>1. /\ At(r, "send")
        /\ messages' = messages \cup {[by |-> r, fields |-> FieldsOf(r)]}
        /\ step' = [step EXCEPT ![r] = <<"over">>]
        /\ UNCHANGED <<gone, data, service>>
    BY <1>7 DEF SendMessage
  <2>2. PutInv'
    BY <1>0, <1>2, <1>3, <2>1
  <2>3. \A m \in messages' \ messages : Apart(m)
    BY <2>1, MessageIsApart
  <2> QED
    BY <2>1, <2>2, <2>3, ApartKept
<1>8. ASSUME NEW q \in Requests, Collide(r, q) PROVE ApartInv'
  <2>1. UNCHANGED <<data, service, level>> /\ r # q /\ service[r] = service[q]
    BY <1>8 DEF Collide
  <2>2. CASE /\ Roomy(service[r])
             /\ \E s, t : step' = [step EXCEPT ![r] = s, ![q] = t]
             /\ messages' = messages \/ messages' = messages \cup {[by |-> q, fields |-> {Torn}]}
             /\ UNCHANGED gone
    <3>1. ~OneMap(service[r]) /\ ~OneMap(service[q])
      BY <2>1, <2>2 DEF Roomy, OneMap
    <3>2. \A p \in Requests \ {r, q} : step'[p] = step[p]
      BY <1>0, <2>2
    <3>3. PutInv'
      BY <2>1, <3>1, <3>2 DEF ApartInv, PutInv
    <3>4. Apart([by |-> q, fields |-> {Torn}])
      <4>1. IsNamed(service[q])
        BY <1>0, <2>1, <2>2, RoomyIsNamed
      <4>2. Cardinality({Torn}) = 1
        BY FS_Singleton, Zenon
      <4> QED
        BY <3>1, <4>1, <4>2 DEF Apart, OneMap, IsNamed
    <3>5. \A m \in messages' \ messages : Apart(m)
      BY <2>2, <3>4
    <3> QED
      BY <2>1, <2>2, <3>3, <3>5, ApartKept
  <2>3. CASE /\ OneMap(service[r])
             /\ gone' = [gone EXCEPT ![service[r]] = "race"]
             /\ UNCHANGED <<slot, step, messages>>
    <3>1. PutInv'
      BY <2>1, <2>3 DEF ApartInv, PutInv
    <3>2. \A s \in Services : gone'[s] = "race" => gone[s] = "race" \/ OneMap(s)
      BY <1>0, <2>3
    <3> QED
      BY <2>1, <2>3, <3>1, <3>2, ApartKept
  <2>4. \/ /\ Roomy(service[r])
           /\ \/ step' = [step EXCEPT ![r] = Tail(@), ![q] = Tail(@)]
              \/ step' = [step EXCEPT ![r] = Tail(@), ![q] = <<"over">>]
           /\ messages' = messages \/ messages' = messages \cup {[by |-> q, fields |-> {Torn}]}
           /\ UNCHANGED gone
        \/ /\ OneMap(service[r])
           /\ gone' = [gone EXCEPT ![service[r]] = "race"]
           /\ UNCHANGED <<slot, step, messages>>
    BY <1>8 DEF Collide
  <2> QED
    BY <2>2, <2>3, <2>4
<1>9. CASE FormatTorn(r)
  <2>1. /\ Roomy(service[r])
        /\ gone' = [gone EXCEPT ![service[r]] = "race"]
        /\ UNCHANGED <<slot, data, service, step, level, messages>>
    BY <1>9 DEF FormatTorn
  <2>2. PutInv'
    BY <2>1 DEF ApartInv, PutInv
  <2>3. \A s \in Services : gone'[s] = "race" => gone[s] = "race" \/ IsNamed(s)
    BY <1>0, <2>1, RoomyIsNamed
  <2> QED
    BY <2>1, <2>2, <2>3, ApartKept
<1> QED
  BY <1>4, <1>5, <1>6, <1>7, <1>8, <1>9 DEF LogStep

LEMMA BeginKeepsApart ==
  ASSUME NEW r \in Requests, NEW l \in Levels, LogsInv, ApartInv, BeginLog(r, l)
  PROVE  ApartInv'
<1>1. PICK route \in Routes(service[r]) : step' = [step EXCEPT ![r] = route]
  BY DEF BeginLog
<1>2. UNCHANGED <<gone, slot, data, service, messages>>
  BY DEF BeginLog
<1>3. OneMap(service[r]) =>
        route \in EntryStages /\ route \notin {<<"send">>, <<"check", "send">>}
  BY DEF OneMap, Routes, LogrusEntryRoute, LogrusFieldsRoute, EntryStages
<1>4. PutInv'
  BY <1>1, <1>2, <1>3 DEF LogsInv, ApartInv, PutInv
<1> QED
  BY <1>2, <1>4, ApartKept

LEMMA ReturnKeepsApart ==
  ASSUME NEW r \in Requests, NEW outcome, LogsInv, ApartInv, LogReturns(r, outcome)
  PROVE  ApartInv'
<1>1. /\ step' = [step EXCEPT ![r] = <<>>]
      /\ gone' = gone \/ gone' = [gone EXCEPT ![service[r]] = "exit"]
      /\ UNCHANGED <<slot, data, service, messages>>
  BY DEF LogReturns
<1>2. <<>> \in EntryStages /\ <<>> # <<"send">> /\ <<>> # <<"check", "send">>
  BY DEF EntryStages
<1>3. PutInv'
  BY <1>1, <1>2 DEF LogsInv, ApartInv, PutInv
<1>4. \A s \in Services : gone'[s] = "race" => gone[s] = "race"
  BY <1>1 DEF LogsInv, AdaptersTypeOK
<1> QED
  BY <1>1, <1>3, <1>4, ApartKept

\* What any step of a request does to the loggers.
LEMMA LoggersMove ==
  ASSUME NEW r \in Requests, RequestStep(r)
  PROVE  \/ \E l \in Levels : BeginLog(r, l)
         \/ LogStep(r)
         \/ \E outcome \in {"returns", "panics", "exits"} : LogReturns(r, outcome)
         \/ UNCHANGED logVars
<1>1. CASE Arrive(r) \/ \E q \in Requests : CallOut(q, r)
  BY <1>1 DEF Arrive, CallOut, Serve
<1>2. CASE Log(r)
  BY <1>2 DEF Log
<1>3. CASE LogOver(r)
  BY <1>3 DEF LogOver
<1>4. CASE Panic(r) \/ Return(r) \/ Escape(r) \/ Recover(r) \/ Capture(r) \/ Answer(r)
  BY <1>4 DEF Panic, Return, Escape, Recover, Capture, Answer
<1> QED
  BY <1>1, <1>2, <1>3, <1>4 DEF RequestStep

LEMMA ApartInit == MiddlewareInit => ApartInv
  BY DEF MiddlewareInit, AdaptersInit, ApartInv, PutInv, EntryStages

LEMMA ApartStep ==
  ASSUME TracesInv, ApartInv, [MiddlewareNext]_middlewareVars
  PROVE  ApartInv'
<1>0. LogsInv
  BY DEF TracesInv
<1>1. ASSUME UNCHANGED logVars PROVE ApartInv'
  BY <1>1 DEF logVars, ApartInv, PutInv, Apart
<1>2. ASSUME NEW r \in Requests, RequestStep(r) PROVE ApartInv'
  BY <1>0, <1>1, <1>2, LoggersMove, BeginKeepsApart, LogStepKeepsApart, ReturnKeepsApart
<1> QED
  BY <1>1, <1>2 DEF MiddlewareNext, middlewareVars

\* A message carries the field of the call it comes from and no other call's, and
\* no logging ends the process, with two exceptions: logrus calls that put their
\* fields into one map, an entry's or one given to WithFields, and zap loggers
\* that Named made.
THEOREM LoggersAreApart == MiddlewareSpec => []LoggersKeepApart
<1>1. ApartInv => LoggersKeepApart
  BY DEF ApartInv, Apart, IsNamed, LoggersKeepApart
<1> QED
  BY TracesInit, TracesStep, ApartInit, ApartStep, <1>1, PTL DEF MiddlewareSpec

-----------------------------------------------------------------------------
(* The chains of trace headers.                                            *)

Served == {r \in Requests : phase[r] # "idle"}

\* A header that r came with is the last of a chain of requests, all served.
Chained(r) ==
  Parses(header[r]) =>
    \E n \in 1..Cardinality(Served) : \E chain \in [1..n -> Requests] :
      /\ chain[n] = r
      /\ HeaderChain(n, chain, span[r].trace)
      /\ \A i \in 1..n : chain[i] \in Served

\* The trace of a request is its header's, or its own.
Owned(r) ==
  span[r].trace = IF Parses(header[r]) THEN header[r].trace ELSE RequestSpan(r)

\* The trace that q's handler began with a span to send x is not q's, and there is
\* none before x is served.
Begun(r) ==
  \A q, x \in Requests :
    span[r].trace = HandlerSpan(q, x) =>
      q \in Served /\ x \in Served /\ span[q].trace # HandlerSpan(q, x)

Parent(r) == IF Framework(r) # "fiber" /\ Parses(header[r]) THEN header[r].span ELSE NoName

ChainInv ==
  /\ IsFiniteSet(Served)
  /\ \A r \in Served : Chained(r) /\ Owned(r) /\ Begun(r) /\ span[r].parent = Parent(r)

\* What TraceConnected says of one request.
Connected(r) ==
  /\ IF Parses(header[r])
     THEN \E n \in 1..Cardinality({q \in Requests : phase[q] # "idle"}) :
            \E chain \in [1..n -> Requests] :
              chain[n] = r /\ HeaderChain(n, chain, span[r].trace)
     ELSE span[r].trace = RequestSpan(r)
  /\ \A q, x \in Requests :
       span[r].trace = HandlerSpan(q, x) => span[q].trace # span[r].trace
  /\ span[r].parent = IF Framework(r) # "fiber" /\ Parses(header[r])
                      THEN header[r].span ELSE NoName

LEMMA ChainInit == MiddlewareInit => ChainInv
<1> SUFFICES ASSUME MiddlewareInit PROVE ChainInv
  OBVIOUS
<1>1. Served = {}
  BY DEF MiddlewareInit, Served
<1> QED
  BY <1>1, FS_EmptySet DEF ChainInv

\* What has been served stays as it is: its header never changes, its span's
\* trace and parent neither.
LEMMA ServedStay ==
  ASSUME NEW r \in Requests, TracesInv, RequestStep(r),
         ~Arrive(r), ~\E q \in Requests : CallOut(q, r)
  PROVE  /\ UNCHANGED <<header, service>>
         /\ Served' = Served
         /\ \A q \in Requests : span'[q].trace = span[q].trace /\ span'[q].parent = span[q].parent
<1>0. /\ phase \in [Requests -> {"idle", "running", "panicking", "recovered",
                                 "captured", "over"}]
      /\ span \in [Requests -> SpanRecords]
  BY DEF TracesInv, IntegrationTypeOK, SpanRecords
<1>1. ASSUME NEW p \in {"running", "panicking", "recovered", "captured", "over"},
             phase[r] # "idle", phase' = [phase EXCEPT ![r] = p]
      PROVE  Served' = Served
  BY <1>0, <1>1 DEF Served
<1>2. ASSUME NEW status, span' = [span EXCEPT ![r].status = status]
      PROVE  \A q \in Requests : span'[q].trace = span[q].trace /\ span'[q].parent = span[q].parent
  BY <1>0, <1>2 DEF SpanRecords
<1>3. CASE Log(r) \/ (LogStep(r) /\ UNCHANGED requestVars)
  <2>1. UNCHANGED <<header, phase, span>>
    BY <1>3 DEF Log, requestVars
  <2>2. UNCHANGED service
    BY <1>3 DEF Log, BeginLog, LogStep, CheckLevel, AppendField, MakeEntry, PutField,
                SetEventField, SendMessage, FormatTorn, Collide
  <2> QED
    BY <2>1, <2>2 DEF Served
<1>4. CASE LogOver(r)
  <2>1. /\ UNCHANGED <<header, span, service>> /\ step[r] # <<>>
        /\ phase' = phase \/ phase' = [phase EXCEPT ![r] = "panicking"]
    BY <1>4 DEF LogOver, LogReturns, At
  <2>2. phase[r] = "running"
    BY <2>1 DEF TracesInv
  <2>3. Served' = Served
    BY <1>1, <2>1, <2>2 DEF Served
  <2> QED
    BY <2>1, <2>3
<1>5. CASE Panic(r) \/ Escape(r) \/ Capture(r) \/ Answer(r)
  <2>1. /\ UNCHANGED <<header, span, service>>
        /\ phase[r] # "idle"
        /\ \E p \in {"running", "panicking", "recovered", "captured", "over"} :
             phase' = [phase EXCEPT ![r] = p]
    BY <1>5 DEF Panic, Handling, Escape, Capture, Answer, logVars
  <2> QED
    BY <1>1, <2>1
<1>6. CASE Return(r) \/ Recover(r)
  <2>1. /\ UNCHANGED <<header, service>>
        /\ phase[r] # "idle"
        /\ \E p \in {"running", "panicking", "recovered", "captured", "over"} :
             phase' = [phase EXCEPT ![r] = p]
        /\ \E status : span' = [span EXCEPT ![r].status = status]
    BY <1>6 DEF Return, Handling, Recover, End, logVars
  <2> QED
    BY <1>1, <1>2, <2>1
<1> QED
  BY <1>3, <1>4, <1>5, <1>6 DEF RequestStep

\* Spans with different names are different.
LEMMA SpansDiffer ==
  ASSUME NEW q, NEW x, NEW p, NEW r
  PROVE  /\ HandlerSpan(q, x) = HandlerSpan(p, r) => q = p /\ x = r
         /\ HandlerSpan(q, x) # RequestSpan(r)
         /\ HandlerSpan(q, x) # Outside
  BY DEF HandlerSpan, RequestSpan, Outside

\* A header that q's handler puts into r names a span made for r, in a trace that
\* this span begins or that q's own header continues.
LEMMA OutgoingHeaders ==
  ASSUME NEW q, NEW r, NEW h \in Outgoing(q, r), Parses(h)
  PROVE  /\ h.span = HandlerSpan(q, r)
         /\ \/ h.trace = HandlerSpan(q, r)
            \/ Parses(header[q]) /\ h.trace = header[q].trace
<1>1. /\ StartSpan(HandlerSpan(q, r)).trace = HandlerSpan(q, r)
      /\ StartSpan(HandlerSpan(q, r)).id = HandlerSpan(q, r)
  BY DEF StartSpan
<1>2. /\ Continue(q, HandlerSpan(q, r), header[q]).id = HandlerSpan(q, r)
      /\ Continue(q, HandlerSpan(q, r), header[q]).trace =
           IF Parses(header[q]) THEN header[q].trace ELSE HandlerSpan(q, r)
  BY SpanContinued
<1>3. \A s : InjectTraceContext(s).trace = s.trace /\ InjectTraceContext(s).span = s.id
  BY DEF InjectTraceContext
<1>4. h # NoHeader
  BY DEF Parses, NoHeader
<1> QED
  BY <1>1, <1>2, <1>3, <1>4 DEF Outgoing

\* A request that is served for the first time joins the chain of the request
\* that sent it, or begins one.
LEMMA ServeChains ==
  ASSUME NEW r \in Requests, TracesInv, ChainInv, NEW h, Serve(r, h),
         h \in {NoHeader, Garbled, Foreign} \/ \E q \in Served : h \in Outgoing(q, r)
  PROVE  ChainInv'
<1>1. /\ phase[r] = "idle"
      /\ phase' = [phase EXCEPT ![r] = "running"]
      /\ header' = [header EXCEPT ![r] = h]
      /\ span' = [span EXCEPT ![r] = Continue(r, RequestSpan(r), h)]
      /\ service' = service
  BY DEF Serve, logVars
<1>2. DOMAIN phase = Requests /\ DOMAIN header = Requests /\ DOMAIN span = Requests
  BY DEF TracesInv, IntegrationTypeOK
<1>3. /\ Served' = Served \cup {r} /\ r \notin Served
      /\ \A q \in Served : q \in Requests /\ header'[q] = header[q] /\ span'[q] = span[q]
      /\ header'[r] = h
  BY <1>1, <1>2 DEF Served
<1>4. /\ IsFiniteSet(Served')
      /\ Cardinality(Served) \in Nat
      /\ Cardinality(Served') = Cardinality(Served) + 1
  BY <1>3, FS_AddElement, FS_CardinalityType DEF ChainInv
<1>5. /\ span'[r].trace = IF Parses(h) THEN h.trace ELSE RequestSpan(r)
      /\ span'[r].parent = Parent(r)'
      /\ Owned(r)'
  <2>1. span'[r] = Continue(r, RequestSpan(r), h)
    BY <1>1, <1>2
  <2>2. Framework(r)' = Framework(r)
    BY <1>1 DEF Framework
  <2> QED
    BY <1>3, <2>1, <2>2, SpanContinued DEF Parent, Owned
<1>6. ASSUME NEW q \in Served
      PROVE  Chained(q)' /\ Owned(q)' /\ Begun(q)' /\ span'[q].parent = Parent(q)'
  <2>1. Chained(q)'
    <3> SUFFICES ASSUME Parses(header[q]) PROVE Chained(q)'
      BY <1>3 DEF Chained
    <3>0. PICK n \in 1..Cardinality(Served) : \E chain \in [1..n -> Requests] :
            /\ chain[n] = q
            /\ HeaderChain(n, chain, span[q].trace)
            /\ \A i \in 1..n : chain[i] \in Served
      BY DEF ChainInv, Chained
    <3>1. PICK chain \in [1..n -> Requests] :
            /\ chain[n] = q
            /\ HeaderChain(n, chain, span[q].trace)
            /\ \A i \in 1..n : chain[i] \in Served
      BY <3>0
    <3>2. n \in 1..Cardinality(Served') /\ n \in Nat /\ 1 \in 1..n
      BY <1>4
    <3>3. \A i \in 1..n : header'[chain[i]] = header[chain[i]] /\ chain[i] \in Served'
      BY <1>3, <3>1
    <3>4. HeaderChain(n, chain, span[q].trace)'
      BY <1>3, <3>1, <3>2, <3>3 DEF HeaderChain
    <3> QED
      BY <1>3, <3>1, <3>2, <3>3, <3>4 DEF Chained
  <2>2. Owned(q)'
    BY <1>3 DEF ChainInv, Owned
  <2>3. Begun(q)'
    BY <1>3 DEF ChainInv, Begun
  <2>4. Parent(q)' = Parent(q)
    BY <1>1, <1>3 DEF Parent, Framework
  <2> QED
    BY <1>3, <2>1, <2>2, <2>3, <2>4 DEF ChainInv
<1>7. ASSUME Parses(h), h \notin {NoHeader, Garbled, Foreign}
      PROVE  \E q \in Served :
               /\ h.span = HandlerSpan(q, r)
               /\ \/ h.trace = HandlerSpan(q, r)
                  \/ Parses(header[q]) /\ h.trace = header[q].trace
  <2>1. PICK q \in Served : h \in Outgoing(q, r)
    BY <1>7
  <2> QED
    BY <1>7, <2>1, OutgoingHeaders
<1>8. Parses(h) /\ h \in {NoHeader, Garbled, Foreign} => h = Foreign /\ h.trace = Outside
  BY DEF Parses, NoHeader, Garbled, Foreign
<1>9. Begun(r)'
  <2> SUFFICES ASSUME NEW q \in Requests, NEW x \in Requests,
                      span'[r].trace = HandlerSpan(q, x)
               PROVE  q \in Served' /\ x \in Served' /\ span'[q].trace # HandlerSpan(q, x)
    BY DEF Begun
  <2>1. Parses(h) /\ h.trace = HandlerSpan(q, x)
    BY <1>5, SpansDiffer
  <2>2. PICK p \in Served :
          \/ h.trace = HandlerSpan(p, r)
          \/ Parses(header[p]) /\ h.trace = header[p].trace
    BY <1>7, <1>8, <2>1, SpansDiffer
  <2>3. CASE h.trace = HandlerSpan(p, r)
    <3>1. q = p /\ x = r
      <4>1. HandlerSpan(q, x) = HandlerSpan(p, r)
        BY <2>1, <2>3
      <4> QED
        BY ONLY <4>1, SpansDiffer
    <3>2. span[p].trace # HandlerSpan(p, r)
      BY <1>3 DEF ChainInv, Begun
    <3> QED
      BY <1>3, <3>1, <3>2
  <2>4. CASE Parses(header[p]) /\ h.trace = header[p].trace
    <3>1. span[p].trace = HandlerSpan(q, x)
      BY <2>1, <2>4 DEF ChainInv, Owned
    <3>2. q \in Served /\ x \in Served /\ span[q].trace # HandlerSpan(q, x)
      BY <3>1 DEF ChainInv, Begun
    <3> QED
      BY <1>3, <3>2
  <2> QED
    BY <2>2, <2>3, <2>4
<1>10. Chained(r)'
  <2> SUFFICES ASSUME Parses(h) PROVE Chained(r)'
    BY <1>3 DEF Chained
  <2>1. CASE h = Foreign
    <3> DEFINE chain == [i \in 1..1 |-> r]
    <3>1. chain \in [1..1 -> Requests] /\ chain[1] = r /\ 1 \in 1..Cardinality(Served')
      BY <1>4
    <3> HIDE DEF chain
    <3>2. HeaderChain(1, chain, span[r].trace)'
      BY <1>3, <1>5, <1>8, <2>1, <3>1 DEF HeaderChain
    <3>3. \A i \in 1..1 : chain[i] \in Served'
      BY <1>3, <3>1
    <3> QED
      BY <3>1, <3>2, <3>3 DEF Chained
  <2>2. ASSUME NEW q \in Served, h.span = HandlerSpan(q, r), h.trace = HandlerSpan(q, r)
        PROVE  Chained(r)'
    <3> DEFINE chain == [i \in 1..2 |-> IF i = 1 THEN q ELSE r]
    <3>1. Cardinality(Served) # 0
      BY FS_EmptySet DEF ChainInv
    <3>2. /\ chain \in [1..2 -> Requests] /\ chain[1] = q /\ chain[2] = r
          /\ 2 \in 1..Cardinality(Served')
      BY <1>3, <1>4, <3>1
    <3> HIDE DEF chain
    <3>3. HeaderChain(2, chain, span[r].trace)'
      BY <1>3, <1>5, <2>2, <3>2 DEF HeaderChain
    <3>4. \A i \in 1..2 : chain[i] \in Served'
      BY <1>3, <3>2
    <3> QED
      BY <3>2, <3>3, <3>4 DEF Chained
  <2>3. ASSUME NEW q \in Served, h.span = HandlerSpan(q, r),
               Parses(header[q]), h.trace = header[q].trace
        PROVE  Chained(r)'
    <3>0. PICK n \in 1..Cardinality(Served) : \E before \in [1..n -> Requests] :
            /\ before[n] = q
            /\ HeaderChain(n, before, span[q].trace)
            /\ \A i \in 1..n : before[i] \in Served
      BY <2>3 DEF ChainInv, Chained
    <3>1. PICK before \in [1..n -> Requests] :
            /\ before[n] = q
            /\ HeaderChain(n, before, span[q].trace)
            /\ \A i \in 1..n : before[i] \in Served
      BY <3>0
    <3> DEFINE chain == [i \in 1..(n + 1) |-> IF i = n + 1 THEN r ELSE before[i]]
    <3>2. /\ n \in Nat /\ n >= 1 /\ n + 1 \in 1..Cardinality(Served') /\ 1 \in 1..n
          /\ 1..(n + 1) = (1..n) \cup {n + 1} /\ n + 1 \notin 1..n
      BY <1>4
    <3>3. /\ chain \in [1..(n + 1) -> Requests] /\ chain[n + 1] = r
          /\ \A i \in 1..n : chain[i] = before[i]
      BY <3>2
    <3> HIDE DEF chain
    <3>4. \A i \in 1..n : header'[chain[i]] = header[before[i]]
      BY <1>3, <3>1, <3>3
    <3>5. span'[r].trace = span[q].trace
      BY <1>5, <2>3 DEF ChainInv, Owned
    <3>6. HeaderChain(n + 1, chain, span[r].trace)'
      <4> DEFINE t == span[q].trace
      <4>1. \/ header'[chain[1]] = Foreign /\ t = Outside
            \/ n + 1 > 1 /\ t = HandlerSpan(chain[1], chain[2])
        <5>1. CASE n = 1
          BY <3>1, <3>2, <3>4, <5>1 DEF HeaderChain
        <5>2. CASE n # 1
          <6>1. 2 \in 1..n
            BY <3>2, <5>2
          <6> QED
            BY <3>1, <3>2, <3>3, <3>4, <6>1 DEF HeaderChain
        <5> QED
          BY <5>1, <5>2
      <4>2. ASSUME NEW i \in 2..n
            PROVE  /\ Parses(header'[chain[i]])
                   /\ header'[chain[i]].span = HandlerSpan(chain[i - 1], chain[i])
                   /\ header'[chain[i]].trace = t
        <5>1. i \in 1..n /\ i - 1 \in 1..n
          BY <3>2
        <5> QED
          BY <3>1, <3>3, <3>4, <5>1 DEF HeaderChain
      <4>3. /\ Parses(header'[chain[n + 1]])
            /\ header'[chain[n + 1]].span = HandlerSpan(chain[n], chain[n + 1])
            /\ header'[chain[n + 1]].trace = t
        <5>1. n \in 1..n
          BY <3>2
        <5> QED
          BY <1>3, <1>5, <2>3, <3>1, <3>3, <3>5, <5>1
      <4>4. \A i \in 2..(n + 1) : i \in 2..n \/ (i = n + 1 /\ i - 1 = n)
        BY <3>2
      <4> HIDE DEF t
      <4>5. ASSUME NEW i \in 2..(n + 1)
            PROVE  /\ Parses(header'[chain[i]])
                   /\ header'[chain[i]].span = HandlerSpan(chain[i - 1], chain[i])
                   /\ header'[chain[i]].trace = t
        BY <4>2, <4>3, <4>4
      <4>6. span'[r].trace = t
        BY <3>5 DEF t
      <4> QED
        BY <4>1, <4>5, <4>6 DEF HeaderChain
    <3>7. \A i \in 1..(n + 1) : chain[i] \in Served'
      BY <1>3, <3>1, <3>2, <3>3
    <3> QED
      BY <3>2, <3>3, <3>6, <3>7 DEF Chained
  <2> QED
    BY <1>7, <1>8, <2>1, <2>2, <2>3
<1> QED
  BY <1>3, <1>4, <1>5, <1>6, <1>9, <1>10 DEF ChainInv

LEMMA ChainStep ==
  ASSUME TracesInv, ChainInv, [MiddlewareNext]_middlewareVars
  PROVE  ChainInv'
<1>1. ASSUME UNCHANGED <<header, service>>, Served' = Served,
             \A q \in Requests :
               span'[q].trace = span[q].trace /\ span'[q].parent = span[q].parent
      PROVE  ChainInv'
  <2>1. ASSUME NEW q \in Served
        PROVE  Chained(q)' /\ Owned(q)' /\ Begun(q)' /\ span'[q].parent = Parent(q)'
    <3>1. q \in Requests /\ Parent(q)' = Parent(q) /\ span'[q].trace = span[q].trace
      BY <1>1 DEF Served, Parent, Framework
    <3>2. \A n, chain, t : HeaderChain(n, chain, t)' <=> HeaderChain(n, chain, t)
      BY <1>1 DEF HeaderChain
    <3>4. Chained(q)'
      BY <1>1, <3>1, <3>2 DEF ChainInv, Chained
    <3>5. Owned(q)' /\ Begun(q)'
      BY <1>1, <3>1 DEF ChainInv, Owned, Begun
    <3> QED
      BY <1>1, <3>1, <3>4, <3>5 DEF ChainInv
  <2> QED
    BY <1>1, <2>1 DEF ChainInv
<1>2. ASSUME NEW r \in Requests, RequestStep(r) PROVE ChainInv'
  <2>1. CASE Arrive(r)
    BY <2>1, ServeChains DEF Arrive
  <2>2. ASSUME NEW q \in Requests, CallOut(q, r) PROVE ChainInv'
    <3>1. q \in Served
      BY <2>2 DEF CallOut, Served
    <3> QED
      BY <2>2, <3>1, ServeChains DEF CallOut
  <2>3. CASE ~Arrive(r) /\ ~\E q \in Requests : CallOut(q, r)
    BY <1>1, <1>2, <2>3, ServedStay
  <2> QED
    BY <2>1, <2>2, <2>3
<1>3. CASE UNCHANGED middlewareVars
  BY <1>1, <1>3 DEF middlewareVars, logVars, requestVars, Served
<1> QED
  BY <1>2, <1>3 DEF MiddlewareNext

\* Every request is in the trace of the handlers' spans its chain of headers leads
\* back to, however requests nest and whatever frameworks they pass, which never
\* is the trace of the request whose handler began it; it names the span it was
\* sent with, except behind fiber's middleware.
THEOREM TracesFollowHeaders == MiddlewareSpec => []TraceConnected
<1>1. ChainInv => TraceConnected
  <2> SUFFICES ASSUME ChainInv, NEW r \in Requests, phase[r] # "idle"
               PROVE  /\ Chained(r) /\ Owned(r) /\ Begun(r) /\ span[r].parent = Parent(r)
                      /\ Served = {q \in Requests : phase[q] # "idle"}
    <3>1. ASSUME NEW r \in Requests,
                 Chained(r) /\ Owned(r) /\ Begun(r) /\ span[r].parent = Parent(r),
                 Served = {q \in Requests : phase[q] # "idle"}
          PROVE  Connected(r)
      BY <3>1 DEF Connected, Chained, Owned, Begun, Parent
    <3>2. (\A r \in Requests : phase[r] # "idle" => Connected(r)) => TraceConnected
      BY DEF Connected, TraceConnected
    <3> QED
      BY <3>1, <3>2
  <2> QED
    BY DEF ChainInv, Served
<1> QED
  BY TracesInit, TracesStep, ChainInit, ChainStep, <1>1, PTL DEF MiddlewareSpec
=============================================================================
