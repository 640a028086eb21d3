----------------------------- MODULE Middleware -----------------------------
(***************************************************************************)
(* Request tracing: tracing.go and the middleware for chi, gin, echo and   *)
(* fiber, around handlers that log through the loggers of Adapters.        *)
(*                                                                         *)
(* A service runs one of the four or TracingMiddleware.  A request comes   *)
(* from outside or from the handler of another one.  The span a middleware *)
(* starts is local to it: what a handler sends along with a request is a   *)
(* span of its own.  A trace is named by the span that began it.           *)
(* The SDK is initialised and no hook drops anything; Sdk models both.     *)
(***************************************************************************)
EXTENDS Adapters

VARIABLES
  phase,     \* where the middleware is with a request
  header,    \* the trace header it came with
  span,      \* its span: trace, parent and status
  traces,    \* ghost: how often the span has been sent
  reports,   \* ghost: how often its panic has been captured
  written,   \* the status its handler has written when it ends
  recorded,  \* the status its middleware reads then
  failed,    \* ghost: whether the handler has panicked or returned an error
  answer,    \* ghost: what its client gets
  logs       \* how often the handler has logged

requestVars ==
  <<phase, header, span, traces, reports, written, recorded, failed, answer, logs>>
middlewareVars == <<logVars, requestVars>>

\* The names of spans: the middleware's of request r, one that q's handler has
\* made to send r, one of another program's.
RequestSpan(r) == <<"request", r, r>>
HandlerSpan(q, r) == <<"handler", q, r>>
Outside == <<"outside", Nobody, Nobody>>
NoName == <<"none", Nobody, Nobody>>

NoSpan == [id |-> NoName, trace |-> NoName, parent |-> NoName, status |-> "ok"]
NoHeader == [form |-> "none", trace |-> NoName, span |-> NoName]
Garbled == [form |-> "garbled", trace |-> NoName, span |-> NoName]
Foreign == [form |-> "trace", trace |-> Outside, span |-> Outside]

MiddlewareInit ==
  /\ AdaptersInit
  /\ service \in [Requests -> Services]
  /\ phase = [r \in Requests |-> "idle"]
  /\ header = [r \in Requests |-> NoHeader]
  /\ span = [r \in Requests |-> NoSpan]
  /\ traces = [r \in Requests |-> 0]
  /\ reports = [r \in Requests |-> 0]
  /\ written = [r \in Requests |-> "none"]
  /\ recorded = [r \in Requests |-> "none"]
  /\ failed = [r \in Requests |-> "no"]
  /\ answer = [r \in Requests |-> "none"]
  /\ logs = [r \in Requests |-> 0]

Framework(r) == service[r].framework

Live(r) == gone[service[r]] = "no"

-----------------------------------------------------------------------------
(* Trace propagation.                                                      *)

StartSpan(id) == [id |-> id, trace |-> id, parent |-> NoName, status |-> "ok"]

\* ExtractTraceContext and ParseTraceHeader: only a header in the right form
\* counts.  The sampled flag, which nothing reads, is left out.
Parses(h) == h.form = "trace"

\* Mutant of ContinueFromRequest: any header but the missing one counts.
ContinueFromAnyHeader(id, h) ==
  IF h.form # "none"
  THEN [id |-> id, trace |-> h.trace, parent |-> h.span, status |-> "ok"]
  ELSE StartSpan(id)

ContinueFromRequest(id, h) ==
  IF Parses(h) THEN [id |-> id, trace |-> h.trace, parent |-> h.span, status |-> "ok"]
  ELSE StartSpan(id)

\* The fiber middleware keeps the trace but not the parent.
FiberSpan(id, h) ==
  IF Parses(h) THEN [StartSpan(id) EXCEPT !.trace = h.trace] ELSE StartSpan(id)

\* How the request r is continued where it is served.
Continue(r, id, h) ==
  IF Framework(r) = "fiber" THEN FiberSpan(id, h) ELSE ContinueFromRequest(id, h)

\* InjectTraceContext of span s, on an outgoing request.
InjectTraceContext(s) == [form |-> "trace", trace |-> s.trace, span |-> s.id]

\* A request with header h reaches its service, whose middleware starts a span
\* and calls the handler.
Serve(r, h) ==
  /\ phase[r] = "idle" /\ Live(r)
  /\ phase' = [phase EXCEPT ![r] = "running"]
  /\ header' = [header EXCEPT ![r] = h]
  /\ span' = [span EXCEPT ![r] = Continue(r, RequestSpan(r), h)]
  /\ UNCHANGED <<logVars, traces, reports, written, recorded, failed, answer, logs>>

Arrive(r) == \E h \in {NoHeader, Garbled, Foreign} : Serve(r, h)

\* What q's handler can put into the header of r: nothing, a span it starts, or
\* one with which it continues its own request once more.
Outgoing(q, r) ==
  {NoHeader, InjectTraceContext(StartSpan(HandlerSpan(q, r))),
   InjectTraceContext(Continue(q, HandlerSpan(q, r), header[q]))}

\* q's handler sends r.
CallOut(q, r) ==
  /\ phase[q] = "running" /\ Live(q) /\ step[q] = <<>>
  /\ \E h \in Outgoing(q, r) : Serve(r, h)

-----------------------------------------------------------------------------
(* The handler.                                                            *)

Handling(r) == phase[r] = "running" /\ Live(r) /\ step[r] = <<>>

\* The status r's handler has written by the time it ends, if any: nothing
\* looks at it before.
Wrote(r) ==
  \E status \in {"none", "ok", "4xx", "5xx"} : written' = [written EXCEPT ![r] = status]

\* They know the status of the last WriteHeader, where the client gets that of
\* the first; gin's and echo's responses keep the first, fiber's the last.
RecordsLast == {"tracing", "chi"}

\* The status the middleware finds when the handler returns.
Recorded(r) ==
  \E status \in IF Framework(r) \in RecordsLast /\ written'[r] # "none"
                THEN {"ok", "4xx", "5xx"} ELSE {written'[r]} :
    recorded' = [recorded EXCEPT ![r] = status]

Log(r) ==
  /\ Handling(r)
  /\ logs[r] < MaxLogs
  /\ logs' = [logs EXCEPT ![r] = @ + 1]
  /\ \E l \in Levels : BeginLog(r, l)
  /\ UNCHANGED <<phase, header, span, traces, reports, written, recorded, failed, answer>>

\* The log call is over: the handler goes on, panics, or the process ends.
LogOver(r) ==
  /\ \E outcome \in {"returns", "panics", "exits"} :
       /\ LogReturns(r, outcome)
       /\ phase' = IF outcome = "panics" THEN [phase EXCEPT ![r] = "panicking"]
                                         ELSE phase
       /\ failed' = IF outcome = "panics" THEN [failed EXCEPT ![r] = "panic"] ELSE failed
       /\ IF outcome = "panics" THEN Wrote(r) ELSE UNCHANGED written
  /\ UNCHANGED <<header, span, traces, reports, recorded, answer, logs>>

Panic(r) ==
  /\ Handling(r)
  /\ phase' = [phase EXCEPT ![r] = "panicking"]
  /\ failed' = [failed EXCEPT ![r] = "panic"]
  /\ Wrote(r)
  /\ UNCHANGED <<logVars, header, span, traces, reports, recorded, answer, logs>>

-----------------------------------------------------------------------------
(* The middleware after the handler.                                       *)

\* Span.End, which a middleware calls once.
End(r, status) ==
  /\ span' = [span EXCEPT ![r].status = status]
  /\ traces' = [traces EXCEPT ![r] = @ + 1]

TakesErrors == {"echo", "fiber"}   \* handlers that return an error

\* Mutant of TraceStatus: an error counts only once it has become a status.
TraceStatusWithoutError(err, status) == IF status = "5xx" THEN "error" ELSE "ok"

TraceStatus(err, status) == IF status = "5xx" \/ err THEN "error" ELSE "ok"

\* The handler returns, with an error where it can.  The framework makes an
\* answer of the error: echo one that is not yet written, fiber any.
Return(r) ==
  \E err \in BOOLEAN :
    /\ Handling(r)
    /\ err => Framework(r) \in TakesErrors
    /\ Wrote(r) /\ Recorded(r)
    /\ End(r, TraceStatus(err, recorded'[r]))
    /\ failed' = [failed EXCEPT ![r] = IF err THEN "error" ELSE @]
    /\ \E made \in IF err /\ (Framework(r) = "fiber" \/ written'[r] = "none")
                   THEN {"4xx", "5xx"}
                   ELSE {IF written'[r] = "none" THEN "ok" ELSE written'[r]} :
         answer' = [answer EXCEPT ![r] = made]
    /\ phase' = [phase EXCEPT ![r] = "over"]
    /\ UNCHANGED <<logVars, header, reports, logs>>

\* TracingMiddleware recovers nothing: its span is never sent, and net/http
\* breaks the connection.
Escape(r) ==
  /\ phase[r] = "panicking" /\ Live(r)
  /\ Framework(r) = "tracing"
  /\ phase' = [phase EXCEPT ![r] = "over"]
  /\ answer' = [answer EXCEPT ![r] = "broken"]
  /\ UNCHANGED <<logVars, header, span, traces, reports, written, recorded, failed, logs>>

\* The others recover, end the span with status error,
Recover(r) ==
  /\ phase[r] = "panicking" /\ Live(r)
  /\ Framework(r) # "tracing"
  /\ End(r, "error")
  /\ phase' = [phase EXCEPT ![r] = "recovered"]
  /\ UNCHANGED <<logVars, header, reports, written, recorded, failed, answer, logs>>

\* call CaptureErrorWithAttrs,
Capture(r) ==
  /\ phase[r] = "recovered" /\ Live(r)
  /\ reports' = [reports EXCEPT ![r] = @ + 1]
  /\ phase' = [phase EXCEPT ![r] = "captured"]
  /\ UNCHANGED <<logVars, header, span, traces, written, recorded, failed, answer, logs>>

\* Mutant of Answer: echo's second panic comes back to this middleware.
AnswerByPanickingAgain(r) ==
  /\ phase[r] = "captured" /\ Live(r)
  /\ answer' = [answer EXCEPT ![r] = IF written[r] = "none" THEN "5xx" ELSE written[r]]
  /\ phase' = [phase EXCEPT ![r] = IF Framework(r) = "echo" THEN "panicking" ELSE "over"]
  /\ UNCHANGED <<logVars, header, span, traces, reports, written, recorded, failed, logs>>

\* and answer 500: chi and gin unless a status was written, fiber always.
\* echo panics again, for its own recovery, if it has one, or net/http's.
Answer(r) ==
  /\ phase[r] = "captured" /\ Live(r)
  /\ \E made \in IF Framework(r) = "echo" THEN {"5xx", "broken"}
                 ELSE IF Framework(r) = "fiber" \/ written[r] = "none" THEN {"5xx"}
                 ELSE {written[r]} :
       answer' = [answer EXCEPT ![r] = made]
  /\ phase' = [phase EXCEPT ![r] = "over"]
  /\ UNCHANGED <<logVars, header, span, traces, reports, written, recorded, failed, logs>>

RequestStep(r) ==
  \/ Arrive(r)
  \/ \E q \in Requests : CallOut(q, r)
  \/ Log(r)
  \/ LogStep(r) /\ UNCHANGED requestVars
  \/ LogOver(r)
  \/ Panic(r)
  \/ Return(r)
  \/ Escape(r)
  \/ Recover(r)
  \/ Capture(r)
  \/ Answer(r)

MiddlewareNext == \E r \in Requests : RequestStep(r)

MiddlewareSpec == MiddlewareInit /\ [][MiddlewareNext]_middlewareVars

-----------------------------------------------------------------------------
Names ==
  {"request", "handler", "outside", "none"} \X (Requests \cup {Nobody})
                                            \X (Requests \cup {Nobody})

IntegrationTypeOK ==
  /\ AdaptersTypeOK
  /\ phase \in [Requests -> {"idle", "running", "panicking", "recovered",
                             "captured", "over"}]
  /\ header \in [Requests -> [form : {"none", "garbled", "trace"},
                              trace : Names, span : Names]]
  /\ span \in [Requests -> [id : Names, trace : Names, parent : Names,
                            status : {"ok", "error"}]]
  /\ traces \in [Requests -> 0..1]
  /\ reports \in [Requests -> 0..1]
  /\ written \in [Requests -> {"none", "ok", "4xx", "5xx"}]
  /\ recorded \in [Requests -> {"none", "ok", "4xx", "5xx"}]
  /\ failed \in [Requests -> {"no", "error", "panic"}]
  /\ answer \in [Requests -> {"none", "ok", "4xx", "5xx", "broken"}]
  /\ logs \in [Requests -> 0..MaxLogs]

\* A request that is over has sent one trace.  Its status is error if and only if
\* the handler failed or the middleware recorded a 5xx.  So unless a handler wrote
\* its status twice, the trace of one that did not fail shows an error exactly when
\* the client saw a 5xx, and none for a 4xx.  A panic has been captured once.  Only
\* a panic through TracingMiddleware leaves nothing behind.
EveryRequestTraced ==
  \A r \in Requests :
    phase[r] = "over" =>
      IF Framework(r) = "tracing" /\ failed[r] = "panic"
      THEN traces[r] = 0 /\ reports[r] = 0
      ELSE /\ traces[r] = 1
           /\ span[r].status = "error" <=> (failed[r] # "no" \/ recorded[r] = "5xx")
           /\ recorded[r] = written[r] /\ failed[r] = "no" =>
                span[r].status = "error" <=> answer[r] = "5xx"
           /\ reports[r] = 1 <=> failed[r] = "panic"

\* A chain of n requests, each sent by the handler of the one before it with a
\* span of trace t, which comes from outside or was begun by the first handler.
HeaderChain(n, chain, t) ==
  /\ \A i \in 2..n : /\ Parses(header[chain[i]])
                     /\ header[chain[i]].span = HandlerSpan(chain[i - 1], chain[i])
                     /\ header[chain[i]].trace = t
  /\ \/ header[chain[1]] = Foreign /\ t = Outside
     \/ n > 1 /\ t = HandlerSpan(chain[1], chain[2])

\* The trace of a request is that of the handlers' spans that lead to it, through
\* all frameworks; without a header that parses it is the request's own.  As no
\* handler can send the middleware's span, a trace that a handler begins never
\* holds its own request.  A request names the span it was sent with as its
\* parent, except behind fiber's middleware.
TraceConnected ==
  \A r \in Requests :
    phase[r] # "idle" =>
      /\ IF Parses(header[r])
         THEN \E n \in 1..Cardinality({q \in Requests : phase[q] # "idle"}) :
                \E chain \in [1..n -> Requests] :
                  chain[n] = r /\ HeaderChain(n, chain, span[r].trace)
         ELSE span[r].trace = RequestSpan(r)
      /\ \A q, x \in Requests :
           span[r].trace = HandlerSpan(q, x) => span[q].trace # span[r].trace
      /\ span[r].parent = IF Framework(r) # "fiber" /\ Parses(header[r])
                          THEN header[r].span ELSE NoName
=============================================================================
