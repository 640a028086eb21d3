------------------------------ MODULE Adapters ------------------------------
(***************************************************************************)
(* The drop-in loggers of pkg/adapters: zap, logrus, zerolog and the       *)
(* standard library's, as concurrent requests of a service use them.       *)
(*                                                                         *)
(* Each service has one base logger, made once and used by all of its      *)
(* requests.  A log call adds one field, which names the request, to that  *)
(* logger, an entry or an event, is filtered by its level, and is sent.    *)
(* What the libraries differ in is the order of these steps, which memory  *)
(* the field goes to, and what panics and Fatal do.  The severity a client *)
(* is given and the format of fields are left out.  A service of logrus    *)
(* makes an entry for each call (logrusLogger), keeps one entry for all    *)
(* (logrusEntry), or passes one map to every WithFields (logrusFields).    *)
(***************************************************************************)
EXTENDS Naturals, FiniteSets, SequencesExt

CONSTANTS
  Services,   \* records: framework, lib, made (a zap logger's derivation)
              \* and threshold (its level)
  Requests,
  Levels,     \* the levels requests log at
  MaxLogs     \* bound: log calls of each request

VARIABLES
  gone,       \* whether a service's process has ended, and how
  slot,       \* the spare element behind the fields of its base logger
  data,       \* the Data of its base entry, or the map it passes
  service,    \* the service that serves a request
  step,       \* where a request is in its log call: next, then the rest
  level,      \* the level of that call
  messages    \* ghost: what has been given to clients

logVars == <<gone, slot, data, service, step, level, messages>>

Nobody == "nobody"
Torn == "torn"      \* half of one field, half of another

-----------------------------------------------------------------------------
(* Levels.                                                                 *)

\* What zap orders from -1, zerolog from -1 and logrus the other way round.
\* "print" stands for methods without a level; "off" is zerolog's Disabled.
Severity ==
  [zap     |-> <<"debug", "info", "warn", "error", "dpanic", "panic", "fatal">>,
   logrus  |-> <<"trace", "debug", "info", "warn", "error", "fatal", "panic">>,
   zerolog |-> <<"trace", "debug", "info", "warn", "error", "fatal", "panic",
                 "print", "off">>,
   stdlib  |-> <<"print", "fatal", "panic">>]

Family(s) ==
  IF s.lib \in {"logrusLogger", "logrusEntry", "logrusFields"} THEN "logrus" ELSE s.lib

Rank(s, l) == CHOOSE i \in DOMAIN Severity[Family(s)] : Severity[Family(s)][i] = l

Has(s, l) == \E i \in DOMAIN Severity[Family(s)] : Severity[Family(s)][i] = l

\* The standard library's has no threshold, and zerolog's Print, Printf and
\* Log take no notice of theirs.
Enabled(s, l) ==
  \/ s.lib = "stdlib"
  \/ l = "print"
  \/ Rank(s, s.threshold) <= Rank(s, l)

\* What a log call does after it has sent its message, or has not.
Outcome(s, l) ==
  CASE s.lib = "zerolog" -> "returns"
    [] l = "fatal" -> "exits"
    [] l = "panic" /\ (s.lib = "zap" => Enabled(s, l)) -> "panics"
    [] OTHER -> "returns"

-----------------------------------------------------------------------------
(* The fields of a zap logger are a slice, and a log call appends to it.   *)

\* The capacity to which append grows a full slice of n fields.
Grown(n) == IF n = 0 THEN 1 ELSE 2 * n

\* Mutant of ZapWith: the field is appended.
ZapWithAppending(n) == [len |-> n + 1, cap |-> Grown(n)]

\* With, here of one field, copies n fields to a slice that just holds them all.
ZapWith(n) == [len |-> n + 1, cap |-> n + 1]

\* Named copies n fields to a full slice and appends one, which may make room
\* for more.
ZapNamed(n) == [len |-> n + 1, cap |-> Grown(n)]

\* Every derivation copies, so what there is room for is what the last one made.
ZapFields(made) ==
  IF made = <<>> THEN [len |-> 0, cap |-> 0]
  ELSE LET copied == Len(made) - 1
       IN  IF Last(made) = "with" THEN ZapWith(copied) ELSE ZapNamed(copied)

\* There is room for a field behind those of the base logger: log calls that
\* add one all write it there.
Roomy(s) == s.lib = "zap" /\ ZapFields(s.made).len < ZapFields(s.made).cap

\* The calls of the service put their fields into one map: an entry changes its
\* Data in place, and LogrusLogger.WithFields takes the caller's map for Data.
OneMap(s) == s.lib \in {"logrusEntry", "logrusFields"}

-----------------------------------------------------------------------------
ASSUME AdaptersAssumption ==
  /\ MaxLogs \in Nat
  /\ \A s \in Services :
       /\ s.lib \in {"zap", "logrusLogger", "logrusEntry", "logrusFields", "zerolog",
                      "stdlib"}
       /\ Has(s, s.threshold)
       /\ s.lib = "zap" => s.threshold = "info"
       /\ s.made \in Seq({"with", "named"})

(* The order of the steps of a log call.                                   *)

\* Debug to Fatal of ZapLogger, and of ZapSugar through them.
ZapRoute == <<"check", "append", "send">>

\* WithField and its kind, then a method of the entry; or no field at all.
LogrusLoggerRoute == <<"entry", "check", "send">>

\* WithField on an entry the service keeps, then a method of the entry.
LogrusEntryRoute == <<"put", "check", "send">>

\* WithFields of the service's map, WithField on its result, then a method of it.
LogrusFieldsRoute == <<"entry", "put", "check", "send">>

\* A field of the event, which exists once the level is checked.
ZerologEventRoute == <<"check", "set", "send">>

\* A field of a logger derived for this call.
ZerologLoggerRoute == <<"set", "check", "send">>

\* No fields and no levels.
StdlibRoute == <<"send">>

Routes(s) ==
  CASE s.lib = "zap" -> {ZapRoute}
    [] s.lib = "logrusLogger" -> {LogrusLoggerRoute}
    [] s.lib = "logrusEntry" -> {LogrusEntryRoute}
    [] s.lib = "logrusFields" -> {LogrusFieldsRoute}
    [] s.lib = "zerolog" -> {ZerologEventRoute, ZerologLoggerRoute}
    [] s.lib = "stdlib" -> {StdlibRoute}

At(r, what) ==
  /\ step[r] # <<>> /\ Head(step[r]) = what
  /\ gone[service[r]] = "no"

AdaptersInit ==
  /\ gone = [s \in Services |-> "no"]
  /\ slot = [s \in Services |-> Nobody]
  /\ data = [s \in Services |-> {}]
  /\ step = [r \in Requests |-> <<>>]
  /\ level = [r \in Requests |-> "none"]
  /\ messages = {}

\* r's handler begins a log call.
BeginLog(r, l) ==
  /\ step[r] = <<>>
  /\ Has(service[r], l) /\ l # "off"
  /\ \E route \in Routes(service[r]) : step' = [step EXCEPT ![r] = route]
  /\ level' = [level EXCEPT ![r] = l]
  /\ UNCHANGED <<gone, slot, data, service, messages>>

\* A level that is not enabled skips the rest.
CheckLevel(r) ==
  /\ At(r, "check")
  /\ step' = [step EXCEPT ![r] = IF Enabled(service[r], level[r]) THEN Tail(@)
                                 ELSE <<"over">>]
  /\ UNCHANGED <<gone, slot, data, service, level, messages>>

GoesOn(r) == step' = [step EXCEPT ![r] = Tail(@)]

\* append(l.fields, fields...): into the base logger's spare room, if any.
AppendField(r) ==
  /\ At(r, "append")
  /\ slot' = IF Roomy(service[r]) THEN [slot EXCEPT ![service[r]] = r] ELSE slot
  /\ GoesOn(r)
  /\ UNCHANGED <<gone, data, service, level, messages>>

\* A method of a LogrusLogger makes an entry: WithField and its kind with a map
\* of its own, WithFields with the map it is given.
MakeEntry(r) ==
  /\ At(r, "entry")
  /\ GoesOn(r)
  /\ UNCHANGED <<gone, slot, data, service, level, messages>>

\* A method of a LogrusEntry writes into the map it has.
PutField(r) ==
  /\ At(r, "put")
  /\ data' = [data EXCEPT ![service[r]] = @ \cup {r}]
  /\ GoesOn(r)
  /\ UNCHANGED <<gone, slot, service, level, messages>>

\* An event has a map of its own, and so has a derived zerolog logger.
SetEventField(r) ==
  /\ At(r, "set")
  /\ GoesOn(r)
  /\ UNCHANGED <<gone, slot, data, service, level, messages>>

\* The fields a message is formatted with, those of the base logger left out.
FieldsOf(r) ==
  LET s == service[r]
  IN  CASE Roomy(s) -> {slot[s]}
        [] OneMap(s) -> data[s]
        [] s.lib = "stdlib" -> {}
        [] OTHER -> {r}

\* The message is formatted and goes to the client.
SendMessage(r) ==
  /\ At(r, "send")
  /\ messages' = messages \cup
       {[by |-> r, fields |-> FieldsOf(r)]}
  /\ step' = [step EXCEPT ![r] = <<"over">>]
  /\ UNCHANGED <<gone, slot, data, service, level>>

\* Two calls use memory they share at the same time.  Writing the spare room
\* leaves, or shows to the one who reads it, a mixture of two fields; the runtime
\* may notice that a map is used while it is written and ends the process.
Collide(r, q) ==
  /\ r # q /\ service[r] = service[q]
  /\ LET s == service[r]
     IN  \/ /\ Roomy(s) /\ At(r, "append") /\ At(q, "append")
            /\ slot' = [slot EXCEPT ![s] = Torn]
            /\ step' = [step EXCEPT ![r] = Tail(@), ![q] = Tail(@)]
            /\ UNCHANGED <<gone, messages>>
         \/ /\ Roomy(s) /\ At(r, "append") /\ At(q, "send")
            /\ messages' = messages \cup {[by |-> q, fields |-> {Torn}]}
            /\ slot' = [slot EXCEPT ![s] = r]
            /\ step' = [step EXCEPT ![r] = Tail(@), ![q] = <<"over">>]
            /\ UNCHANGED gone
         \/ /\ OneMap(s)
            /\ At(r, "put") /\ (At(q, "put") \/ At(q, "send"))
            /\ gone' = [gone EXCEPT ![s] = "race"]
            /\ UNCHANGED <<slot, step, messages>>
  /\ UNCHANGED <<data, service, level>>

\* Half of one value and half of another may be none at all: formatting it
\* ends the process.
FormatTorn(r) ==
  LET s == service[r]
  IN  /\ Roomy(s) /\ At(r, "send")
      /\ \/ slot[s] = Torn
         \/ \E q \in Requests \ {r} : service[q] = s /\ At(q, "append")
      /\ gone' = [gone EXCEPT ![s] = "race"]
      /\ UNCHANGED <<slot, data, service, step, level, messages>>

LogStep(r) ==
  \/ CheckLevel(r)
  \/ AppendField(r)
  \/ MakeEntry(r)
  \/ PutField(r)
  \/ SetEventField(r)
  \/ SendMessage(r)
  \/ FormatTorn(r)
  \/ \E q \in Requests : Collide(r, q)

-----------------------------------------------------------------------------
\* A log call is over; Fatal ends the process, also when it has sent nothing.
LogReturns(r, outcome) ==
  /\ At(r, "over")
  /\ outcome = Outcome(service[r], level[r])
  /\ step' = [step EXCEPT ![r] = <<>>]
  /\ level' = [level EXCEPT ![r] = "none"]
  /\ gone' = IF outcome = "exits" THEN [gone EXCEPT ![service[r]] = "exit"] ELSE gone
  /\ UNCHANGED <<slot, data, service, messages>>

-----------------------------------------------------------------------------
AdaptersTypeOK ==
  /\ gone \in [Services -> {"no", "exit", "race"}]
  /\ slot \in [Services -> Requests \cup {Nobody, Torn}]
  /\ data \in [Services -> SUBSET Requests]
  /\ service \in [Requests -> Services]
  /\ level \in [Requests -> Levels \cup {"none"}]
  /\ messages \subseteq [by : Requests, fields : SUBSET (Requests \cup {Torn})]

\* A message carries the field of the call it comes from and no other call's,
\* whatever other requests log through the same base logger meanwhile, and no
\* logging ends the process.  There are exceptions: the calls of a logrus
\* service with one map leave their fields in it for each other, and calls
\* through a zap logger that Named made share the room it has left.
LoggersKeepApart ==
  LET Named(s) == s.lib = "zap" /\ s.made # <<>> /\ Last(s.made) = "named"
  IN  /\ \A m \in messages :
           LET s == service[m.by]
           IN  CASE Named(s) -> Cardinality(m.fields) = 1
                 [] OneMap(s) -> m.by \in m.fields
                 [] s.lib = "stdlib" -> m.fields = {}
                 [] OTHER -> m.fields = {m.by}
      /\ \A s \in Services : gone[s] = "race" => OneMap(s) \/ Named(s)
=============================================================================
