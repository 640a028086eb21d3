---------------------------- MODULE MCMiddleware ----------------------------
(* Every framework and every library, paired off.                          *)
EXTENDS Middleware

Symmetry == Permutations(Requests)

Service(framework, lib, made, threshold) ==
  [framework |-> framework, lib |-> lib, made |-> made, threshold |-> threshold]

MCServices ==
  {Service("chi", "zap", <<"with", "with", "with">>, "info"),
   Service("gin", "zap", <<"with", "with", "named">>, "info"),
   Service("echo", "logrusLogger", <<>>, "panic"),
   Service("fiber", "logrusEntry", <<>>, "info"),
   Service("gin", "logrusFields", <<>>, "info"),
   Service("tracing", "zerolog", <<>>, "info"),
   Service("tracing", "stdlib", <<>>, "print")}

\* Bound: of two services that serve the requests one is fiber's.  Services meet
\* through the trace header alone, and there are two ways to continue one.
FiberAndOthers ==
  (\E r \in Requests : Framework(r) = "fiber") \/ \A q, r \in Requests : service[q] = service[r]
=============================================================================
