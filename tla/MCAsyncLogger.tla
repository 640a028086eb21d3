--------------------------- MODULE MCAsyncLogger ---------------------------
(* A client is started, in up to two attempts, and logged to.              *)
EXTENDS AsyncLogger

\* A valid key, an unknown region and a key without a body.
MCKeys == {[region |-> "eu", body |-> "lf_body"],
           [region |-> "xx", body |-> "lf_body"],
           [region |-> "us", body |-> "lf_"]}
=============================================================================
