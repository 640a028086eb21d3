------------------------- MODULE MCResilientClient -------------------------
(* Values for the constants of ResilientClient that a cfg cannot spell.    *)
EXTENDS ResilientClient, TLC

CONSTANTS e1, e2, e3, b1

\* Two entries of different categories.
TwoCategories == e1 :> "events" @@ e2 :> "audit" @@ e3 :> "events"

NoBatches == <<>>

\* One direct batch of one entry.
SmallBatch == b1 :> <<e2>>

\* Workers are interchangeable, and so are e1 and e3, which have one category
\* (safety runs only).
Symmetry == Permutations(Workers) \cup Permutations({e1, e3})

\* Bound: the application enables resilient mode, if it was not configured,
\* before it queues an entry or closes, perhaps during a SendLogBatch.  The run
\* of Retry has its changes at any moment.
ResilientFirst ==
  (\E e \in Entries : ppc'[e] # "new") \/ clientClosed' => resilient' /\ healthURL'

\* Bound: of the counted errors only the network error is returned.  Retry and
\* the client treat it and a 5xx answer alike (the run of Retry has both).
OneCountedError == \A c \in Senders : lastErr'[c] # "server"

\* Bound: no entry is turned away before it is enqueued, except by Close.  The
\* run with the direct batch has the other reasons.
AllAdmitted ==
  \A e \in Entries : fate'[e] \notin {"before_send", "validation_error"}

\* Bounds: the application closes the client after its Send calls returned,
\* and the flush gives up only when the workers have nothing to do but wait.
\* They leave out the losses that take only an unlucky schedule.
SendsReturnFirst ==
  (\E k \in Closers : kpc'[k] # "new") => \A e \in Entries : ppc[e] \in {"queued", "gone"}
TenSecondsAreLong ==
  (\E k \in Closers : CloseFlushTimesOut(k)) =>
    \A w \in Workers : paused /\ (wpc[w] = "pausing" \/ rpc[w] = "rateWait")
=============================================================================
