------------------------------- MODULE Ledger -------------------------------
(***************************************************************************)
(* What the client owes its user for the entries it is given, whatever     *)
(* becomes of them in its queue, its workers, its retries and its Close:   *)
(*   - an entry is settled at most once, in one way, and counted so;       *)
(*   - the server gets it before that or not at all, and a second time     *)
(*     only if the first was not acknowledged;                             *)
(*   - it is counted as sent only if the server has it, and as dropped     *)
(*     only if the server has not acknowledged it; where the way it ended  *)
(*     lies before any request, the server has never seen it.              *)
(***************************************************************************)
EXTENDS Integers, FiniteSets

CONSTANTS
  AllEntries,
  Fates,        \* "pending", "sent" and the other ways an entry can end
  DropReasons,  \* those of them that have a counter
  NeverSent     \* those of them that lie before any request

VARIABLES
  fate,         \* how each entry ended
  deliveries,   \* how often the server accepted it, up to two
  replyLost,    \* the entries one of whose acceptances was not acknowledged
  totalSent, drops

ledgerVars == <<fate, deliveries, replyLost, totalSent, drops>>

LedgerInit ==
  /\ fate = [e \in AllEntries |-> "pending"]
  /\ deliveries = [e \in AllEntries |-> 0]
  /\ replyLost = {}
  /\ totalSent = 0
  /\ drops = [r \in DropReasons |-> 0]

Unacknowledged(e) == deliveries[e] > 0 => e \in replyLost

\* The server accepts a request with the entries of S.
Deliver(S) ==
  /\ \A e \in S : fate[e] = "pending" /\ Unacknowledged(e)
  /\ deliveries' = [e \in AllEntries |->
                      IF e \in S /\ deliveries[e] < 2 THEN deliveries[e] + 1
                                                      ELSE deliveries[e]]
  /\ replyLost' \in {replyLost, replyLost \cup S}
  /\ UNCHANGED <<fate, totalSent, drops>>

\* The entries of S end as f.
End(S, f) ==
  /\ \A e \in S : fate[e] = "pending"
  /\ f = "sent" => \A e \in S : deliveries[e] > 0
  /\ f # "sent" => \A e \in S : Unacknowledged(e)
  /\ f \in NeverSent => \A e \in S : deliveries[e] = 0
  /\ fate' = [e \in AllEntries |-> IF e \in S THEN f ELSE fate[e]]
  /\ totalSent' = IF f = "sent" THEN totalSent + Cardinality(S) ELSE totalSent
  /\ drops' = IF f \in DropReasons THEN [drops EXCEPT ![f] = @ + Cardinality(S)]
                                   ELSE drops
  /\ UNCHANGED <<deliveries, replyLost>>

LedgerNext ==
  \E S \in SUBSET AllEntries :
    Deliver(S) \/ \E f \in Fates \ {"pending"} : End(S, f)

LedgerSpec == LedgerInit /\ [][LedgerNext]_ledgerVars
=============================================================================
