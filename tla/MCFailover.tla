----------------------------- MODULE MCFailover -----------------------------
(* Values for Failover: one thread's requests with every outcome and a     *)
(* list that changes, and overlapping requests of two threads.             *)
EXTENDS Failover

CONSTANTS r1, r2, a, b, c

(* One of each class of outcomes that SendRequest tells apart: "3xx" and   *)
(* "broken" are treated like "4xx", "cancelled" like "unreachable".       *)
Classes == AllOutcomes \ {"3xx", "broken", "cancelled"}

MCScopes ==
    {[requests |-> {r1}, lists |-> {<<a, b>>, <<a, b, c>>}, outcomes |-> Classes,
      dwMaxRetryCount |-> 4],
     [requests |-> {r1, r2}, lists |-> {<<a, b>>}, outcomes |-> {"ok", "comm"},
      dwMaxRetryCount |-> 3]}
=============================================================================
