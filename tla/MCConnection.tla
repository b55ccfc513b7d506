---------------------------- MODULE MCConnection ----------------------------
(* Six systems: one thread that meets every fault, two threads that share  *)
(* sessions while setters are called, two that share a throttle, one that  *)
(* downloads under a throttle and is aborted, one that uploads a stream    *)
(* under a throttle whose timer thread may be late, and one that uploads   *)
(* small streams, which are not charged.                                   *)
EXTENDS Connection, TLC

CONSTANTS r1, r2

Faulty == [threads |-> {r1}, rounds |-> (r1 :> 2), body |-> 2, tail |-> 0, response |-> 1,
           statuses |-> {"2xx", "4xx", "auth"}, faults |-> Faults, changes |-> 0,
           Rate |-> 0, late |-> 1, prompt |-> FALSE]

Sharing == [threads |-> {r1, r2}, rounds |-> (r1 :> 1 @@ r2 :> 1), body |-> 0, tail |-> 0,
            response |-> 0, statuses |-> {"2xx"}, faults |-> {"setup"}, changes |-> 2,
            Rate |-> 0, late |-> 1, prompt |-> TRUE]

Throttled == [threads |-> {r1, r2}, rounds |-> (r1 :> 1 @@ r2 :> 1), body |-> 3, tail |-> 0,
              response |-> 0, statuses |-> {"2xx"}, faults |-> {}, changes |-> 1,
              Rate |-> 1, late |-> 1, prompt |-> TRUE]

Download == [threads |-> {r1}, rounds |-> (r1 :> 2), body |-> 0, tail |-> 0, response |-> 3,
             statuses |-> {"2xx"}, faults |-> {"abort"}, changes |-> 2,
             Rate |-> 1, late |-> 1, prompt |-> FALSE]

Stream == [threads |-> {r1}, rounds |-> (r1 :> 2), body |-> 3, tail |-> 2, response |-> 0,
           statuses |-> {"2xx", "auth"}, faults |-> {}, changes |-> 1,
           Rate |-> 1, late |-> 2, prompt |-> TRUE]

Small == [threads |-> {r1}, rounds |-> (r1 :> 3), body |-> 1, tail |-> 1, response |-> 0,
          statuses |-> {"2xx"}, faults |-> {}, changes |-> 1,
          Rate |-> 1, late |-> 1, prompt |-> TRUE]

MCScopes == {Faulty, Sharing, Throttled, Download, Stream, Small}

=============================================================================
