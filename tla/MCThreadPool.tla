---------------------------- MODULE MCThreadPool ----------------------------
(* Values for ThreadPool: plain messages, one of them with a delay, one    *)
(* that runs alone and before the others, and one for the future queue.    *)
EXTENDS ThreadPool

CONSTANTS plain, extra, alone, later, client, owner

MCPriority == [m \in Messages |-> IF m = alone THEN 1 ELSE 0]
MCGrouping == [m \in Messages |-> IF m = alone THEN AloneBase ELSE DontCare]
MCDelay == [m \in Messages |->
             IF m = later THEN "future" ELSE IF m = plain THEN "delayed" ELSE "now"]

(* Which messages are sent, and what happens besides.                      *)
Scenario(messages, plans) == [send : messages, plan : plans]
MCScenarios ==
    Scenario({{plain, alone}}, {"refuse", "lower", "kill"})
        \cup Scenario({{alone, later}}, {"none"})
        \cup Scenario({{plain, extra, alone}}, {"single"})
        \cup Scenario({{alone}, {later}}, {"lower", "terminate", "discard"})
=============================================================================
