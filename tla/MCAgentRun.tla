----------------------------- MODULE MCAgentRun -----------------------------
(* Small instance of AgentRun: runs with the products' webhooks, one that    *)
(* polls and approves automatically, and runs from fixtures.                 *)
EXTENDS AgentRun

Live == [axion |-> "webhook", fixtures |-> FALSE, auto |-> FALSE, failOnSync |-> FALSE,
         persist |-> "throw", extra |-> FALSE, inputs |-> [post |-> 1, hook |-> 1, save |-> 0, batch |-> 0]]
MCConfigs ==
    {Live,
     [Live EXCEPT !.inputs = [post |-> 0, hook |-> 0, save |-> 0, batch |-> 1]],
     [Live EXCEPT !.axion = "poll", !.auto = TRUE, !.failOnSync = TRUE, !.extra = TRUE,
                  !.inputs = [post |-> 0, hook |-> 0, save |-> 0, batch |-> 1]],
     [Live EXCEPT !.fixtures = TRUE, !.persist = "log", !.inputs = [post |-> 1, hook |-> 0, save |-> 1, batch |-> 0]]}
MCBatch == <<[id |-> "b", name |-> "belief_extracted"], [id |-> "a", name |-> "tool_observed"]>>
=============================================================================
