---------------------------- MODULE MCAgentLoop ----------------------------
(* One criterion that requires the test check, one check, one file, and    *)
(* thresholds small enough for every counter to reach its limit.           *)
EXTENDS AgentLoop, TLC

CONSTANTS tests1, test, file

MCCriteria == {tests1}
MCChecks == {test}
MCRequired == tests1 :> {test}
MCFiles == {file}
MCToolStatuses == {"completed"}

\* The liveness run leaves out what only makes states.
MCNoFiles == {}
MCNoStatuses == {}
=============================================================================
