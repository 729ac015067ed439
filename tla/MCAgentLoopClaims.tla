------------------------- MODULE MCAgentLoopClaims -------------------------
(* The instance of MCAgentLoop, for the sentences the code contradicts.    *)
EXTENDS AgentLoopClaims, TLC

CONSTANTS tests1, test, file

MCCriteria == {tests1}
MCChecks == {test}
MCRequired == tests1 :> {test}
MCFiles == {file}
MCToolStatuses == {"completed"}
=============================================================================
