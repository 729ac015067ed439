------------------------- MODULE MCDoneGateClaims -------------------------
(* The instance of MCDoneGate, for the sentences the code contradicts.     *)
EXTENDS DoneGateClaims, TLC

CONSTANTS task1, tests1, added, test, build, file

MCCriteria == {task1, tests1, added}
MCGenerated == {task1, tests1}
MCChecks == {test, build}
MCRequired == (task1 :> {}) @@ (tests1 :> {test}) @@ (added :> {build})
MCFiles == {file}
MCToolStatuses == {"verifying", "completed"}
=============================================================================
