---------------------------- MODULE MCDoneGate ----------------------------
(* A task with a primary criterion (no required checks), the criterion of  *)
(* a tests domain, and one the model may add that requires the build.      *)
EXTENDS DoneGate, TLC

CONSTANTS task1, tests1, added, test, build, file

MCCriteria == {task1, tests1, added}
MCGenerated == {task1, tests1}
MCChecks == {test, build}
MCRequired == (task1 :> {}) @@ (tests1 :> {test}) @@ (added :> {build})
MCFiles == {file}
MCToolStatuses == {"verifying", "completed"}
=============================================================================
