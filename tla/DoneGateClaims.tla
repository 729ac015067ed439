-------------------------- MODULE DoneGateClaims --------------------------
(***************************************************************************)
(* What the documentation and the comments of Forge say of the done-gate   *)
(* and the code does not do.  Each formula states one sentence; the run of *)
(* the same name shows an execution of the code that contradicts it.       *)
(***************************************************************************)
EXTENDS DoneGate

(* docs/run-lifecycle.md: "Failed verification should lead to repair, not  *)
(* premature completion."  A criterion verified earlier is never revoked   *)
(* when its check fails later, and a resolved contract completes.          *)
NoFailingCheckAtCompletion == Completing => Failed(matrix) = {}

(* docs/autonomy.md: update_acceptance("verified") is rejected unless the  *)
(* checks "have recently passed via run_verification".  verify_check lets  *)
(* the model write the passing entry itself.                               *)
EvidenceWasRun ==
  [][\A c \in Criteria :
       UpdateAcceptance(c, "verified") => Required[c] \subseteq executed]_gateVars

(* docs/autonomy.md: the criteria add_acceptance_criterion breaks a task   *)
(* into are "persisted durably".  A resumed run generates the contract     *)
(* anew and overwrites the file.                                           *)
ContractSurvives ==
  [][\A c \in Criteria :
       criteria[c] # "absent" => criteria'[c] # "absent"]_gateVars
=============================================================================
