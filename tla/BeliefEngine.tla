---------------------------- MODULE BeliefEngine ----------------------------
(***************************************************************************)
(* The in-memory belief engine of forge-belief: the active belief graph    *)
(* (graph.ts) and the diagnostic engine that feeds it from a failed check  *)
(* (diagnostics.ts).                                                       *)
(* Confidences are in percent, as clamp() rounds them.                     *)
(***************************************************************************)
EXTENDS Integers, FiniteSets, Sequences

CONSTANT MaxUpdates    \* bound: observations applied

VARIABLES hyp,        \* 1..3 -> [status, confidence, supporting, contradicting]
          contradictions, \* targets of the recorded contradictions
          graphClaim, \* a claim of the graph: [status, confidence]
          diagnosis,  \* the last diagnosis and what applyObservation made of it
          updates

engineVars == <<hyp, contradictions, graphClaim, diagnosis, updates>>

Actions == {"promote", "demote", "contradict", "support", "mark_stale"}

(* initialHypotheses: three templates, the first one plausible.            *)
InitialHypotheses ==
  [i \in 1..3 |-> [status |-> IF i = 1 THEN "plausible" ELSE "unknown",
                   confidence |-> IF i = 1 THEN 55 ELSE 35,
                   supporting |-> 0, contradicting |-> 0]]

Clamp(x) == IF x < 0 THEN 0 ELSE IF x > 100 THEN 100 ELSE x

DefaultDelta(action) ==
  IF action \in {"promote", "support"} THEN 20
  ELSE IF action = "demote" THEN -25 ELSE IF action = "contradict" THEN -60 ELSE 0

\* Mutant: the status is decided from the confidence before the update.
StatusForUpdateKept(current, action, confidence) ==
  IF action = "demote" /\ current \in {"verified", "likely"} THEN current
  ELSE IF action = "contradict" THEN IF confidence <= 15 THEN "disproven" ELSE "contradicted"
  ELSE IF action = "mark_stale" THEN "stale"
  ELSE IF action \in {"promote", "support"}
       THEN IF confidence >= 85 THEN "verified" ELSE IF confidence >= 65 THEN "likely" ELSE "plausible"
  ELSE IF confidence <= 15 THEN "disproven" ELSE "plausible"

StatusForUpdate(current, action, confidence) ==
  IF action = "contradict" THEN IF confidence <= 15 THEN "disproven" ELSE "contradicted"
  ELSE IF action = "mark_stale" THEN "stale"
  ELSE IF action \in {"promote", "support"}
       THEN IF confidence >= 85 THEN "verified" ELSE IF confidence >= 65 THEN "likely" ELSE "plausible"
  ELSE IF action = "demote" THEN IF confidence <= 15 THEN "disproven" ELSE "plausible"
  ELSE current

(* applyBeliefUpdate: the target, if it is a hypothesis, moves; a          *)
(* contradiction is recorded whether or not the target exists.             *)
Moved(h, action, delta) ==
  LET confidence == Clamp(h.confidence + delta) IN
  [status |-> StatusForUpdate(h.status, action, confidence),
   confidence |-> confidence,
   supporting |-> h.supporting + (IF action \in {"support", "promote"} THEN 1 ELSE 0),
   contradicting |-> h.contradicting + (IF action \in {"contradict", "demote"} THEN 1 ELSE 0)]

Targets == 1..3 \cup {0}    \* 0: an id that is no hypothesis of the state

ApplyBeliefUpdate ==
  /\ updates < MaxUpdates /\ updates' = updates + 1
  /\ \E target \in Targets, action \in Actions :
       \E delta \in {DefaultDelta(action), IF action = "contradict" THEN -80 ELSE DefaultDelta(action)} :
         /\ hyp' = [i \in 1..3 |-> IF i = target THEN Moved(hyp[i], action, delta) ELSE hyp[i]]
         /\ contradictions' = IF action = "contradict" THEN contradictions \cup {target}
                              ELSE contradictions
  /\ UNCHANGED <<graphClaim, diagnosis>>

-----------------------------------------------------------------------------
(* What the patterns of diagnostics.ts find in a failed check's output;    *)
(* "guardPath" is a failed file whose path looks like a guard or policy.   *)
Signals == {"auth", "admin", "data", "column", "ui", "type", "guardPath"}

LikelyDomains(seen) ==
  (IF seen \cap {"auth", "admin"} # {} THEN {"auth", "permissions", "backend"} ELSE {})
  \cup (IF seen \cap {"data", "column"} # {} THEN {"database", "backend"} ELSE {})
  \cup (IF "ui" \in seen THEN {"frontend"} ELSE {})
  \cup (IF "type" \in seen THEN {"shared"} ELSE {})

(* proposeRootCauseHypotheses: the first pattern that matches.             *)
RootCauses(seen) ==
  IF seen \cap {"auth", "guardPath"} # {} THEN {"route_guard", "role_mapping", "session_expiry"}
  ELSE IF "data" \in seen THEN {"migration_drift"}
  ELSE IF "type" \in seen THEN {"type_drift"}
  ELSE {"unknown_cause"}

(* pickSuggestedProbe: a guard file always suggests a session expiry, so   *)
(* the policy-source probe behind it is never reached.                     *)
SuggestedProbe(seen, regionCanTrace) ==
  IF regionCanTrace \/ "guardPath" \in seen THEN "auth.trace_permission_check" ELSE "none"

(* recommendProbe: for the first unverified or stale claim of the graph.   *)
Recommended(status, critical) ==
  IF status \in {"unverified", "stale"} /\ critical THEN "tests.find_related_tests"
  ELSE "repo.find_definitions"

(* applyObservation of a diagnosis: its updates name domains and a         *)
(* hypothesis the graph does not have, so no confidence moves.             *)
Diagnose ==
  /\ \E seen \in SUBSET Signals, region, critical \in BOOLEAN :
       LET suggested == SuggestedProbe(seen, region) IN
       diagnosis' = [domains |-> LikelyDomains(seen), causes |-> RootCauses(seen),
                     uncertain |-> diagnosis.uncertain \/ LikelyDomains(seen) = {},
                     guard |-> "guardPath" \in seen,
                     next |-> IF suggested # "none" THEN suggested
                              ELSE Recommended(graphClaim.status, critical)]
  /\ UNCHANGED <<hyp, contradictions, graphClaim, updates>>

(* A claim of the graph; markClaimsStaleForFiles when files changed.       *)
VerifyGraphClaim ==
  /\ graphClaim' \in [status : {"verified", "partially_verified"}, confidence : {30, 90}]
  /\ UNCHANGED <<hyp, contradictions, diagnosis, updates>>

StaleForFiles(c) ==
  IF c.status \in {"verified", "partially_verified"}
  THEN [status |-> "stale", confidence |-> IF c.confidence > 49 THEN 49 ELSE c.confidence] ELSE c

MarkClaimsStaleForFiles ==
  /\ graphClaim' = StaleForFiles(graphClaim)
  /\ UNCHANGED <<hyp, contradictions, diagnosis, updates>>

-----------------------------------------------------------------------------
EngineInit ==
  /\ hyp = InitialHypotheses
  /\ contradictions = {}
  /\ graphClaim = [status |-> "unverified", confidence |-> 0]
  /\ diagnosis = [domains |-> {}, causes |-> {}, uncertain |-> FALSE, guard |-> FALSE,
                  next |-> "repo.find_definitions"]
  /\ updates = 0

EngineNext ==
  \/ ApplyBeliefUpdate
  \/ Diagnose \/ VerifyGraphClaim \/ MarkClaimsStaleForFiles

EngineSpec == EngineInit /\ [][EngineNext]_engineVars
-----------------------------------------------------------------------------
EngineTypeOK ==
  /\ \A i \in 1..3 : hyp[i].confidence \in 0..100
  /\ contradictions \subseteq Targets

(* A status is never at odds with the confidence behind it, along any run  *)
(* of updates: verified means 85 or more, disproven 15 or less, and a      *)
(* contradicted hypothesis has a recorded contradiction and its evidence.  *)
StatusMatchesConfidence ==
  \A i \in 1..3 :
    /\ hyp[i].status = "verified" => hyp[i].confidence >= 85
    /\ hyp[i].status = "disproven" => hyp[i].confidence <= 15
    /\ hyp[i].status = "contradicted" => i \in contradictions /\ hyp[i].contradicting > 0

(* The two readings of one failure agree: a root cause that is proposed    *)
(* has its domain among the likely ones, or a failed guard file behind it, *)
(* and a failure with no domain at all is on record as an uncertainty.     *)
DiagnosisAgrees ==
  /\ "migration_drift" \in diagnosis.causes => "database" \in diagnosis.domains
  /\ "type_drift" \in diagnosis.causes => "shared" \in diagnosis.domains
  /\ "route_guard" \in diagnosis.causes => "auth" \in diagnosis.domains \/ diagnosis.guard
  /\ diagnosis.causes # {} /\ diagnosis.domains = {} => diagnosis.uncertain

(* A claim whose files changed does not keep the confidence of its         *)
(* verification.                                                           *)
StaleIsNotTrusted == graphClaim.status = "stale" => graphClaim.confidence < 50

(* Statuses and confidences of hypotheses and claims go together, and the  *)
(* two readings of a failure agree.                                        *)
GraphSound == EngineTypeOK /\ StatusMatchesConfidence /\ StaleIsNotTrusted /\ DiagnosisAgrees
=============================================================================
