--------------------------- MODULE VerificationPlan ---------------------------
(***************************************************************************)
(* The verification planner's package: which check to run next, what its    *)
(* result does to the claims, which claims a changed file makes stale, and  *)
(* when the claims allow completion.  Confidences, weights and scores are   *)
(* in hundredths.                                                           *)
(***************************************************************************)
EXTENDS Integers, Sequences, FiniteSets

CONSTANTS
  ClaimKinds,     \* sequence: what each claim's text is about
  ClaimFiles,     \* sequence: files each claim's evidence names
  GraphNodes,     \* sequence of [id, path], in the graph's order; path "" for none
  GraphEdges,     \* sequence of [source, target, type], in the graph's order
  ChangedFiles,   \* files that can change
  InitialClaim,   \* confidence of a claim nobody has checked
  MaxPlanEvents   \* bound: results, file changes and reviews

ASSUME PlanAssumption ==
  /\ DOMAIN ClaimKinds = 1 .. Len(ClaimKinds) /\ Len(ClaimKinds) \in Nat
  /\ DOMAIN GraphEdges \subseteq Nat
  /\ InitialClaim \in 0 .. 50

VARIABLES
  claims,      \* sequence of claims
  plan,        \* candidate actions, best first; <<>> when none is asked for
  passesSince, \* ghost: claim -> passes since its last failure or invalidation
  changedUnder,\* ghost: claim -> its files changed since it last passed
  planEvents

planVars == <<claims, plan, passesSince, changedUnder, planEvents>>

Risks == {"low", "medium", "high", "critical"}
RiskWeight == [low |-> 35, medium |-> 65, high |-> 100, critical |-> 140]
ThresholdForRisk == [low |-> 50, medium |-> 65, high |-> 80, critical |-> 90]
Serious(c) == c.risk \in {"high", "critical"}
IsWeak(c) == c.status \notin {"verified", "not_applicable"}
Rounded(n, d) == (2 * n + d) \div (2 * d)

-----------------------------------------------------------------------------
(* Candidate actions, in the order they are enumerated.                     *)
InferActionType(kind) ==
  CASE kind = "permission" -> "permission_boundary_check"
    [] kind = "api" -> "api_test"
    [] kind = "migration" -> "migration_up_check"
    [] kind = "ui" -> "frontend_component_test"
    [] kind = "security" -> "security_check"
    [] OTHER -> "unit_test"

(* What is proposed, with its place in the order of enumeration: section,   *)
(* changed file, claim, and number among several of the same.               *)
ForClaim(i, type, at) == [type |-> type, on |-> {i}, by |-> "claim", risk |-> claims[i].risk, at |-> at]
ForCommand(type, weak, at) == [type |-> type, on |-> weak, by |-> "command", risk |-> "none", at |-> at]
ForUncertainty(risk, at) ==
  [type |-> IF risk \in {"high", "critical"} THEN "security_check" ELSE "runtime_trace",
   on |-> {}, by |-> "uncertainty", risk |-> risk, at |-> at]
Precedes(x, y) == \E k \in 1 .. 4 : x[k] < y[k] /\ \A j \in 1 .. k - 1 : x[j] = y[j]

WeakOnes == {i \in DOMAIN claims : IsWeak(claims[i])}
SeriousOnes == {i \in DOMAIN claims : Serious(claims[i])}

Targeted ==
  {ForClaim(i, InferActionType(ClaimKinds[i]), <<1, 0, i, 1>>) : i \in WeakOnes}
    \cup {ForClaim(i, IF ClaimKinds[i] = "security" THEN "security_check" ELSE "permission_boundary_check", <<1, 0, i, 2>>)
            : i \in WeakOnes \cap SeriousOnes}
CommandTypes == <<"typecheck", "lint", "build", "unit_test">>
Commands == {ForCommand(CommandTypes[n], WeakOnes, <<2, 0, 0, n>>) : n \in 1 .. 4}
MigrationChecks == <<"migration_up_check", "migration_down_check">>
ForFiles(files) ==
  {ForClaim(i, "visual_check", <<3, f, i, 1>>) : f \in {g \in DOMAIN files : files[g] = "frontend"}, i \in WeakOnes}
    \cup {ForClaim(i, MigrationChecks[n], <<3, f, i, n>>)
            : f \in {g \in DOMAIN files : files[g] = "migration"}, i \in WeakOnes, n \in 1 .. 2}
Uncertain(risks) == {ForUncertainty(risks[u], <<4, 0, 0, u>>) : u \in DOMAIN risks}
Reviews(soFar) ==
  {ForClaim(i, "manual_human_review", <<5, 0, i, 0>>)
     : i \in {j \in SeriousOnes : \A a \in soFar : a.type \notin {"security_check", "manual_human_review"}}}

(* dedupeActions: the first of the same type, command and target claims.    *)
Deduped(S) == {a \in S : \A b \in S : <<b.type, b.on>> = <<a.type, a.on>> => ~Precedes(b.at, a.at)}

Proposed(ask) ==
  Targeted \cup (IF ask.commands THEN Commands ELSE {}) \cup ForFiles(ask.files) \cup Uncertain(ask.uncertainties)
EnumerateActions(ask) == Deduped(Proposed(ask) \cup Reviews(Proposed(ask)))

-----------------------------------------------------------------------------
(* EvidenceValueScorer.score, without historical costs: nobody passes any.  *)
Quality(a) ==
  CASE a.by = "command" -> (IF a.type \in {"typecheck", "build"} THEN 60 ELSE 100) + 60
    [] a.by = "uncertainty" -> 60 + 60
    [] OTHER -> (IF a.risk = "critical" THEN 100 ELSE 60) + (IF a.risk \in {"high", "critical"} THEN 100 ELSE 60)
Penalty(a) ==
  CASE a.by = "uncertainty" -> 10 + 10 + 10 + 5
    [] a.type = "build" -> 80 + 10 + 10 + 20
    [] OTHER -> 40 + (IF a.type = "visual_check" THEN 40 ELSE 10) + (IF a.type = "manual_human_review" THEN 80 ELSE 10) + 5

Importance(on) ==
  IF on = {} THEN 50 ELSE LET w == {RiskWeight[claims[i].risk] : i \in on} IN CHOOSE m \in w : \A x \in w : x <= m
(* One pair for every hundredth of confidence a claim lacks. *)
Doubt(on) == Cardinality({p \in on \X (1 .. 100) : claims[p[1]].confidence < p[2]})
UncertaintyReduction(on) ==
  IF on = {} THEN 50 ELSE Rounded(Importance(on) * Doubt(on), 100 * Cardinality(on))
Discrimination(a, hypotheses) ==
  IF a.by = "command" THEN 0 ELSE IF hypotheses >= 3 THEN 100 ELSE 35 * hypotheses
ScoreOf(a, hypotheses) ==
  UncertaintyReduction(a.on) + Discrimination(a, hypotheses) + Importance(a.on) + Quality(a) - Penalty(a)

(* plan(): ranked by score, ties in the order of enumeration, and capped.   *)
Scored(ask) == {[action |-> a, score |-> ScoreOf(a, ask.hypotheses)] : a \in EnumerateActions(ask)}
Outranks(x, y) == x.score > y.score \/ (x.score = y.score /\ Precedes(x.action.at, y.action.at))
Placed(scored) == {[action |-> x.action, place |-> Cardinality({y \in scored : Outranks(y, x)}) + 1] : x \in scored}
RankedActions(ask) ==
  LET placed == Placed(Scored(ask))
      limit == IF ask.cap < 1 THEN 1 ELSE ask.cap
      found == Cardinality(placed)
  IN [k \in 1 .. (IF found < limit THEN found ELSE limit) |-> (CHOOSE p \in placed : p.place = k).action]

(* What plan() may be asked with: bound, not every combination.             *)
Question(commands, hypotheses, cap, files, uncertainties) ==
  [commands |-> commands, hypotheses |-> hypotheses, cap |-> cap, files |-> files, uncertainties |-> uncertainties]
Questions ==
  {Question(c, h, 25, <<>>, u) : c \in BOOLEAN, h \in {0, 3}, u \in {<<>>, <<"medium", "high">>}}
    \cup {Question(FALSE, 0, cap, <<"frontend", "migration">>, <<>>) : cap \in {0, 25}}

-----------------------------------------------------------------------------
(* applyConfidenceDelta *)
Raised(c, strong) == c.confidence + Rounded((100 - c.confidence) * (IF strong THEN 50 ELSE 20), 100)
Lowered(c) == Rounded(c.confidence * 40, 100)
AfterResult(c, passed, strong) ==
  IF ~passed THEN [c EXCEPT !.confidence = Lowered(c), !.status = "contradicted"]
  ELSE [c EXCEPT !.confidence = Raised(c, strong),
                 !.status = IF Raised(c, strong) >= ThresholdForRisk[c.risk] \/ c.status = "verified"
                            THEN "verified" ELSE "partially_verified"]

(* Variant: the confidence outlives the invalidation. *)
MarkStaleOnly(c) == [c EXCEPT !.status = "stale"]

MarkStale(c) == [c EXCEPT !.status = "stale", !.confidence = IF c.confidence < 49 THEN c.confidence ELSE 49]
MarkHumanReview(c) == [c EXCEPT !.status = "needs_human_review"]

(* transitiveFiles: from the last node of each changed path, along edges of *)
(* either direction; of parallel edges only the first in the graph counts.  *)
FollowTypes == {"imports", "references", "depends_on", "tests", "routes", "calls", "exports", "defines", "connects_to"}
NodeIds == {GraphNodes[k].id : k \in DOMAIN GraphNodes}
PathOf(n) == GraphNodes[CHOOSE k \in DOMAIN GraphNodes : GraphNodes[k].id = n].path
LastNodeOf(file) ==
  LET at == {k \in DOMAIN GraphNodes : GraphNodes[k].path = file}
  IN {GraphNodes[k].id : k \in {j \in at : \A i \in at : i <= j}}
Between(m, n) == {k \in DOMAIN GraphEdges : {GraphEdges[k].source, GraphEdges[k].target} = {m, n}}
Follows(m, n) ==
  /\ m # n
  /\ \E k \in Between(m, n) : GraphEdges[k].type \in FollowTypes /\ \A j \in Between(m, n) : k <= j
Reach(links, S) ==
  {n \in NodeIds : \A T \in SUBSET NodeIds : (S \subseteq T /\ \A l \in links : l[1] \in T => l[2] \in T) => n \in T}
FilesOf(links, file) == {file} \cup ({PathOf(n) : n \in Reach(links, LastNodeOf(file))} \ {""})
FollowedLinks == {l \in NodeIds \X NodeIds : Follows(l[1], l[2])}
TransitiveFiles == [file \in ChangedFiles |-> FilesOf(FollowedLinks, file)]

InvalidatedBy(file) ==
  {i \in DOMAIN claims : /\ claims[i].status \in {"verified", "partially_verified"}
                         /\ ClaimFiles[i] \cap TransitiveFiles[file] # {}}

-----------------------------------------------------------------------------
PlanInit ==
  /\ claims = <<>> /\ plan = <<>> /\ planEvents = 0
  /\ passesSince = [i \in DOMAIN ClaimKinds |-> 0]
  /\ changedUnder = [i \in DOMAIN ClaimKinds |-> {}]

BeginPlan ==
  /\ claims = <<>>
  /\ \E risks \in [DOMAIN ClaimKinds -> Risks] :
       claims' = [i \in DOMAIN ClaimKinds |-> [risk |-> risks[i], status |-> "unverified", confidence |-> InitialClaim]]
  /\ UNCHANGED <<plan, passesSince, changedUnder, planEvents>>

MakePlan(ask) ==
  /\ claims # <<>> /\ plan = <<>> /\ planEvents < MaxPlanEvents
  /\ plan' = RankedActions(ask)
  /\ UNCHANGED <<claims, passesSince, changedUnder, planEvents>>

Event == claims # <<>> /\ planEvents < MaxPlanEvents /\ planEvents' = planEvents + 1

(* recordActionResult for an action of the plan. *)
RecordResult(a, passed, strong) ==
  /\ Event /\ plan # <<>> /\ plan' = <<>>
  /\ claims' = [i \in DOMAIN claims |-> IF i \in a.on THEN AfterResult(claims[i], passed, strong) ELSE claims[i]]
  /\ passesSince' = [i \in DOMAIN claims |-> IF i \notin a.on THEN passesSince[i] ELSE IF passed THEN passesSince[i] + 1 ELSE 0]
  /\ changedUnder' = [i \in DOMAIN claims |-> IF i \in a.on /\ passed THEN {} ELSE changedUnder[i]]

(* The files a claim's evidence must be held against: linked to the changed *)
(* one by edges all of which are followed.                                  *)
CertainLinks ==
  {l \in NodeIds \X NodeIds :
     l[1] # l[2] /\ Between(l[1], l[2]) # {} /\ \A k \in Between(l[1], l[2]) : GraphEdges[k].type \in FollowTypes}
Linked == [file \in ChangedFiles |-> FilesOf(CertainLinks, file)]

FileChanged(file) ==
  /\ Event /\ plan = <<>>
  /\ claims' = [i \in DOMAIN claims |-> IF i \in InvalidatedBy(file) THEN MarkStale(claims[i]) ELSE claims[i]]
  /\ passesSince' = [i \in DOMAIN claims |-> IF i \in InvalidatedBy(file) THEN 0 ELSE passesSince[i]]
  /\ changedUnder' = [i \in DOMAIN claims |-> changedUnder[i] \cup (ClaimFiles[i] \cap Linked[file])]
  /\ UNCHANGED plan

HumanReview(i) ==
  /\ Event /\ plan = <<>> /\ i \in DOMAIN claims
  /\ claims' = [claims EXCEPT ![i] = MarkHumanReview(claims[i])]
  /\ UNCHANGED <<plan, passesSince, changedUnder>>

PlanNext ==
  \/ BeginPlan
  \/ \E ask \in Questions : MakePlan(ask)
  \/ \E k \in DOMAIN plan, r \in {"strong", "weak", "failed"} : RecordResult(plan[k], r # "failed", r = "strong")
  \/ \E file \in ChangedFiles : FileChanged(file)
  \/ \E i \in DOMAIN ClaimKinds : HumanReview(i)

PlanSpec == PlanInit /\ [][PlanNext]_planVars

(* evaluateCompletion, over the claims. *)
Ready ==
  /\ claims # <<>>
  /\ \A i \in DOMAIN claims :
       /\ Serious(claims[i]) => claims[i].status \in {"verified", "needs_human_review", "not_applicable"}
       /\ claims[i].status \notin {"stale", "contradicted"}

-----------------------------------------------------------------------------
Trusted(c) == c.status \in {"verified", "partially_verified"}

(* A weak claim nobody raised above the seed: unchecked, failed or stale.   *)
InDoubt(c) == IsWeak(c) /\ c.confidence <= 50

(* What is recommended is about a claim no less risky than any that is in   *)
(* doubt; only an uncertainty may come first, and never before a serious    *)
(* claim in doubt.  (A serious claim that checks have raised may wait.)     *)
RiskFirst ==
  plan # <<>> =>
    \A i \in DOMAIN claims : InDoubt(claims[i]) =>
      \/ \E j \in plan[1].on : RiskWeight[claims[i].risk] <= RiskWeight[claims[j].risk]
      \/ plan[1].by = "uncertainty" /\ ~Serious(claims[i])

(* A plan the cap did not cut leaves no weak claim without a check.         *)
PlanCovers ==
  Len(plan) \in 2 .. 24 =>
    \A i \in DOMAIN claims : IsWeak(claims[i]) => \E k \in DOMAIN plan : i \in plan[k].on

(* Claims that open the gate: a serious one counts as verified after two    *)
(* passes at least since its last failure or invalidation, and no trusted   *)
(* one rests on evidence about a file that changed since it last passed.    *)
ReadyOnFreshChecks ==
  Ready => \A i \in DOMAIN claims :
             /\ Serious(claims[i]) /\ claims[i].status = "verified" => passesSince[i] >= 2
             /\ Trusted(claims[i]) => changedUnder[i] = {}

PlannerHolds == RiskFirst /\ PlanCovers /\ ReadyOnFreshChecks
=============================================================================
