---------------------------- MODULE StateSchema ----------------------------
(***************************************************************************)
(* The relational half of the durable store: the tables of schema.ts with  *)
(* their foreign and unique keys, the repository classes that write them   *)
(* (forge-state-store/src/repos), and what one SQL statement of a          *)
(* repository does to the database.                                        *)
(*                                                                         *)
(* A row keeps what the constraints see: its id, the columns that hold     *)
(* the id of another row, and "key", the part of a unique key that is not  *)
(* an id (a path, a stable key, a link type).  Text and JSON columns are   *)
(* left out.                                                               *)
(***************************************************************************)
EXTENDS FiniteSets

CONSTANTS RowIds,   \* row ids (uuids), each used in every table
          Keys      \* values of the non-id part of a unique key

CONSTANT Null

ASSUME NullIsNoValue == Null \notin RowIds \cup Keys

(* The table an id column points into, by the column's name.               *)
Refers ==
  [ task_id |-> "tasks", repo_id |-> "repos", claim_id |-> "claims",
    source_node_id |-> "repo_nodes", target_node_id |-> "repo_nodes",
    acceptance_criterion_id |-> "acceptance_criteria",
    artifact_id |-> "artifacts", diff_artifact_id |-> "artifacts",
    stdout_artifact_id |-> "artifacts", stderr_artifact_id |-> "artifacts",
    snapshot_artifact_id |-> "artifacts", body_artifact_id |-> "artifacts",
    input_artifact_id |-> "artifacts", output_artifact_id |-> "artifacts",
    evidence_id |-> "evidence", result_evidence_id |-> "evidence",
    hypothesis_id |-> "hypotheses", patch_candidate_id |-> "patch_candidates",
    active_patch_candidate_id |-> "patch_candidates",
    verification_action_id |-> "verification_actions",
    session_id |-> "sessions" ]

Columns == DOMAIN Refers

(* The one id column the schema gives no foreign key.                      *)
Unkeyed == {"active_patch_candidate_id"}

(* "create table": the not-null references, the nullable ones, the columns *)
(* of the unique key ({} when the primary key is the only one).            *)
T(must, may, unique) == [must |-> must, may |-> may, unique |-> unique]

TablesOfTheTask ==
  [ repos               |-> T({}, {}, {"key"}),
    tasks               |-> T({"repo_id"}, {}, {}),
    task_snapshots      |-> T({"task_id"}, {}, {}),
    acceptance_criteria |-> T({"task_id"}, {}, {}),
    repo_nodes          |-> T({"repo_id"}, {}, {"repo_id", "key"}),
    repo_edges          |-> T({"repo_id", "source_node_id", "target_node_id"}, {}, {}),
    domains             |-> T({"repo_id"}, {}, {"repo_id", "key"}) ]

\* Mutant: evidence names its artifact without a foreign key.
TablesOfTheBeliefLoose ==
  [ beliefs              |-> T({"repo_id"}, {"task_id"}, {}),
    hypotheses           |-> T({"task_id"}, {}, {}),
    claims               |-> T({"task_id"}, {"acceptance_criterion_id"}, {}),
    artifacts            |-> T({}, {"task_id"}, {}),
    evidence             |-> T({"task_id"}, {}, {}),
    claim_evidence_links |-> T({"claim_id", "evidence_id"}, {},
                               {"claim_id", "evidence_id", "key"}),
    failures             |-> T({"task_id"}, {"hypothesis_id", "artifact_id"}, {}),
    decisions            |-> T({"task_id"}, {}, {}),
    probes               |-> T({"task_id"}, {}, {}),
    patch_candidates     |-> T({"task_id"}, {"hypothesis_id", "diff_artifact_id"}, {}),
    checkpoints          |-> T({"task_id"}, {"patch_candidate_id", "snapshot_artifact_id"}, {}) ]

TablesOfTheBelief ==
  [ beliefs              |-> T({"repo_id"}, {"task_id"}, {}),
    hypotheses           |-> T({"task_id"}, {}, {}),
    claims               |-> T({"task_id"}, {"acceptance_criterion_id"}, {}),
    artifacts            |-> T({}, {"task_id"}, {}),
    evidence             |-> T({"task_id"}, {"artifact_id"}, {}),
    claim_evidence_links |-> T({"claim_id", "evidence_id"}, {},
                               {"claim_id", "evidence_id", "key"}),
    failures             |-> T({"task_id"}, {"hypothesis_id", "artifact_id"}, {}),
    decisions            |-> T({"task_id"}, {}, {}),
    probes               |-> T({"task_id"}, {}, {}),
    patch_candidates     |-> T({"task_id"}, {"hypothesis_id", "diff_artifact_id"}, {}),
    checkpoints          |-> T({"task_id"}, {"patch_candidate_id", "snapshot_artifact_id"}, {}) ]

TablesOfTheVerification ==
  [ verification_checks |->
      T({"task_id"}, {"acceptance_criterion_id", "claim_id", "evidence_id"}, {}),
    verification_actions |-> T({"task_id"}, {"result_evidence_id"}, {}),
    verification_action_claim_links |->
      T({"verification_action_id", "claim_id"}, {}, {"verification_action_id", "claim_id", "key"}),
    verification_action_scores |-> T({"verification_action_id"}, {}, {}),
    verification_history |-> T({"repo_id"}, {}, {"repo_id", "key"}) ]

TablesOfTheRun ==
  [ commands           |-> T({"task_id"}, {"stdout_artifact_id", "stderr_artifact_id"}, {}),
    trace_events       |-> T({"repo_id"}, {"task_id"}, {}),
    review_comments    |-> T({}, {"task_id"}, {}),
    human_approvals    |-> T({"task_id"}, {}, {}),
    pr_state           |-> T({"task_id"}, {"body_artifact_id"}, {}),
    integration_events |-> T({}, {"task_id"}, {}) ]

TablesOfTheSessions ==
  [ sessions |-> T({"task_id", "repo_id"}, {}, {}),
    prompts  |-> T({"session_id", "task_id"}, {}, {}) ]

TablesOfTheLocalModel ==
  [ local_model_runs |-> T({}, {"task_id", "input_artifact_id", "output_artifact_id"}, {}),
    embeddings       |-> T({"repo_id"}, {}, {"repo_id", "key"}) ]

Tables ==
  DOMAIN TablesOfTheTask \cup DOMAIN TablesOfTheBelief \cup DOMAIN TablesOfTheVerification
  \cup DOMAIN TablesOfTheRun \cup DOMAIN TablesOfTheSessions \cup DOMAIN TablesOfTheLocalModel

Schema ==
  [t \in Tables |->
     CASE t \in DOMAIN TablesOfTheTask         -> TablesOfTheTask[t]
       [] t \in DOMAIN TablesOfTheBelief       -> TablesOfTheBelief[t]
       [] t \in DOMAIN TablesOfTheVerification -> TablesOfTheVerification[t]
       [] t \in DOMAIN TablesOfTheRun          -> TablesOfTheRun[t]
       [] t \in DOMAIN TablesOfTheSessions     -> TablesOfTheSessions[t]
       [] t \in DOMAIN TablesOfTheLocalModel   -> TablesOfTheLocalModel[t]]

(* Repository classes.  writes: the id columns of its insert; patches: the *)
(* id columns its update may set; deletes: it has a delete; onConflict:    *)
(* what its inserts do when the unique key is taken.  Every update is         *)
(* "set c = coalesce(patch, c)" and throws when the row is not there.      *)
R(table, writes, patches, deletes, onConflict) ==
  [table |-> table, writes |-> writes, patches |-> patches,
   deletes |-> deletes, onConflict |-> onConflict]

RepoRepo       == R("repos", {}, {}, TRUE, {"throw"})
RepoNodeRepo   == R("repo_nodes", {"repo_id"}, {}, TRUE, {"replace"})
RepoEdgeRepo   == R("repo_edges", {"repo_id", "source_node_id", "target_node_id"}, {}, FALSE, {"throw"})
TaskRepo       == R("tasks", {"repo_id"} \cup Unkeyed, Unkeyed, TRUE, {"throw"})
TaskSnapshotRepo == R("task_snapshots", {"task_id"}, {}, FALSE, {"throw"})
AcceptanceRepo == R("acceptance_criteria", {"task_id"}, {}, TRUE, {"throw"})
BeliefRepo     == R("beliefs", {"task_id", "repo_id"}, {"task_id"}, TRUE, {"throw"})
HypothesisRepo == R("hypotheses", {"task_id"}, {}, TRUE, {"throw"})
ClaimRepo      == R("claims", {"task_id", "acceptance_criterion_id"},
                    {"acceptance_criterion_id"}, TRUE, {"throw"})
EvidenceRepo   == R("evidence", {"task_id", "artifact_id"}, {"artifact_id"}, TRUE, {"throw"})
ClaimEvidenceLinkRepo == R("claim_evidence_links", {"claim_id", "evidence_id"}, {}, FALSE, {"keep"})
FailureRepo    == R("failures", {"task_id", "hypothesis_id", "artifact_id"}, {}, FALSE, {"throw"})
DecisionRepo   == R("decisions", {"task_id"}, {}, FALSE, {"throw"})
ProbeRepo      == R("probes", {"task_id"}, {}, FALSE, {"throw"})
PatchCandidateRepo == R("patch_candidates", {"task_id", "hypothesis_id", "diff_artifact_id"},
                        {"hypothesis_id", "diff_artifact_id"}, FALSE, {"throw"})
VerificationCheckRepo ==
  R("verification_checks", {"task_id", "acceptance_criterion_id", "claim_id", "evidence_id"},
    {"acceptance_criterion_id", "claim_id", "evidence_id"}, TRUE, {"throw"})
VerificationActionRepo ==
  R("verification_actions", {"task_id", "result_evidence_id"}, {"result_evidence_id"}, FALSE, {"throw"})
VerificationActionClaimLinkRepo ==
  R("verification_action_claim_links", {"verification_action_id", "claim_id"}, {}, FALSE, {"replace"})
VerificationActionScoreRepo ==
  R("verification_action_scores", {"verification_action_id"}, {}, FALSE, {"throw"})
VerificationHistoryRepo == R("verification_history", {"repo_id"}, {}, FALSE, {"replace"})
CommandRepo    == R("commands", {"task_id", "stdout_artifact_id", "stderr_artifact_id"},
                    {"stdout_artifact_id", "stderr_artifact_id"}, FALSE, {"throw"})
ArtifactRepo   == R("artifacts", {"task_id"}, {"task_id"}, TRUE, {"throw"})
TraceEventRepo == R("trace_events", {"task_id", "repo_id"}, {}, FALSE, {"throw"})
SessionRepo    == R("sessions", {"task_id", "repo_id"}, {}, FALSE, {"throw"})
PromptRepo     == R("prompts", {"session_id", "task_id"}, {}, FALSE, {"throw"})
EmbeddingRepo  == R("embeddings", {"repo_id"}, {}, TRUE, {"throw", "replace"})

(* The bag a connection or a transaction hands to its caller.              *)
Repos == { RepoRepo, RepoNodeRepo, RepoEdgeRepo, TaskRepo, TaskSnapshotRepo, AcceptanceRepo,
           BeliefRepo, HypothesisRepo, ClaimRepo, EvidenceRepo, ClaimEvidenceLinkRepo,
           FailureRepo, DecisionRepo, ProbeRepo, PatchCandidateRepo, VerificationCheckRepo,
           VerificationActionRepo, VerificationActionClaimLinkRepo, VerificationActionScoreRepo,
           VerificationHistoryRepo, CommandRepo, ArtifactRepo, TraceEventRepo, SessionRepo,
           PromptRepo, EmbeddingRepo }

RepoOf == [t \in {r.table : r \in Repos} |-> CHOOSE r \in Repos : r.table = t]

-----------------------------------------------------------------------------
(* Statements.  A database is a function from tables to sets of rows.      *)
Rows == [id : RowIds, refs : [Columns -> RowIds \cup {Null}], key : Keys \cup {Null}]

IdsIn(db, t) == {r.id : r \in db[t]}

References(t) == Schema[t].must \cup Schema[t].may

(* The foreign keys and the not-null constraints of a row of t.            *)
Fits(db, t, row) ==
  /\ \A c \in Schema[t].must : row.refs[c] # Null
  /\ \A c \in References(t) : row.refs[c] # Null => row.refs[c] \in IdsIn(db, Refers[c])

SameKey(t, r, s) ==
  /\ Schema[t].unique # {}
  /\ \A c \in Schema[t].unique \cap Columns : r.refs[c] = s.refs[c]
  /\ "key" \in Schema[t].unique => r.key = s.key

(* Postgres refuses to delete a row another row still references.          *)
Referenced(db, t, id) ==
  \E u \in DOMAIN db : \E r \in db[u] : \E c \in References(u) :
     Refers[c] = t /\ r.refs[c] = id

(* insert into t (...) values (...) [on conflict ...] returning ...        *)
KeyTaken(db, t, row) == \E r \in db[t] : SameKey(t, r, row)

InsertFails(db, t, row, how) ==
  \/ ~Fits(db, t, row)
  \/ how = "throw" /\ KeyTaken(db, t, row)
  \/ ~KeyTaken(db, t, row) /\ row.id \in IdsIn(db, t)

Inserted(db, t, row) ==
  IF KeyTaken(db, t, row)
  THEN db      \* the row that has the key stays, with its id: only its data is replaced
  ELSE [db EXCEPT ![t] = @ \cup {row}]

(* update t set c = coalesce(patch.c, c) where id = ... returning ...      *)
Coalesced(t, old, patch) ==
  [old EXCEPT !.refs = [c \in Columns |->
     IF c \in RepoOf[t].patches /\ patch[c] # Null THEN patch[c] ELSE old.refs[c]]]

UpdateFails(db, t, id, patch) ==
  \/ id \notin IdsIn(db, t)
  \/ \E r \in db[t] : r.id = id /\ ~Fits(db, t, Coalesced(t, r, patch))

Updated(db, t, id, patch) ==
  [db EXCEPT ![t] = {IF r.id = id THEN Coalesced(t, r, patch) ELSE r : r \in @}]

(* delete from t where id = ... returning id                               *)
DeleteFails(db, t, id) == Referenced(db, t, id)

Deleted(db, t, id) == [db EXCEPT ![t] = {r \in @ : r.id # id}]
=============================================================================
