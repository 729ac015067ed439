--------------------------- MODULE StoreLifecycle ---------------------------
(***************************************************************************)
(* The life of ForgeStateStore objects over one database: init() with its  *)
(* migration run, health(), close(), the lazily made artifact store; and   *)
(* two processes that migrate the same database at the same time.          *)
(*                                                                         *)
(* A migration is its statements in order and the schema_migrations row,   *)
(* in one transaction; the statements that matter here are the "create     *)
(* table if not exists" ones, which fail when a referenced table is        *)
(* missing.                                                                *)
(***************************************************************************)
EXTENDS StateSchema, Integers, Sequences

CONSTANTS Processes,      \* processes that open the store
          MaxConnections, \* bound: connections one process opens
          MaxCrashes      \* bound: crashes

ASSUME BoundsAreNumbers == MaxConnections \in Nat /\ MaxCrashes \in Nat

VARIABLES made,       \* tables that exist
          recorded,   \* schema_migrations
          runner,     \* per process: runMigrations
          object,     \* per process: what its ForgeStateStore holds
          crashes

lifeVars == <<made, recorded, runner, object, crashes>>

(* MIGRATIONS: the tables each version creates, in the order of its text.  *)
Migrations ==
  << << "repos", "tasks", "task_snapshots", "acceptance_criteria", "repo_nodes", "repo_edges",
        "domains", "beliefs", "hypotheses", "claims", "artifacts", "evidence",
        "claim_evidence_links", "failures", "decisions", "probes", "patch_candidates",
        "checkpoints", "verification_checks", "verification_actions",
        "verification_action_claim_links", "verification_action_scores",
        "verification_history", "commands", "trace_events", "review_comments",
        "human_approvals", "pr_state", "integration_events" >>,
     << >>,    \* alter table artifacts add column if not exists mime
     << "sessions", "prompts" >>,
     << "local_model_runs", "embeddings" >> >>

Versions == DOMAIN Migrations
TablesOf(v) == {Migrations[v][i] : i \in DOMAIN Migrations[v]}

(* Every table a statement references exists when the statement runs.      *)
RunsThrough(v, existing) ==
  \A i \in DOMAIN Migrations[v] :
    {Refers[c] : c \in References(Migrations[v][i])}
      \subseteq existing \cup {Migrations[v][j] : j \in 1..(i - 1)}

-----------------------------------------------------------------------------
(* runMigrations: read the applied versions (none when the relation is     *)
(* missing), then apply, in order, each version not in that snapshot.      *)
IdleRunner == [pc |-> "idle", seen |-> {}, next |-> 1]

ReadApplied(p) ==
  /\ runner[p].pc = "opening"
  /\ runner' = [runner EXCEPT ![p] = [pc |-> "applying", seen |-> recorded, next |-> 1]]
  /\ UNCHANGED <<made, recorded, object, crashes>>

SkipApplied(p) ==
  /\ runner[p].pc = "applying"
  /\ runner[p].next \in runner[p].seen
  /\ runner' = [runner EXCEPT ![p].next = @ + 1]
  /\ UNCHANGED <<made, recorded, object, crashes>>

\* Mutant: the version is recorded by a statement outside the transaction, first.
AppliedEarly(v) ==
  /\ made' = IF v \in recorded THEN made \cup TablesOf(v) ELSE made
  /\ recorded' = recorded \cup {v}

Applied(v) ==
  /\ made' = made \cup TablesOf(v)
  /\ recorded' = recorded \cup {v}   \* on conflict (version) do nothing

Apply(p) ==
  LET v == runner[p].next IN
  /\ runner[p].pc = "applying"
  /\ v \in Versions \ runner[p].seen
  /\ RunsThrough(v, made)
  /\ Applied(v)
  /\ runner' = [runner EXCEPT ![p].next = @ + 1]
  /\ UNCHANGED <<object, crashes>>

(* The transaction fails: the connection is lost, or the other process     *)
(* creates the same relation at the same time.  init() throws, with the    *)
(* connection already set on the object.                                   *)
ApplyFails(p) ==
  /\ runner[p].pc = "applying"
  /\ runner[p].next \in Versions \ runner[p].seen
  /\ runner' = [runner EXCEPT ![p] = IdleRunner]
  /\ crashes < MaxCrashes /\ crashes' = crashes + 1
  /\ UNCHANGED <<made, recorded, object>>

(* artifactStoreOrThrow: made once, with the repository the object has at  *)
(* that moment (-1: none yet, 0: bound to the stub of the constructor).    *)
Ensured(o) ==
  IF o.artifacts = -1 THEN [o EXCEPT !.artifacts = o.repos, !.late = (o.sql = 0)] ELSE o

(* init() ends with health(), which asks for the artifact store.           *)
InitReturns(p) ==
  /\ runner[p].pc = "applying"
  /\ runner[p].next \notin Versions
  /\ runner' = [runner EXCEPT ![p] = [IdleRunner EXCEPT !.pc = "ready"]]
  /\ object' = [object EXCEPT ![p] = Ensured(@)]
  /\ UNCHANGED <<made, recorded, crashes>>

-----------------------------------------------------------------------------
(* The object: sql is the number of its open connection (0: undefined),    *)
(* repos and artifacts the connection their repositories are bound to;     *)
(* late: the artifact store was made while sql was undefined.              *)
NewObject == [sql |-> 0, repos |-> 0, artifacts |-> -1, late |-> FALSE, opened |-> 0, ended |-> {}]

AtRest(p) == runner[p].pc \in {"idle", "ready"}

(* init(): connect, replace the repositories, migrate.                     *)
OpenStore(p) ==
  /\ AtRest(p) /\ object[p].opened < MaxConnections
  /\ LET n == object[p].opened + 1 IN
       object' = [object EXCEPT ![p] = [@ EXCEPT !.sql = n, !.repos = n, !.opened = n]]
  /\ runner' = [runner EXCEPT ![p] = [IdleRunner EXCEPT !.pc = "opening"]]
  /\ UNCHANGED <<made, recorded, crashes>>

(* health(), writeArtifact(), getArtifact(), orphanArtifacts().            *)
UseArtifacts(p) ==
  /\ AtRest(p)
  /\ object' = [object EXCEPT ![p] = Ensured(@)]
  /\ UNCHANGED <<made, recorded, runner, crashes>>

Closed(o) ==
  [o EXCEPT !.ended = @ \cup {o.sql}, !.sql = 0, !.artifacts = -1, !.late = FALSE]

CloseStore(p) ==
  /\ AtRest(p) /\ object[p].sql # 0
  /\ object' = [object EXCEPT ![p] = Closed(@)]
  /\ runner' = [runner EXCEPT ![p] = IdleRunner]
  /\ UNCHANGED <<made, recorded, crashes>>

LifeCrash(p) ==
  /\ crashes < MaxCrashes /\ crashes' = crashes + 1
  /\ runner[p].pc # "idle"
  /\ object' = [object EXCEPT ![p] = NewObject]
  /\ runner' = [runner EXCEPT ![p] = IdleRunner]
  /\ UNCHANGED <<made, recorded>>

LifeInit ==
  /\ made = {} /\ recorded = {}
  /\ runner = [p \in Processes |-> IdleRunner]
  /\ object = [p \in Processes |-> NewObject]
  /\ crashes = 0

LifeNext ==
  \E p \in Processes :
    \/ OpenStore(p) \/ ReadApplied(p) \/ SkipApplied(p) \/ Apply(p) \/ ApplyFails(p)
    \/ InitReturns(p) \/ UseArtifacts(p) \/ CloseStore(p) \/ LifeCrash(p)

LifeSpec == LifeInit /\ [][LifeNext]_lifeVars
-----------------------------------------------------------------------------
LifeTypeOK ==
  /\ made \subseteq Tables /\ recorded \subseteq Versions
  /\ runner \in [Processes -> [pc : {"idle", "opening", "applying", "ready"},
                                seen : SUBSET Versions, next : 1..(Len(Migrations) + 1)]]
  /\ object \in [Processes -> [sql : 0..MaxConnections, repos : 0..MaxConnections,
                                artifacts : -1..MaxConnections, late : BOOLEAN,
                                opened : 0..MaxConnections, ended : SUBSET (1..MaxConnections)]]

(* "Partial application is impossible": a recorded version is in the       *)
(* database whole, nothing is there that no recorded version made, and no  *)
(* table references a missing one, whoever crashed or raced.               *)
SchemaWhole ==
  /\ made = UNION {TablesOf(v) : v \in recorded}
  /\ \A t \in made : {Refers[c] : c \in References(t)} \subseteq made

(* init() returns on a database that has every migration, also when this   *)
(* process skipped what it found or another process was migrating.         *)
ReadyIsCurrent == \A p \in Processes : runner[p].pc = "ready" => recorded = Versions

(* The artifact store of an open object never writes to a connection that  *)
(* was closed, unless somebody asked for it while the object was closed.   *)
ArtifactsFollowConnection ==
  \A p \in Processes : object[p].artifacts \in object[p].ended => object[p].late

(* What init() and close() promise, over crashes and a second process.     *)
LifecycleSound == LifeTypeOK /\ SchemaWhole /\ ReadyIsCurrent /\ ArtifactsFollowConnection
=============================================================================
