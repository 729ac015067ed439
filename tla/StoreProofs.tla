---------------------------- MODULE StoreProofs ----------------------------
(* The durable store: no row names a missing one and no trace event is     *)
(* lost, for any rows and any table; the schema is whole and an artifact   *)
(* store follows its connection, for any number of processes,              *)
(* connections and crashes.                                                *)
EXTENDS StateStore, StoreLifecycle, TLAPS

(* The life of the store                                                   *)
Progress ==
  \A p \in Processes : runner[p].pc = "applying" =>
    runner[p].seen \subseteq recorded /\ 1 .. (runner[p].next - 1) \subseteq recorded

(* The repositories of an open object are bound to its connection, which   *)
(* is not one of those it has closed.                                      *)
Connections ==
  \A p \in Processes :
    /\ object[p].ended \subseteq 1 .. object[p].opened
    /\ object[p].sql # 0 => object[p].repos = object[p].sql
    /\ object[p].sql \notin object[p].ended /\ object[p].sql <= object[p].opened

LifeInv == LifeTypeOK /\ SchemaWhole /\ ReadyIsCurrent /\ ArtifactsFollowConnection /\ Progress /\ Connections

LEMMA MigrationsTyped ==
  /\ Versions = 1 .. 4 /\ Len(Migrations) = 4
  /\ \A v \in Versions : TablesOf(v) \subseteq Tables
<1>1. Versions = 1 .. 4 /\ Len(Migrations) = 4
  BY DEF Versions, Migrations
<1>2. TablesOf(1) \subseteq Tables
  BY DEF TablesOf, Migrations, Tables, TablesOfTheTask, TablesOfTheBelief, TablesOfTheVerification, TablesOfTheRun
<1>3. TablesOf(2) \subseteq Tables
  BY DEF TablesOf, Migrations
<1>4. TablesOf(3) \subseteq Tables
  BY DEF TablesOf, Migrations, Tables, TablesOfTheSessions
<1>5. TablesOf(4) \subseteq Tables
  BY DEF TablesOf, Migrations, Tables, TablesOfTheLocalModel
<1> QED BY <1>1, <1>2, <1>3, <1>4, <1>5
(* A repository writes references its table declares, and the trace of     *)
(* the run has no delete.                                                  *)
Described(r) ==
  /\ r.table \in Tables
  /\ r.writes \ Unkeyed \subseteq Schema[r.table].must \cup Schema[r.table].may /\ r.patches \subseteq r.writes
  /\ Schema[r.table].must \cup Schema[r.table].may \subseteq Columns
  /\ r.deletes => r.table # "trace_events"

LEMMA ReposDescribed == \A r \in Repos : Described(r)
<1> USE DEF Described, R, T, Columns, Unkeyed, Refers, Schema, Tables, TablesOfTheTask, TablesOfTheBelief,
            TablesOfTheVerification, TablesOfTheRun, TablesOfTheSessions, TablesOfTheLocalModel
<1>1. Described(RepoRepo) /\ Described(RepoNodeRepo) /\ Described(RepoEdgeRepo) /\
      Described(TaskRepo) /\ Described(TaskSnapshotRepo) /\ Described(AcceptanceRepo) /\
      Described(BeliefRepo)
  BY DEF RepoRepo, RepoNodeRepo, RepoEdgeRepo, TaskRepo,
         TaskSnapshotRepo, AcceptanceRepo, BeliefRepo
<1>2. Described(HypothesisRepo) /\ Described(ClaimRepo) /\ Described(EvidenceRepo) /\
      Described(ClaimEvidenceLinkRepo) /\ Described(FailureRepo) /\ Described(DecisionRepo)
  BY DEF HypothesisRepo, ClaimRepo, EvidenceRepo, ClaimEvidenceLinkRepo,
         FailureRepo, DecisionRepo
<1>3. Described(ProbeRepo) /\ Described(PatchCandidateRepo) /\ Described(VerificationCheckRepo) /\
      Described(VerificationActionRepo) /\ Described(VerificationActionClaimLinkRepo) /\ Described(VerificationActionScoreRepo) /\
      Described(VerificationHistoryRepo)
  BY DEF ProbeRepo, PatchCandidateRepo, VerificationCheckRepo, VerificationActionRepo,
         VerificationActionClaimLinkRepo, VerificationActionScoreRepo, VerificationHistoryRepo
<1>4. Described(CommandRepo) /\ Described(ArtifactRepo) /\ Described(TraceEventRepo) /\
      Described(SessionRepo) /\ Described(PromptRepo) /\ Described(EmbeddingRepo)
  BY DEF CommandRepo, ArtifactRepo, TraceEventRepo, SessionRepo,
         PromptRepo, EmbeddingRepo
<1> HIDE DEF Described, R, T, Columns, Unkeyed, Refers, Schema, Tables
<1> QED BY <1>1, <1>2, <1>3, <1>4 DEF Repos
LEMMA ReferencesTyped ==
  /\ \A t \in Tables : References(t) \subseteq Columns
  /\ \A c \in Columns : Refers[c] \in Tables
<1> USE DEF References, T, Columns, Refers, Schema, Tables, TablesOfTheTask, TablesOfTheBelief,
            TablesOfTheVerification, TablesOfTheRun, TablesOfTheSessions, TablesOfTheLocalModel
<1>1. \A t \in DOMAIN TablesOfTheTask : References(t) \subseteq Columns
  OBVIOUS
<1>2. \A t \in DOMAIN TablesOfTheBelief : References(t) \subseteq Columns
  OBVIOUS
<1>3. \A t \in DOMAIN TablesOfTheVerification : References(t) \subseteq Columns
  OBVIOUS
<1>4. \A t \in DOMAIN TablesOfTheRun : References(t) \subseteq Columns
  OBVIOUS
<1>5. \A t \in DOMAIN TablesOfTheSessions : References(t) \subseteq Columns
  OBVIOUS
<1>6. \A t \in DOMAIN TablesOfTheLocalModel : References(t) \subseteq Columns
  OBVIOUS
<1>7. \A c \in Columns : Refers[c] \in Tables
  OBVIOUS
<1> HIDE DEF References, T, Columns, Refers, Schema
<1> QED BY <1>1, <1>2, <1>3, <1>4, <1>5, <1>6, <1>7 DEF Tables
LEMMA RepoOfTable ==
  /\ DOMAIN RepoOf \subseteq Tables
  /\ \A t \in DOMAIN RepoOf : RepoOf[t].table = t /\ Described(RepoOf[t])
<1> SUFFICES ASSUME NEW t \in DOMAIN RepoOf PROVE t \in Tables /\ RepoOf[t].table = t /\ Described(RepoOf[t])
  OBVIOUS
<1>1. PICK r \in Repos : r.table = t
  BY DEF RepoOf
<1>2. RepoOf[t] = CHOOSE q \in Repos : q.table = t
  BY DEF RepoOf
<1>3. RepoOf[t] \in Repos /\ RepoOf[t].table = t
  <2> HIDE DEF Repos
  <2> QED BY <1>1, <1>2
<1> QED BY <1>3, ReposDescribed DEF Described

-----------------------------------------------------------------------------
(* The rows.  What a statement leaves is sound whatever table it is about; *)
(* a trace event keeps the repository it names.                            *)
Whole(d, t, row) == \A c \in References(t) : row.refs[c] # Null => row.refs[c] \in IdsIn(d, Refers[c])

DbOK(d) ==
  /\ d = [t \in Tables |-> d[t]]
  /\ \A t \in Tables \ {"trace_events"} : d[t] \subseteq Rows
  /\ \A t \in Tables \ {"trace_events"} : \A r, s \in d[t] : r.id = s.id => r = s
  /\ \A t \in Tables : \A r \in d[t] : Whole(d, t, r)
  /\ \A e \in d["trace_events"] : e.refs["repo_id"] # Null

ImpOK == imp \in [pc : {"idle", "reading", "threw", "returned"}, todo : SUBSET TaskFiles, imported : Nat]

StoreInv == DbOK(db) /\ focus \in Focus /\ ImpOK /\ TracedForGood

LEMMA TraceEventsTable ==
  /\ "trace_events" \in Tables /\ "repo_id" \in Schema["trace_events"].must
  /\ "repo_id" \in Columns /\ Refers["repo_id"] = "repos"
<1>1. "trace_events" \in DOMAIN TablesOfTheRun /\ TablesOfTheRun["trace_events"].must = {"repo_id"}
  BY DEF TablesOfTheRun, T
<1>2. "trace_events" \in Tables
  BY <1>1 DEF Tables
<1>3. "trace_events" \notin DOMAIN TablesOfTheTask \cup DOMAIN TablesOfTheBelief \cup DOMAIN TablesOfTheVerification
  BY DEF TablesOfTheTask, TablesOfTheBelief, TablesOfTheVerification
<1>4. "trace_events" \notin DOMAIN TablesOfTheSessions \cup DOMAIN TablesOfTheLocalModel
  BY DEF TablesOfTheSessions, TablesOfTheLocalModel
<1>5. Schema["trace_events"] = TablesOfTheRun["trace_events"]
  BY <1>1, <1>2, <1>3, <1>4 DEF Schema
<1>6. "repo_id" \in Columns /\ Refers["repo_id"] = "repos"
  BY DEF Columns, Refers
<1> QED BY <1>1, <1>2, <1>5, <1>6

LEMMA WholeGrows ==
  ASSUME NEW d, NEW e, NEW t \in Tables, NEW row, Whole(d, t, row),
         \A u \in Tables : IdsIn(d, u) \subseteq IdsIn(e, u)
  PROVE  Whole(e, t, row)
BY ReferencesTyped DEF Whole

LEMMA InsertKeeps ==
  ASSUME NEW d, DbOK(d), NEW t \in Tables, t # "trace_events", NEW row \in Rows, NEW how,
         ~InsertFails(d, t, row, how)
  PROVE  /\ DbOK(Inserted(d, t, row))
         /\ Inserted(d, t, row)["trace_events"] = d["trace_events"]
<1>1. CASE KeyTaken(d, t, row)
  BY <1>1 DEF Inserted
<1>2. CASE ~KeyTaken(d, t, row)
  <2> DEFINE e == [d EXCEPT ![t] = @ \cup {row}]
  <2>1. Inserted(d, t, row) = e
    BY <1>2 DEF Inserted
  <2>2. /\ e = [u \in Tables |-> e[u]] /\ e[t] = d[t] \cup {row}
        /\ \A u \in Tables \ {t} : e[u] = d[u]
    BY DEF DbOK
  <2> HIDE DEF e
  <2>3. \A u \in Tables : IdsIn(d, u) \subseteq IdsIn(e, u)
    BY <2>2 DEF IdsIn
  <2>4. Whole(e, t, row)
    BY <2>3, WholeGrows DEF InsertFails, Fits, Whole
  <2>5. \A u \in Tables : \A r \in e[u] : Whole(e, u, r)
    BY <2>2, <2>3, <2>4, WholeGrows DEF DbOK
  <2>6. row.id \notin IdsIn(d, t)
    BY <1>2 DEF InsertFails
  <2>7. \A u \in Tables \ {"trace_events"} : e[u] \subseteq Rows /\ \A r, s \in e[u] : r.id = s.id => r = s
    BY <2>2, <2>6 DEF DbOK, IdsIn
  <2>8. e["trace_events"] = d["trace_events"]
    BY <2>2, TraceEventsTable
  <2> QED BY <2>1, <2>2, <2>5, <2>7, <2>8 DEF DbOK
<1> QED BY <1>1, <1>2

LEMMA TraceKeeps ==
  ASSUME NEW d, DbOK(d), NEW event, Fits(d, "trace_events", event)
  PROVE  /\ DbOK([d EXCEPT !["trace_events"] = @ \cup {event}])
         /\ [d EXCEPT !["trace_events"] = @ \cup {event}]["trace_events"] = d["trace_events"] \cup {event}
<1> DEFINE e == [d EXCEPT !["trace_events"] = @ \cup {event}]
<1>1. /\ e = [u \in Tables |-> e[u]] /\ e["trace_events"] = d["trace_events"] \cup {event}
      /\ \A u \in Tables \ {"trace_events"} : e[u] = d[u]
  BY TraceEventsTable DEF DbOK
<1> HIDE DEF e
<1>2. \A u \in Tables : IdsIn(d, u) \subseteq IdsIn(e, u)
  BY <1>1 DEF IdsIn
<1>3. Whole(e, "trace_events", event)
  BY <1>2, WholeGrows, TraceEventsTable DEF Fits, Whole
<1>4. \A u \in Tables : \A r \in e[u] : Whole(e, u, r)
  BY <1>1, <1>2, <1>3, WholeGrows DEF DbOK
<1>5. \A r \in e["trace_events"] : r.refs["repo_id"] # Null
  BY <1>1, TraceEventsTable DEF DbOK, Fits
<1>6. DbOK(e)
  BY <1>1, <1>4, <1>5 DEF DbOK
<1> QED BY <1>1, <1>6 DEF e

LEMMA UpdateKeeps ==
  ASSUME NEW d, DbOK(d), NEW t \in DOMAIN RepoOf, t # "trace_events", NEW id,
         NEW patch, \A c \in Columns : patch[c] \in RowIds \cup {Null},
         ~UpdateFails(d, t, id, patch)
  PROVE  /\ DbOK(Updated(d, t, id, patch))
         /\ Updated(d, t, id, patch)["trace_events"] = d["trace_events"]
<1> DEFINE to(r) == IF r.id = id THEN Coalesced(t, r, patch) ELSE r
           e == [d EXCEPT ![t] = {to(r) : r \in @}]
<1>0. t \in Tables
  BY RepoOfTable
<1>1. Updated(d, t, id, patch) = e
  BY DEF Updated
<1>2. /\ e = [u \in Tables |-> e[u]] /\ e[t] = {to(r) : r \in d[t]}
      /\ \A u \in Tables \ {t} : e[u] = d[u]
  BY <1>0 DEF DbOK
<1> HIDE DEF e
<1>3. ASSUME NEW r \in d[t] PROVE to(r) \in Rows /\ to(r).id = r.id
  <2>1. r \in Rows
    BY <1>0 DEF DbOK
  <2>2. CASE r.id = id
    <3> DEFINE refs == [c \in Columns |-> IF c \in RepoOf[t].patches /\ patch[c] # Null THEN patch[c] ELSE r.refs[c]]
    <3>1. refs \in [Columns -> RowIds \cup {Null}]
      BY <2>1 DEF Rows
    <3>2. to(r) = [r EXCEPT !.refs = refs]
      BY <2>2 DEF Coalesced
    <3> HIDE DEF refs, to
    <3> QED BY <2>1, <3>1, <3>2 DEF Rows
  <2> QED BY <2>1, <2>2
<1>4. ASSUME NEW r \in d[t] PROVE Whole(d, t, to(r))
  BY <1>0 DEF DbOK, UpdateFails, Fits, Whole
<1> HIDE DEF to
<1>5. \A u \in Tables : IdsIn(d, u) = IdsIn(e, u)
  BY <1>2, <1>3 DEF IdsIn
<1>6. \A u \in Tables : \A r \in e[u] : Whole(e, u, r)
  <2>1. \A r \in e[t] : Whole(e, t, r)
    BY <1>0, <1>2, <1>4, <1>5, WholeGrows
  <2>2. \A u \in Tables \ {t} : \A r \in e[u] : Whole(e, u, r)
    BY <1>2, <1>5, WholeGrows DEF DbOK
  <2> QED BY <2>1, <2>2
<1>7. \A r, s \in e[t] : r.id = s.id => r = s
  BY <1>0, <1>2, <1>3 DEF DbOK
<1>8. e[t] \subseteq Rows
  BY <1>2, <1>3
<1>9. e["trace_events"] = d["trace_events"]
  BY <1>2, TraceEventsTable
<1> QED BY <1>0, <1>1, <1>2, <1>6, <1>7, <1>8, <1>9 DEF DbOK

LEMMA DeleteKeeps ==
  ASSUME NEW d, DbOK(d), NEW t \in Tables, t # "trace_events", NEW id, ~DeleteFails(d, t, id)
  PROVE  /\ DbOK(Deleted(d, t, id))
         /\ Deleted(d, t, id)["trace_events"] = d["trace_events"]
<1> DEFINE e == [d EXCEPT ![t] = {r \in @ : r.id # id}]
<1>1. Deleted(d, t, id) = e
  BY DEF Deleted
<1>2. /\ e = [u \in Tables |-> e[u]] /\ e[t] = {r \in d[t] : r.id # id}
      /\ \A u \in Tables \ {t} : e[u] = d[u]
  BY DEF DbOK
<1>3. DOMAIN d = Tables
  BY DEF DbOK
<1> HIDE DEF e
<1>4. ASSUME NEW u \in Tables, NEW r \in e[u], NEW c \in References(u), r.refs[c] # Null
      PROVE  r.refs[c] \in IdsIn(e, Refers[c])
  <2>1. r \in d[u] /\ r.refs[c] \in IdsIn(d, Refers[c])
    BY <1>2, <1>4 DEF DbOK, Whole
  <2>2. ~(Refers[c] = t /\ r.refs[c] = id)
    BY <1>3, <2>1 DEF DeleteFails, Referenced
  <2>3. Refers[c] \in Tables
    BY ReferencesTyped
  <2> QED BY <1>2, <2>1, <2>2, <2>3 DEF IdsIn
<1>5. \A u \in Tables : \A r \in e[u] : Whole(e, u, r)
  BY <1>4 DEF Whole
<1>6. e["trace_events"] = d["trace_events"]
  BY <1>2, TraceEventsTable
<1> QED BY <1>1, <1>2, <1>5, <1>6 DEF DbOK
(* A transaction: everything of it, with its event, or nothing.            *)
LEMMA TxKeeps ==
  ASSUME NEW d, DbOK(d), NEW t \in Tables, t # "trace_events", NEW row \in Rows, NEW how, NEW repo, NEW task
  PROVE  LET after == TxResult(d, t, row, how, repo, task) IN
           /\ DbOK(after)
           /\ d["trace_events"] \subseteq after["trace_events"]
           /\ after # d => \E e \in after["trace_events"] : e.key = <<t, row.id>>
<1> DEFINE written == Inserted(d, t, row)
           event == TraceRow(written, repo, task, <<t, row.id>>)
<1>1. CASE InsertFails(d, t, row, how) \/ ~Fits(written, "trace_events", event)
  BY <1>1 DEF TxResult
<1>2. CASE ~InsertFails(d, t, row, how) /\ Fits(written, "trace_events", event)
  <2>1. DbOK(written) /\ written["trace_events"] = d["trace_events"]
    BY <1>2, InsertKeeps
  <2>2. event.key = <<t, row.id>>
    BY DEF TraceRow
  <2>3. TxResult(d, t, row, how, repo, task) = [written EXCEPT !["trace_events"] = @ \cup {event}]
    BY <1>2 DEF TxResult
  <2> HIDE DEF written, event
  <2> DEFINE after == [written EXCEPT !["trace_events"] = @ \cup {event}]
  <2>4. DbOK(after) /\ after["trace_events"] = d["trace_events"] \cup {event}
    BY <1>2, <2>1, TraceKeeps
  <2> HIDE DEF after
  <2>5. \E e \in after["trace_events"] : e.key = <<t, row.id>>
    BY <2>2, <2>4
  <2> QED BY <2>3, <2>4, <2>5 DEF after
<1> QED BY <1>1, <1>2

(* What is traced stays: no step takes an event away, nor the repository   *)
(* it is filed under.                                                      *)
LEMMA TracedStays ==
  ASSUME StoreInv, DbOK(db'), db["trace_events"] \subseteq db'["trace_events"],
         \A w \in traced' \ traced : \E e \in db'["trace_events"] : e.key = w
  PROVE  TracedForGood'
<1>1. \A w \in traced' : \E e \in db'["trace_events"] : e.key = w
  BY DEF StoreInv, TracedForGood
<1>2. \A e \in db'["trace_events"] : e.refs["repo_id"] \in IdsIn(db', "repos")
  BY TraceEventsTable DEF DbOK, Whole, References
<1> QED BY <1>1, <1>2 DEF TracedForGood, IdsIn

LEMMA CallersRows ==
  /\ OneId \in RowIds
  /\ \A t : RowsFor(t) \subseteq Rows
  /\ \A cols, patch : patch \in RefsOver(cols) => \A c \in Columns : patch[c] \in RowIds \cup {Null}
<1>1. OneId \in RowIds
  BY StoreAssumption DEF OneId
<1>2. ASSUME NEW cols, NEW refs \in RefsOver(cols) PROVE refs \in [Columns -> RowIds \cup {Null}]
  BY <1>1 DEF RefsOver
<1>3. ASSUME NEW t, NEW row \in RowsFor(t) PROVE row \in Rows
  BY <1>1, <1>2 DEF RowsFor, Rows, IdsFor
<1> QED BY <1>1, <1>2, <1>3

LEMMA StatementStep ==
  ASSUME StoreInv, NEW t \in Writable, Insert(t) \/ Update(t) \/ Delete(t) \/ Tx(t)
  PROVE  StoreInv'
<1>1. t \in DOMAIN RepoOf /\ t \in Tables /\ t # "trace_events" /\ DbOK(db)
  BY RepoOfTable DEF Writable, StoreInv
<1>2. DbOK(db') /\ db["trace_events"] \subseteq db'["trace_events"]
      /\ \A w \in traced' \ traced : \E e \in db'["trace_events"] : e.key = w
  <2>1. CASE Insert(t)
    BY <2>1, <1>1, InsertKeeps, CallersRows DEF Insert
  <2>2. CASE Update(t)
    BY <2>2, <1>1, UpdateKeeps, CallersRows DEF Update
  <2>3. CASE Delete(t)
    BY <2>3, <1>1, DeleteKeeps DEF Delete
  <2>4. CASE Tx(t)
    <3>1. PICK row \in RowsFor(t), how \in RepoOf[t].onConflict, repo \in {OneId, Null}, task \in {OneId, Null} :
            /\ db' = TxResult(db, t, row, how, repo, task)
            /\ db' # db
            /\ traced' = traced \cup {<<t, row.id>>}
      BY <2>4 DEF Tx
    <3>2. row \in Rows
      BY CallersRows
    <3> QED BY <3>1, <3>2, <1>1, TxKeeps
  <2> QED BY <2>1, <2>2, <2>3, <2>4
<1>3. UNCHANGED <<focus, imp>>
  BY DEF Insert, Update, Delete, Tx
<1>4. TracedForGood'
  BY <1>2, TracedStays
<1> QED BY <1>2, <1>3, <1>4 DEF StoreInv, ImpOK
LEMMA ImportRows ==
  /\ {"repos", "tasks", "task_snapshots"} \subseteq Tables
  /\ \A id \in RowIds, root \in Keys : RepoRow(id, root) \in Rows
  /\ \A id, owner \in RowIds, col \in Columns : OwnedRow(id, col, owner) \in Rows
<1>1. {"repos", "tasks", "task_snapshots"} \subseteq Tables
  BY DEF Tables, TablesOfTheTask
<1> QED BY <1>1 DEF RepoRow, OwnedRow, Rows

(* The transaction of one task file of the import.                         *)
LEMMA ImportKeeps ==
  ASSUME NEW d, DbOK(d), NEW f \in RowIds, NEW repo \in RowIds
  PROVE  LET after == ImportedFile(d, repo, f) IN
           /\ DbOK(after)
           /\ d["trace_events"] \subseteq after["trace_events"]
           /\ after # d => \E e \in after["trace_events"] : e.key = <<"tasks", f>>
<1> DEFINE root == CHOOSE k \in Keys : TRUE
           d1 == Inserted(d, "repos", RepoRow(repo, root))
           d2 == Inserted(d1, "tasks", OwnedRow(f, "repo_id", repo))
           d3 == Inserted(d2, "task_snapshots", OwnedRow(f, "task_id", f))
           event == TraceRow(d3, repo, f, <<"tasks", f>>)
           fails == \/ InsertFails(d, "repos", RepoRow(repo, root), "throw")
                    \/ InsertFails(d1, "tasks", OwnedRow(f, "repo_id", repo), "throw")
                    \/ InsertFails(d2, "task_snapshots", OwnedRow(f, "task_id", f), "throw")
                    \/ ~Fits(d3, "trace_events", event)
<1>1. ImportedFile(d, repo, f) = IF fails THEN d ELSE [d3 EXCEPT !["trace_events"] = @ \cup {event}]
  BY DEF ImportedFile
<1>2. CASE fails
  BY <1>1, <1>2
<1>3. CASE ~fails
  <2>1. root \in Keys /\ "repo_id" \in Columns /\ "task_id" \in Columns
    BY StoreAssumption DEF Columns, Refers
  <2>2. DbOK(d1) /\ d1["trace_events"] = d["trace_events"]
    BY <1>3, <2>1, ImportRows, InsertKeeps
  <2>3. DbOK(d2) /\ d2["trace_events"] = d["trace_events"]
    BY <1>3, <2>1, <2>2, ImportRows, InsertKeeps
  <2>4. DbOK(d3) /\ d3["trace_events"] = d["trace_events"]
    BY <1>3, <2>1, <2>3, ImportRows, InsertKeeps
  <2>5. event.key = <<"tasks", f>>
    BY DEF TraceRow
  <2>6. Fits(d3, "trace_events", event)
    BY <1>3
  <2> DEFINE after == [d3 EXCEPT !["trace_events"] = @ \cup {event}]
  <2>7. ImportedFile(d, repo, f) = after
    BY <1>1, <1>3
  <2> HIDE DEF d3, event
  <2>8. DbOK(after) /\ after["trace_events"] = d["trace_events"] \cup {event}
    BY <2>4, <2>6, TraceKeeps
  <2> HIDE DEF after
  <2>9. \E e \in after["trace_events"] : e.key = <<"tasks", f>>
    BY <2>5, <2>8
  <2> QED BY <2>7, <2>8, <2>9
<1> QED BY <1>2, <1>3

LEMMA ImportStep ==
  ASSUME StoreInv, ImportStart \/ ImportFile \/ ImportReturn
  PROVE  StoreInv'
<1>1. CASE ImportStart \/ ImportReturn
  <2>1. UNCHANGED <<db, focus, traced>> /\ ImpOK'
    BY <1>1 DEF ImportStart, ImportReturn, StoreInv, ImpOK
  <2> QED BY <2>1 DEF StoreInv, TracedForGood, IdsIn, DbOK, Whole
<1>2. CASE ImportFile
  <2>1. PICK f \in imp.todo :
          LET after == ImportedFile(db, OneId, f) IN
            /\ db' = after
            /\ IF after = db
               THEN imp' = [imp EXCEPT !.pc = "threw"]
               ELSE imp' = [imp EXCEPT !.todo = @ \ {f}, !.imported = @ + 1]
            /\ traced' = IF after = db THEN traced ELSE traced \cup {<<"tasks", f>>}
    BY <1>2 DEF ImportFile
  <2>2. f \in RowIds /\ OneId \in RowIds
    BY StoreAssumption, CallersRows DEF StoreInv, ImpOK
  <2> DEFINE after == ImportedFile(db, OneId, f)
  <2>3. /\ DbOK(after) /\ db["trace_events"] \subseteq after["trace_events"]
        /\ after # db => \E e \in after["trace_events"] : e.key = <<"tasks", f>>
    BY <2>2, ImportKeeps DEF StoreInv
  <2>4. db' = after /\ traced' = IF after = db THEN traced ELSE traced \cup {<<"tasks", f>>}
    BY <2>1
  <2>7. ImpOK'
    <3>1. imp' = [imp EXCEPT !.pc = "threw"] \/ imp' = [imp EXCEPT !.todo = @ \ {f}, !.imported = @ + 1]
      BY <2>1
    <3>2. CASE imp' = [imp EXCEPT !.pc = "threw"]
      BY <3>2 DEF StoreInv, ImpOK
    <3>3. CASE imp' = [imp EXCEPT !.todo = @ \ {f}, !.imported = @ + 1]
      <4>1. imp.todo \ {f} \in SUBSET TaskFiles /\ imp.imported + 1 \in Nat
        BY DEF StoreInv, ImpOK
      <4> QED BY <3>3, <4>1 DEF StoreInv, ImpOK
    <3> QED BY <3>1, <3>2, <3>3
  <2> HIDE DEF after
  <2>5. TracedForGood'
    BY <2>3, <2>4, TracedStays
  <2>6. focus' = focus
    BY <1>2 DEF ImportFile
  <2> QED BY <2>3, <2>4, <2>5, <2>6, <2>7 DEF StoreInv
<1> QED BY <1>1, <1>2

LEMMA StoreInitOK == StoreInit => StoreInv
<1> SUFFICES ASSUME StoreInit PROVE StoreInv
  OBVIOUS
<1>1. DbOK(db)
  BY TraceEventsTable DEF StoreInit, NoRows, DbOK
<1> QED BY <1>1 DEF StoreInit, StoreInv, ImpOK, TracedForGood

LEMMA StoreStepOK == StoreInv /\ [StoreNext]_storeVars => StoreInv'
<1> SUFFICES ASSUME StoreInv, [StoreNext]_storeVars PROVE StoreInv'
  OBVIOUS
<1>1. CASE UNCHANGED storeVars
  BY <1>1 DEF storeVars, StoreInv, ImpOK, TracedForGood, IdsIn, DbOK, Whole
<1> QED BY <1>1, StatementStep, ImportStep DEF StoreNext

LEMMA StoreInvariant == StoreSpec => []StoreInv
BY StoreInitOK, StoreStepOK, PTL DEF StoreSpec

(* However repositories, transactions and an import of old file state mix, *)
(* every table holds well-typed rows, one per id, and no id column of a    *)
(* row but a task's active patch candidate names a row that is not there   *)
(* (schema.ts, repos/*.ts, store.tx).                                      *)
THEOREM RowsStaySound == StoreSpec => []RowsSound
<1>1. StoreInv => RowsSound
  <2> SUFFICES ASSUME StoreInv PROVE RowsSound
    OBVIOUS
  <2>1. StoreTypeOK
    BY DEF StoreInv, DbOK, ImpOK, StoreTypeOK
  <2>2. RowsReference
    BY RepoOfTable DEF StoreInv, DbOK, Whole, References, Described, RowsReference
  <2> QED BY <2>1, <2>2 DEF RowsSound
<1> QED BY <1>1, StoreInvariant, PTL

(* What a transaction or the import committed with a trace event keeps it, *)
(* filed under a repository that is there, whatever is deleted later       *)
(* (store.tx, ctx.trace).                                                  *)
THEOREM TraceIsKept == StoreSpec => []TracedForGood
<1>1. StoreInv => TracedForGood
  BY DEF StoreInv
<1> QED BY <1>1, StoreInvariant, PTL
-----------------------------------------------------------------------------
(* The life of the store: migrations that race, connections that are       *)
(* replaced, closed or lost.                                               *)
LEMMA LifeInitOK == LifeInit => LifeInv
<1> SUFFICES ASSUME LifeInit PROVE LifeInv
  OBVIOUS
<1>1. LifeTypeOK
  BY BoundsAreNumbers, MigrationsTyped DEF LifeInit, LifeTypeOK, IdleRunner, NewObject
<1>2. SchemaWhole
  BY DEF LifeInit, SchemaWhole
<1> QED BY <1>1, <1>2 DEF LifeInit, LifeInv, ReadyIsCurrent, ArtifactsFollowConnection, Progress, Connections,
           IdleRunner, NewObject

(* A version that is applied brings its tables, and every table these      *)
(* reference was there or came before them.                                *)
LEMMA AppliedWhole ==
  ASSUME LifeInv, NEW v \in Versions, RunsThrough(v, made), Applied(v)
  PROVE  made' \subseteq Tables /\ recorded' \subseteq Versions /\ SchemaWhole'
<1>1. made' = made \cup TablesOf(v) /\ recorded' = recorded \cup {v}
  BY DEF Applied
<1>2. made' = UNION {TablesOf(w) : w \in recorded'}
  BY <1>1 DEF LifeInv, SchemaWhole
<1>3. ASSUME NEW t \in made' PROVE {Refers[c] : c \in References(t)} \subseteq made'
  <2>1. CASE t \in made
    BY <1>1, <2>1 DEF LifeInv, SchemaWhole
  <2>2. CASE t \in TablesOf(v)
    <3>1. PICK i \in DOMAIN Migrations[v] : t = Migrations[v][i]
      BY <2>2 DEF TablesOf
    <3>2. {Refers[c] : c \in References(t)} \subseteq made \cup {Migrations[v][j] : j \in 1 .. (i - 1)}
      BY <3>1 DEF RunsThrough
    <3>3. {Migrations[v][j] : j \in 1 .. (i - 1)} \subseteq TablesOf(v)
      <4>1. \A w \in Versions : \E n \in Nat : DOMAIN Migrations[w] = 1 .. n
        <5>1. DOMAIN Migrations[1] = 1 .. 29 /\ DOMAIN Migrations[2] = 1 .. 0
              /\ DOMAIN Migrations[3] = 1 .. 2 /\ DOMAIN Migrations[4] = 1 .. 2
          BY DEF Migrations
        <5>2. \A w \in Versions : w = 1 \/ w = 2 \/ w = 3 \/ w = 4
          BY MigrationsTyped
        <5>3. 29 \in Nat /\ 0 \in Nat /\ 2 \in Nat
          OBVIOUS
        <5> QED BY <5>1, <5>2, <5>3
      <4> QED BY <4>1 DEF TablesOf
    <3> QED BY <1>1, <3>2, <3>3
  <2> QED BY <1>1, <2>1, <2>2
<1>4. made' \subseteq Tables /\ recorded' \subseteq Versions
  BY <1>1, MigrationsTyped DEF LifeInv, LifeTypeOK
<1> QED BY <1>2, <1>3, <1>4 DEF SchemaWhole

(* Only the runner of one process moves.                                   *)
LEMMA RunnerStep ==
  ASSUME LifeInv, NEW p \in Processes, ReadApplied(p) \/ SkipApplied(p) \/ Apply(p) \/ ApplyFails(p)
  PROVE  LifeInv'
<1> USE MigrationsTyped
<1>1. /\ runner \in [Processes -> [pc : {"idle", "opening", "applying", "ready"},
                                   seen : SUBSET Versions, next : 1 .. 5]]
      /\ recorded \subseteq Versions
  BY DEF LifeInv, LifeTypeOK
<1>2. UNCHANGED object
  BY DEF ReadApplied, SkipApplied, Apply, ApplyFails
<1>3. /\ recorded \subseteq recorded' /\ recorded' \subseteq Versions /\ made' \subseteq Tables /\ SchemaWhole'
  <2>1. CASE Apply(p)
    BY <2>1, AppliedWhole DEF Apply, Applied
  <2>2. CASE ReadApplied(p) \/ SkipApplied(p) \/ ApplyFails(p)
    BY <2>2, <1>1 DEF LifeInv, LifeTypeOK, SchemaWhole, ReadApplied, SkipApplied, ApplyFails, TablesOf, References
  <2> QED BY <2>1, <2>2
<1>4. PICK to \in [pc : {"idle", "opening", "applying"}, seen : SUBSET Versions, next : 1 .. 5] :
        /\ runner' = [runner EXCEPT ![p] = to]
        /\ to.pc = "applying" => to.seen \subseteq recorded' /\ 1 .. (to.next - 1) \subseteq recorded'
  <2>1. CASE ReadApplied(p)
    <3> DEFINE to == [pc |-> "applying", seen |-> recorded, next |-> 1]
    <3>1. to \in [pc : {"idle", "opening", "applying"}, seen : SUBSET Versions, next : 1 .. 5]
      BY <1>1
    <3>2. runner' = [runner EXCEPT ![p] = to] /\ to.seen \subseteq recorded' /\ 1 .. (to.next - 1) = {}
      BY <2>1 DEF ReadApplied
    <3> HIDE DEF to
    <3> QED BY <3>1, <3>2
  <2>2. CASE ApplyFails(p)
    <3>1. IdleRunner \in [pc : {"idle", "opening", "applying"}, seen : SUBSET Versions, next : 1 .. 5]
      BY DEF IdleRunner
    <3> QED BY <2>2, <3>1 DEF ApplyFails, IdleRunner
  <2>3. CASE SkipApplied(p) \/ Apply(p)
    <3> DEFINE to == [runner[p] EXCEPT !.next = @ + 1]
    <3>1. runner[p].pc = "applying" /\ runner[p].next \in recorded' /\ runner[p].next \in Versions
      BY <2>3, <1>1 DEF SkipApplied, Apply, Applied, LifeInv, Progress
    <3>2. to \in [pc : {"idle", "opening", "applying"}, seen : SUBSET Versions, next : 1 .. 5]
      BY <1>1, <3>1
    <3>3. to.seen \subseteq recorded' /\ 1 .. (to.next - 1) \subseteq recorded'
      <4>1. runner[p].seen \subseteq recorded /\ 1 .. (runner[p].next - 1) \subseteq recorded
        BY <3>1 DEF LifeInv, Progress
      <4>2. to.next - 1 = runner[p].next /\ to.seen = runner[p].seen
        BY <1>1, <3>1
      <4>3. \A i \in 1 .. runner[p].next : i = runner[p].next \/ i \in 1 .. (runner[p].next - 1)
        BY <3>1
      <4> QED BY <1>3, <3>1, <4>1, <4>2, <4>3
    <3>4. runner' = [runner EXCEPT ![p] = to]
      BY <2>3 DEF SkipApplied, Apply
    <3> QED BY <3>2, <3>3, <3>4
  <2> QED BY <2>1, <2>2, <2>3
<1>5. LifeTypeOK'
  BY <1>1, <1>2, <1>3, <1>4 DEF LifeInv, LifeTypeOK
<1>6. ReadyIsCurrent' /\ Progress'
  BY <1>1, <1>3, <1>4 DEF LifeInv, ReadyIsCurrent, Progress
<1>7. ArtifactsFollowConnection' /\ Connections'
  BY <1>2 DEF LifeInv, ArtifactsFollowConnection, Connections
<1> QED BY <1>3, <1>5, <1>6, <1>7 DEF LifeInv
(* What a process does to its object.                                      *)
Objects == [sql : 0 .. MaxConnections, repos : 0 .. MaxConnections, artifacts : -1 .. MaxConnections,
            late : BOOLEAN, opened : 0 .. MaxConnections, ended : SUBSET (1 .. MaxConnections)]

Follows(o) ==
  /\ o.artifacts \in o.ended => o.late
  /\ o.ended \subseteq 1 .. o.opened
  /\ o.sql # 0 => o.repos = o.sql
  /\ o.sql \notin o.ended /\ o.sql <= o.opened

LEMMA EnsuredFollows ==
  ASSUME NEW o \in Objects, Follows(o)
  PROVE  Ensured(o) \in Objects /\ Follows(Ensured(o))
<1>1. CASE o.artifacts # -1
  BY <1>1 DEF Ensured
<1>2. CASE o.artifacts = -1
  <2> DEFINE e == [o EXCEPT !.artifacts = o.repos, !.late = (o.sql = 0)]
  <2>1. Ensured(o) = e
    BY <1>2 DEF Ensured
  <2>2. /\ e.artifacts = o.repos /\ e.late = (o.sql = 0)
        /\ e.ended = o.ended /\ e.opened = o.opened /\ e.sql = o.sql /\ e.repos = o.repos
    BY DEF Objects
  <2>3. o.repos \in -1 .. MaxConnections /\ (o.sql = 0) \in BOOLEAN
    BY BoundsAreNumbers DEF Objects
  <2>4. e \in Objects
    BY <2>3 DEF Objects
  <2> HIDE DEF e
  <2> QED BY <2>1, <2>2, <2>4 DEF Follows
<1> QED BY <1>1, <1>2

LEMMA ObjectStep ==
  ASSUME LifeInv, NEW p \in Processes, NEW o \in Objects, Follows(o), object' = [object EXCEPT ![p] = o],
         NEW r \in [pc : {"idle", "opening", "ready"}, seen : SUBSET Versions, next : 1 .. 5],
         r.pc = "ready" => recorded = Versions,
         runner' = [runner EXCEPT ![p] = r], UNCHANGED <<made, recorded>>
  PROVE  LifeInv'
<1> USE MigrationsTyped
<1>1. /\ runner \in [Processes -> [pc : {"idle", "opening", "applying", "ready"},
                                   seen : SUBSET Versions, next : 1 .. 5]]
      /\ object \in [Processes -> Objects]
  BY DEF LifeInv, LifeTypeOK, Objects
<1>2. LifeTypeOK'
  BY <1>1 DEF LifeInv, LifeTypeOK, Objects
<1>3. SchemaWhole'
  BY DEF LifeInv, SchemaWhole, TablesOf, References
<1>4. ReadyIsCurrent' /\ Progress'
  BY <1>1 DEF LifeInv, ReadyIsCurrent, Progress
<1>5. ArtifactsFollowConnection' /\ Connections'
  BY <1>1 DEF LifeInv, ArtifactsFollowConnection, Connections, Follows
<1> QED BY <1>2, <1>3, <1>4, <1>5 DEF LifeInv

LEMMA LifeStepOK == LifeInv /\ [LifeNext]_lifeVars => LifeInv'
<1> SUFFICES ASSUME LifeInv, [LifeNext]_lifeVars PROVE LifeInv'
  OBVIOUS
<1> USE MigrationsTyped
<1>1. CASE UNCHANGED lifeVars
  BY <1>1 DEF lifeVars, LifeInv, LifeTypeOK, SchemaWhole, ReadyIsCurrent, ArtifactsFollowConnection, Progress,
              Connections, TablesOf, References
<1>2. ASSUME NEW p \in Processes PROVE object[p] \in Objects /\ Follows(object[p])
  BY DEF LifeInv, LifeTypeOK, Objects, ArtifactsFollowConnection, Connections, Follows
<1>3. runner \in [Processes -> [pc : {"idle", "opening", "applying", "ready"},
                                seen : SUBSET Versions, next : 1 .. 5]]
  BY DEF LifeInv, LifeTypeOK
<1>4. IdleRunner \in [pc : {"idle", "opening", "ready"}, seen : SUBSET Versions, next : 1 .. 5]
      /\ IdleRunner.pc = "idle"
  BY DEF IdleRunner
<1>5. ASSUME NEW p \in Processes, OpenStore(p) PROVE LifeInv'
  <2> DEFINE n == object[p].opened + 1
             o == [object[p] EXCEPT !.sql = n, !.repos = n, !.opened = n]
             r == [IdleRunner EXCEPT !.pc = "opening"]
  <2>1. object' = [object EXCEPT ![p] = o] /\ runner' = [runner EXCEPT ![p] = r] /\ n <= MaxConnections
    BY <1>2, <1>5, BoundsAreNumbers DEF OpenStore, Objects
  <2>2. /\ o.sql = n /\ o.repos = n /\ o.opened = n
        /\ o.ended = object[p].ended /\ o.artifacts = object[p].artifacts /\ o.late = object[p].late
    BY <1>2 DEF Objects
  <2>5. n \in 0 .. MaxConnections
    BY <1>2, <2>1, BoundsAreNumbers DEF Objects
  <2>6. o \in Objects
    <3> HIDE DEF n
    <3> QED BY <1>2, <2>5 DEF Objects
  <2>3. Follows(o)
    <3>1. object[p].ended \subseteq 1 .. object[p].opened /\ object[p].opened \in Nat
      BY <1>2 DEF Follows, Objects
    <3> HIDE DEF o
    <3> QED BY <1>2, <2>2, <3>1 DEF Follows
  <2>4. r \in [pc : {"idle", "opening", "ready"}, seen : SUBSET Versions, next : 1 .. 5] /\ r.pc = "opening"
    BY <1>4
  <2> HIDE DEF o, r
  <2> QED BY <1>5, <2>1, <2>6, <2>3, <2>4, ObjectStep DEF OpenStore
<1>6. ASSUME NEW p \in Processes, InitReturns(p) PROVE LifeInv'
  <2> DEFINE r == [IdleRunner EXCEPT !.pc = "ready"]
  <2>1. r \in [pc : {"idle", "opening", "ready"}, seen : SUBSET Versions, next : 1 .. 5]
    BY <1>4
  <2>2. recorded = Versions
    <3>1. runner[p].next = 5 /\ 1 .. (runner[p].next - 1) \subseteq recorded
      BY <1>3, <1>6 DEF InitReturns, LifeInv, Progress
    <3>2. 1 .. 4 \subseteq recorded
      BY <3>1
    <3> QED BY <3>2 DEF LifeInv, LifeTypeOK
  <2>3. Ensured(object[p]) \in Objects /\ Follows(Ensured(object[p]))
    BY <1>2, EnsuredFollows
  <2> QED BY <1>6, <2>1, <2>2, <2>3, ObjectStep DEF InitReturns
<1>7. ASSUME NEW p \in Processes, UseArtifacts(p) PROVE LifeInv'
  <2>1. runner' = [runner EXCEPT ![p] = runner[p]]
    BY <1>3, <1>7 DEF UseArtifacts
  <2>2. runner[p] \in [pc : {"idle", "opening", "ready"}, seen : SUBSET Versions, next : 1 .. 5]
        /\ (runner[p].pc = "ready" => recorded = Versions)
    BY <1>3, <1>7 DEF UseArtifacts, AtRest, LifeInv, ReadyIsCurrent
  <2>3. Ensured(object[p]) \in Objects /\ Follows(Ensured(object[p]))
    BY <1>2, EnsuredFollows
  <2> QED BY <1>7, <2>1, <2>2, <2>3, ObjectStep DEF UseArtifacts
<1>8. ASSUME NEW p \in Processes, CloseStore(p) PROVE LifeInv'
  <2> DEFINE o == Closed(object[p])
  <2>1. object[p].sql # 0
    BY <1>8 DEF CloseStore
  <2>2. /\ o.sql = 0 /\ o.artifacts = -1 /\ o.ended = object[p].ended \cup {object[p].sql}
        /\ o.opened = object[p].opened
    BY <1>2 DEF Closed, Objects
  <2>3. o \in Objects
    <3>1. object[p].ended \cup {object[p].sql} \in SUBSET (1 .. MaxConnections)
      BY <1>2, <2>1 DEF Objects
    <3>2. 0 \in 0 .. MaxConnections /\ -1 \in -1 .. MaxConnections /\ FALSE \in BOOLEAN
      BY BoundsAreNumbers
    <3> QED BY <1>2, <3>1, <3>2 DEF Closed, Objects
  <2>4. object[p].sql \in 1 .. object[p].opened
    BY <1>2, <2>1 DEF Follows, Objects
  <2> HIDE DEF o
  <2>5. Follows(o)
    BY <1>2, <2>2, <2>4 DEF Follows, Objects
  <2> QED BY <1>4, <1>8, <2>3, <2>5, ObjectStep DEF CloseStore, o
<1>9. ASSUME NEW p \in Processes, LifeCrash(p) PROVE LifeInv'
  <2>1. NewObject \in Objects /\ Follows(NewObject)
    BY BoundsAreNumbers DEF NewObject, Objects, Follows
  <2> QED BY <1>4, <1>9, <2>1, ObjectStep DEF LifeCrash
<1> QED BY <1>1, <1>5, <1>6, <1>7, <1>8, <1>9, RunnerStep DEF LifeNext

LEMMA LifeInvariant == LifeSpec => []LifeInv
BY LifeInitOK, LifeStepOK, PTL DEF LifeSpec

(* Whatever crashes and whoever migrates at the same time, a recorded      *)
(* version is in the database whole, init() returns on one that has them   *)
(* all, and the artifact store of an open object never writes to a closed  *)
(* connection (runMigrations, init, close, artifactStoreOrThrow).          *)
THEOREM LifecycleStaysSound == LifeSpec => []LifecycleSound
<1>1. LifeInv => LifecycleSound
  BY DEF LifeInv, LifecycleSound
<1> QED BY <1>1, LifeInvariant, PTL
=============================================================================
