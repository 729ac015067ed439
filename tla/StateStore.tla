----------------------------- MODULE StateStore -----------------------------
(***************************************************************************)
(* ForgeStateStore (store.ts) over StateSchema: autocommit statements of   *)
(* the repositories, tx(fn) with its trace helper, and the import of the   *)
(* file state of older versions.                                           *)
(*                                                                         *)
(* A transaction runs as one step: Postgres shows none of it to the others *)
(* before it commits, and the rows are named by id.  The trace helper's    *)
(* event is a row of trace_events; its id and key are what it is about.    *)
(***************************************************************************)
EXTENDS StateSchema, Naturals

CONSTANTS Focus,    \* bound: the tables whose rows a behaviour may write
          TaskFiles     \* the task files of the import, each named as its task id

ASSUME StoreAssumption == RowIds # {} /\ Keys # {} /\ TaskFiles \subseteq RowIds

VARIABLES db,       \* committed rows
          focus,    \* bound: the table this behaviour writes about
          traced,   \* history: <<table, id>> of the rows written with a trace event
          imp       \* importFromFileState: its pc, repo id, files left, imported

storeVars == <<db, focus, traced, imp>>

(* Bounds: only the table in focus and the tables it references hold rows; *)
(* only a table in focus that has a unique key gets a second id, and only  *)
(* the table in focus fills its nullable columns.                          *)
OneId == CHOOSE i \in RowIds : TRUE
Parents(S) == S \cup {Refers[c] : c \in UNION {References(t) : t \in S}}
Live == Parents(Parents(Parents(Parents(Parents({focus})))))
IdsFor(t) == IF t = focus /\ Schema[t].unique # {} THEN RowIds ELSE {OneId}
Filled(t) == IF t = focus THEN RepoOf[t].writes ELSE Schema[t].must

(* The id columns a caller fills in, null or an id.                        *)
RefsOver(cols) ==
  { [c \in Columns |-> IF c \in cols THEN f[c] ELSE Null] :
      f \in [cols -> {OneId, Null}] }

RowsFor(t) ==
  [id : IdsFor(t), refs : RefsOver(Filled(t)),
   key : IF "key" \in Schema[t].unique THEN Keys ELSE {Null}]

Writable == {t \in Live : t \in DOMAIN RepoOf /\ t # "trace_events"}

-----------------------------------------------------------------------------
(* store.repos.<table>.<operation>(...): each statement commits by itself. *)

Insert(t) ==
  \E row \in RowsFor(t), how \in RepoOf[t].onConflict :
    /\ ~InsertFails(db, t, row, how)
    /\ db' = Inserted(db, t, row)
    /\ UNCHANGED <<focus, traced, imp>>

Update(t) ==
  /\ RepoOf[t].patches # {}
  /\ \E id \in IdsFor(t), patch \in RefsOver(RepoOf[t].patches) :
       /\ ~UpdateFails(db, t, id, patch)
       /\ db' = Updated(db, t, id, patch)
  /\ UNCHANGED <<focus, traced, imp>>

Delete(t) ==
  /\ RepoOf[t].deletes
  /\ \E id \in IdsIn(db, t) :
       /\ ~DeleteFails(db, t, id)
       /\ db' = Deleted(db, t, id)
  /\ UNCHANGED <<focus, traced, imp>>

-----------------------------------------------------------------------------
(* ctx.trace(event): trace_events.repo_id is not null; when the caller     *)
(* gives no repo id it is read from the task's row, in the transaction.    *)
TaskRepoId(d, task) ==
  IF \E r \in d["tasks"] : r.id = task
  THEN (CHOOSE r \in d["tasks"] : r.id = task).refs["repo_id"]
  ELSE Null

TraceRow(d, repo, task, of) ==
  [id |-> of, key |-> of,
   refs |-> [c \in Columns |->
               IF c = "task_id" THEN task
               ELSE IF c = "repo_id"
                    THEN IF repo = Null /\ task # Null THEN TaskRepoId(d, task) ELSE repo
                    ELSE Null]]

\* Mutant: the statement before a failing trace call stays committed.
TxResultKeepsPrefix(d, t, row, how, repo, task) ==
  LET written == Inserted(d, t, row)
      event == TraceRow(written, repo, task, <<t, row.id>>)
  IN IF InsertFails(d, t, row, how) THEN d
     ELSE IF ~Fits(written, "trace_events", event) THEN written
     ELSE [written EXCEPT !["trace_events"] = @ \cup {event}]

(* tx(fn) where fn inserts one row and traces it: all of it or none.       *)
TxResult(d, t, row, how, repo, task) ==
  LET written == Inserted(d, t, row)
      event == TraceRow(written, repo, task, <<t, row.id>>)
  IN IF InsertFails(d, t, row, how) \/ ~Fits(written, "trace_events", event)
     THEN d
     ELSE [written EXCEPT !["trace_events"] = @ \cup {event}]

Tx(t) ==
  \E row \in RowsFor(t), how \in RepoOf[t].onConflict, repo, task \in {OneId, Null} :
    /\ t = focus
    /\ db' = TxResult(db, t, row, how, repo, task)
    /\ db' # db
    /\ traced' = traced \cup {<<t, row.id>>}
    /\ UNCHANGED <<focus, imp>>

-----------------------------------------------------------------------------
(* importFromFileState: one fresh repo id, then for each task file one     *)
(* transaction that inserts the repos row, the task, a snapshot, a trace   *)
(* event; `imported += 1` ends its body.  A transaction that throws ends   *)
(* the import.                                                             *)
ImportStart ==
  /\ imp.pc = "idle"
  /\ imp' = [imp EXCEPT !.pc = "reading", !.todo = TaskFiles]
  /\ UNCHANGED <<db, focus, traced>>

RepoRow(id, root) == [id |-> id, refs |-> [c \in Columns |-> Null], key |-> root]
OwnedRow(id, col, owner) ==
  [id |-> id, refs |-> [c \in Columns |-> IF c = col THEN owner ELSE Null], key |-> Null]

ImportedFile(d, repo, f) ==
  LET root == CHOOSE k \in Keys : TRUE
      d1 == Inserted(d, "repos", RepoRow(repo, root))
      d2 == Inserted(d1, "tasks", OwnedRow(f, "repo_id", repo))
      d3 == Inserted(d2, "task_snapshots", OwnedRow(f, "task_id", f))
      event == TraceRow(d3, repo, f, <<"tasks", f>>)
      fails == \/ InsertFails(d, "repos", RepoRow(repo, root), "throw")
               \/ InsertFails(d1, "tasks", OwnedRow(f, "repo_id", repo), "throw")
               \/ InsertFails(d2, "task_snapshots", OwnedRow(f, "task_id", f), "throw")
               \/ ~Fits(d3, "trace_events", event)
  IN IF fails THEN d ELSE [d3 EXCEPT !["trace_events"] = @ \cup {event}]

ImportFile ==
  /\ imp.pc = "reading"
  /\ \E f \in imp.todo :
       LET after == ImportedFile(db, OneId, f) IN
         /\ db' = after
         /\ IF after = db
            THEN imp' = [imp EXCEPT !.pc = "threw"]
            ELSE imp' = [imp EXCEPT !.todo = @ \ {f}, !.imported = @ + 1]
         /\ traced' = IF after = db THEN traced ELSE traced \cup {<<"tasks", f>>}
  /\ UNCHANGED focus

ImportReturn ==
  /\ imp.pc = "reading" /\ imp.todo = {}
  /\ imp' = [imp EXCEPT !.pc = "returned"]
  /\ UNCHANGED <<db, focus, traced>>

-----------------------------------------------------------------------------
NoRows == [t \in Tables |-> {}]

StoreInit ==
  /\ db = NoRows
  /\ focus \in Focus
  /\ traced = {}
  /\ imp = [pc |-> "idle", todo |-> {}, imported |-> 0]

StoreNext ==
  \/ \E t \in Writable : Insert(t) \/ Update(t) \/ Delete(t) \/ Tx(t)
  \/ focus = "task_snapshots" /\ (ImportStart \/ ImportFile \/ ImportReturn)

StoreSpec == StoreInit /\ [][StoreNext]_storeVars
-----------------------------------------------------------------------------
(* Types: rows of the schema with one row per id, the import as declared.  *)
StoreTypeOK ==
  /\ \A t \in Tables \ {"trace_events"} : db[t] \subseteq Rows
  /\ \A t \in Tables \ {"trace_events"} : \A r, s \in db[t] : r.id = s.id => r = s
  /\ focus \in Focus
  /\ imp.todo \subseteq TaskFiles

(* No row names a row that is not there: the id columns a repository       *)
(* writes are checked by the schema on the way in, and no delete takes a   *)
(* row away from under another one.  The exception is a task's active      *)
(* patch candidate, which nothing checks: it may name none.                *)
RowsReference ==
  \A t \in DOMAIN RepoOf : \A r \in db[t] : \A c \in RepoOf[t].writes \ Unkeyed :
     r.refs[c] # Null => r.refs[c] \in IdsIn(db, Refers[c])

(* What the store holds is what its schema and its repositories describe.  *)
RowsSound == StoreTypeOK /\ RowsReference

(* The co-transactional guarantee: what tx() committed has its trace event *)
(* for good, filed under a repository that is there: the one the caller    *)
(* names, or else that of the task.                                        *)
TracedForGood ==
  \A w \in traced : \E e \in db["trace_events"] :
    e.key = w /\ e.refs["repo_id"] \in IdsIn(db, "repos")

=============================================================================
