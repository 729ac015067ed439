------------------------- MODULE CheckpointsProofs -------------------------
(* What a rollback restores and what a restart keeps, for every number of  *)
(* files, checkpoints, edits and faults; what the runs in the same tree    *)
(* commit and ask to have merged.                                          *)
EXTENDS Checkpoints, PullRequest, TLAPS

(* The creation of cur has entries of the list or snapshots to write.      *)
Creating == op = "snap" \/ (op = "list" /\ todo # {})

(* The files of checkpoint i that are not copied yet.                      *)
Ahead(i) == IF Creating /\ cur = i THEN todo ELSE {}

CallOK ==
  /\ op \in {"list", "snap", "restore"} => cur \in Ids
  /\ Creating => todo \subseteq covers[cur]

(* Nothing edits the tree while a checkpoint is made, so what is still to  *)
(* be copied is what was there when the call began.                        *)
TreeStill == Creating => \A f \in todo : tree[f] = taken[cur][f]

CopiesTaken ==
  \A i \in sound : \A f \in covers[i] \ Ahead(i) : snaps[i][f] = Copy(taken[i][f])

RestoredSoFar ==
  op = "restore" => \A f \in covers[cur] \ todo : tree[f] = snaps[cur][f]

IInv == TypeOK /\ CallOK /\ TreeStill /\ CopiesTaken /\ RestoredSoFar

(* The list in the cache and the one on disk both have what returned.      *)
ListsAgree ==
  ~lost =>
    /\ ~torn
    /\ \A i \in returned : disk[i] # "absent"
    /\ loaded /\ ~blind => \A i \in returned : mem[i] # "absent"
    /\ op = "list" => loaded
    /\ op = "snap" => loaded /\ mem[cur] # "absent" /\ disk[cur] # "absent"
    /\ Creating => mem[cur] # "absent"

-----------------------------------------------------------------------------

LEMMA CopyType == \A v \in Contents : Copy(v) \in Contents
BY DEF Copy, Contents, Marks

LEMMA CopyKeepsText ==
  ASSUME NEW v, v \in Texts \cup {"absent"}
  PROVE  Copy(v) = v
BY CheckpointAssumption DEF Copy, Marks

LEMMA InitOK == Init => IInv
<1> SUFFICES ASSUME Init PROVE IInv
  OBVIOUS
<1>1. TypeOK
  <2>1. tree \in Trees
    BY DEF Init, Trees, Contents, Edits, Marks
  <2>2. snaps \in [Ids -> Trees] /\ taken \in [Ids -> Trees]
    BY DEF Init, Trees, Contents, Marks
  <2>3. disk \in Lists /\ mem \in Lists
    BY DEF Init, NoEntries, Lists, Decisions
  <2>4. edits \in 0 .. MaxEdits /\ faults \in 0 .. MaxFaults
    BY CheckpointAssumption DEF Init
  <2> QED BY <2>1, <2>2, <2>3, <2>4 DEF Init, TypeOK, Ops
<1>2. CallOK /\ TreeStill /\ CopiesTaken /\ RestoredSoFar
  BY DEF Init, CallOK, TreeStill, CopiesTaken, RestoredSoFar, Creating
<1> QED BY <1>1, <1>2 DEF IInv

-----------------------------------------------------------------------------
(* One step of each action *)

LEMMA EditStep ==
  ASSUME IInv, NEW f \in Files, NEW v \in Edits, Edit(f, v)
  PROVE  IInv'
<1> USE DEF Edit, manager, cache, stored, history
<1>1. TypeOK'
  BY CheckpointAssumption DEF IInv, TypeOK, Edits, Contents, Marks, Trees
<1>2. CallOK' /\ TreeStill' /\ CopiesTaken' /\ RestoredSoFar'
  BY DEF IInv, CallOK, TreeStill, CopiesTaken, RestoredSoFar, Creating, Ahead
<1> QED BY <1>1, <1>2 DEF IInv

LEMMA CreateStep ==
  ASSUME IInv, NEW i \in Ids, NEW F \in SUBSET Files, Create(i, F)
  PROVE  IInv'
<1> USE DEF cache, Create, bounds
<1>1. TypeOK'
  <2>1. mem' \in Lists
    BY DEF IInv, TypeOK, Lists, Decisions
  <2>2. taken' \in [Ids -> Trees]
    <3>1. [g \in Files |-> IF g \in F THEN tree[g] ELSE "absent"] \in Trees
      BY DEF IInv, TypeOK, Trees, Contents, Marks
    <3> QED BY <3>1 DEF IInv, TypeOK
  <2> QED BY <2>1, <2>2 DEF IInv, TypeOK, Ops
<1>2. CallOK'
  BY DEF IInv, TypeOK, CallOK, Creating
<1>3. TreeStill'
  BY DEF IInv, TypeOK, TreeStill, Creating, Trees
<1>4. CopiesTaken'
  <2> SUFFICES ASSUME NEW j \in sound', NEW f \in covers'[j] \ Ahead(j)'
               PROVE  snaps[j][f] = Copy(taken'[j][f])
    BY DEF CopiesTaken
  <2>1. CASE j = i
    BY <2>1 DEF IInv, TypeOK, Ahead, Creating
  <2>2. CASE j # i
    <3>1. f \in covers[j] \ Ahead(j) /\ taken'[j] = taken[j] /\ j \in sound
      BY <2>2 DEF IInv, TypeOK, Ahead, Creating
    <3> QED BY <3>1 DEF IInv, CopiesTaken
  <2> QED BY <2>1, <2>2
<1>5. RestoredSoFar'
  BY DEF RestoredSoFar
<1> QED BY <1>1, <1>2, <1>3, <1>4, <1>5 DEF IInv

LEMMA LoadStep ==
  ASSUME IInv, Load
  PROVE  IInv'
<1> USE DEF Load, Fault, stored, history
<1>1. mem' \in Lists /\ faults' \in 0 .. MaxFaults
  BY CheckpointAssumption DEF IInv, TypeOK, NoEntries, Lists, Decisions
<1>2. TypeOK'
  BY <1>1 DEF IInv, TypeOK, Ops
<1>3. CallOK' /\ TreeStill' /\ CopiesTaken' /\ RestoredSoFar'
  BY DEF IInv, TypeOK, CallOK, TreeStill, CopiesTaken, RestoredSoFar, Creating, Ahead
<1> QED BY <1>2, <1>3 DEF IInv

LEMMA RestoreStep ==
  ASSUME IInv, NEW i \in Ids, Restore(i)
  PROVE  IInv'
<1> USE DEF cache, Restore, stored, history, bounds
<1>1. TypeOK'
  BY DEF IInv, TypeOK, Ops
<1>2. CallOK' /\ TreeStill' /\ CopiesTaken' /\ RestoredSoFar'
  BY DEF IInv, TypeOK, CallOK, TreeStill, CopiesTaken, RestoredSoFar, Creating, Ahead
<1> QED BY <1>1, <1>2 DEF IInv

LEMMA DecidedStep ==
  ASSUME IInv, NEW i \in Ids, NEW d \in {"promoted", "rejected"}, Decided(i, d),
         op = "idle" \/ (op = "restore" /\ todo = {})
  PROVE  IInv'
<1> USE DEF cache, Decided, stored, history, bounds
<1>1. mem' \in Lists
  BY DEF IInv, TypeOK, Lists, Decisions
<1>2. TypeOK'
  BY <1>1 DEF IInv, TypeOK, Ops
<1>3. CallOK' /\ TreeStill' /\ CopiesTaken' /\ RestoredSoFar'
  BY DEF IInv, TypeOK, CallOK, TreeStill, CopiesTaken, RestoredSoFar, Creating, Ahead
<1> QED BY <1>2, <1>3 DEF IInv

LEMMA PersistStep ==
  ASSUME IInv, PersistList
  PROVE  IInv'
<1> USE DEF cache, PersistList, history, bounds
<1>1. TypeOK'
  BY DEF IInv, TypeOK, CallOK, Creating, Ops
<1>2. CallOK' /\ TreeStill' /\ CopiesTaken' /\ RestoredSoFar'
  BY DEF IInv, TypeOK, CallOK, TreeStill, CopiesTaken, RestoredSoFar, Creating, Ahead
<1> QED BY <1>1, <1>2 DEF IInv

(* Either the copy is the content of the file or cur stops being sound.    *)
LEMMA SnappedStep ==
  ASSUME IInv, NEW f \in Files, NEW v \in Contents, Snapped(f, v),
         faults' \in 0 .. MaxFaults,
         sound' \subseteq sound,
         cur \in sound' => v = Copy(tree[f])
  PROVE  IInv'
<1> USE DEF Snapped, cache
<1>0. cur \in Ids /\ todo \subseteq covers[cur] /\ Creating
  BY DEF IInv, CallOK, Creating
<1>1. TypeOK'
  <2>1. snaps' \in [Ids -> Trees]
    BY <1>0 DEF IInv, TypeOK, Trees
  <2> QED BY <1>0, <2>1 DEF IInv, TypeOK, Ops
<1>2. CallOK'
  BY <1>0 DEF CallOK, Creating
<1>3. TreeStill'
  BY <1>0 DEF IInv, TreeStill, Creating
<1>4. CopiesTaken'
  <2> SUFFICES ASSUME NEW j \in sound', NEW g \in covers[j] \ Ahead(j)'
               PROVE  snaps'[j][g] = Copy(taken[j][g])
    BY DEF CopiesTaken
  <2>1. j \in Ids /\ g \in Files
    BY DEF IInv, TypeOK
  <2>2. CASE j = cur /\ g = f
    <3>1. snaps'[j][g] = v
      BY <1>0, <2>1, <2>2 DEF IInv, TypeOK, Trees
    <3>2. tree[f] = taken[cur][f]
      BY <1>0 DEF IInv, TreeStill
    <3> QED BY <2>2, <3>1, <3>2
  <2>3. CASE ~(j = cur /\ g = f)
    <3>1. snaps'[j][g] = snaps[j][g]
      BY <1>0, <2>1, <2>3 DEF IInv, TypeOK, Trees
    <3>2. g \notin Ahead(j)
      BY <1>0, <2>3 DEF Ahead, Creating
    <3> QED BY <3>1, <3>2 DEF IInv, CopiesTaken
  <2> QED BY <2>2, <2>3
<1>5. RestoredSoFar'
  BY DEF RestoredSoFar
<1> QED BY <1>1, <1>2, <1>3, <1>4, <1>5 DEF IInv

LEMMA RestoreFileStep ==
  ASSUME IInv, NEW f \in Files, RestoreFile(f)
  PROVE  IInv'
<1> USE DEF RestoreFile, cache, stored, history, bounds
<1>0. cur \in Ids
  BY DEF IInv, CallOK
<1>1. TypeOK'
  BY <1>0 DEF IInv, TypeOK, Trees, Ops
<1>2. CallOK' /\ TreeStill' /\ CopiesTaken'
  BY DEF IInv, CallOK, TreeStill, CopiesTaken, Creating, Ahead
<1>3. RestoredSoFar'
  BY <1>0 DEF IInv, TypeOK, RestoredSoFar, Trees
<1> QED BY <1>1, <1>2, <1>3 DEF IInv

(* A call that throws or dies leaves every sound checkpoint's copies.      *)
LEMMA AbandonedStep ==
  ASSUME IInv, Abandoned, op' \in {"idle", "down"}, mem' \in Lists, loaded' \in BOOLEAN, blind' \in BOOLEAN,
         HalfWrittenList \/ HalfWrittenSnapshot \/ HalfRestoredFile \/ NothingWritten
  PROVE  IInv'
<1> USE DEF Abandoned, Fault
<1>1. TypeOK'
  <2>1. disk' \in Lists /\ torn' \in BOOLEAN
    BY DEF IInv, TypeOK, HalfWrittenList, HalfWrittenSnapshot, HalfRestoredFile, NothingWritten
  <2>2. tree' \in Trees
    BY DEF IInv, TypeOK, Trees, Contents, Marks,
           HalfWrittenList, HalfWrittenSnapshot, HalfRestoredFile, NothingWritten
  <2>3. snaps' \in [Ids -> Trees]
    <3>1. CASE HalfWrittenSnapshot
      <4>1. PICK f \in todo, v \in {"absent", "torn"} : snaps' = [snaps EXCEPT ![cur][f] = v]
        BY <3>1 DEF HalfWrittenSnapshot
      <4>2. f \in Files /\ v \in Contents /\ cur \in Ids
        BY <3>1 DEF IInv, TypeOK, CallOK, HalfWrittenSnapshot, Contents, Marks
      <4> QED BY <4>1, <4>2 DEF IInv, TypeOK, Trees
    <3>2. CASE HalfWrittenList \/ HalfRestoredFile \/ NothingWritten
      BY <3>2 DEF IInv, TypeOK, HalfWrittenList, HalfRestoredFile, NothingWritten
    <3> QED BY <3>1, <3>2
  <2> QED BY <2>1, <2>2, <2>3, CheckpointAssumption DEF IInv, TypeOK, Ops
<1>2. CallOK' /\ TreeStill' /\ RestoredSoFar'
  BY DEF CallOK, TreeStill, RestoredSoFar, Creating
<1>3. CopiesTaken'
  <2> SUFFICES ASSUME NEW j \in sound', NEW g \in covers[j]
               PROVE  snaps'[j][g] = Copy(taken[j][g])
    BY DEF CopiesTaken
  <2>1. j \in sound /\ j \in Ids /\ g \in Files /\ ~(Creating /\ j = cur)
    BY DEF IInv, TypeOK, Creating
  <2>2. snaps[j][g] = Copy(taken[j][g])
    BY <2>1 DEF IInv, CopiesTaken, Ahead
  <2>3. CASE HalfWrittenSnapshot
    <3>1. j # cur /\ cur \in Ids
      BY <2>1, <2>3 DEF IInv, CallOK, HalfWrittenSnapshot, Creating
    <3>2. snaps'[j] = snaps[j]
      BY <2>1, <2>3, <3>1 DEF IInv, TypeOK, HalfWrittenSnapshot
    <3> QED BY <2>2, <3>2
  <2>4. CASE HalfWrittenList \/ HalfRestoredFile \/ NothingWritten
    BY <2>2, <2>4 DEF HalfWrittenList, HalfRestoredFile, NothingWritten
  <2> QED BY <2>3, <2>4
<1> QED BY <1>1, <1>2, <1>3 DEF IInv

LEMMA StepOK == IInv /\ [Next]_vars => IInv'
<1> SUFFICES ASSUME IInv, [Next]_vars PROVE IInv'
  OBVIOUS
<1>1. ASSUME NEW f \in Files, NEW v \in Edits, Edit(f, v) PROVE IInv'
  BY <1>1, EditStep
<1>2. ASSUME NEW i \in Ids, NEW F \in SUBSET Files, Create(i, F) PROVE IInv'
  BY <1>2, CreateStep
<1>3. ASSUME NEW i \in Ids, Restore(i) \/ Promote(i) PROVE IInv'
  BY <1>3, RestoreStep, DecidedStep DEF Promote
<1>4. CASE RejectRestored
  BY <1>4, DecidedStep DEF RejectRestored, IInv, CallOK
<1>5. CASE PersistList
  BY <1>5, PersistStep
<1>6. ASSUME NEW f \in Files, SnapshotFile(f) PROVE IInv'
  <2>1. Copy(tree[f]) \in Contents
    BY CopyType DEF IInv, TypeOK, Trees
  <2> QED BY <1>6, <2>1, SnappedStep DEF SnapshotFile, IInv, TypeOK
<1>7. ASSUME NEW f \in Files, SnapshotFails(f) PROVE IInv'
  <2>1. PICK v \in {"absent", "torn"} : Snapped(f, v)
    BY <1>7 DEF SnapshotFails
  <2>2. v \in Contents
    BY DEF Contents, Marks
  <2>3. faults' \in 0 .. MaxFaults /\ sound' \subseteq sound /\ cur \notin sound'
    BY <1>7, CheckpointAssumption DEF SnapshotFails, Fault, IInv, TypeOK
  <2> QED BY <2>1, <2>2, <2>3, SnappedStep
<1>8. ASSUME NEW f \in Files, RestoreFile(f) PROVE IInv'
  BY <1>8, RestoreFileStep
<1>9. CASE CallThrows
  BY <1>9, AbandonedStep DEF CallThrows, IInv, TypeOK, cache
<1>10. CASE Crash
  <2>1. NoEntries \in Lists
    BY DEF NoEntries, Lists, Decisions
  <2> QED BY <1>10, <2>1, AbandonedStep DEF Crash
<1>11. CASE Restart
  BY <1>11
  DEF Restart, IInv, TypeOK, Ops, CallOK, TreeStill, CopiesTaken, RestoredSoFar, Creating, Ahead,
      cache, stored, history, bounds
<1>13. CASE Load
  BY <1>13, LoadStep
<1>12. CASE UNCHANGED vars
  BY <1>12
  DEF vars, manager, cache, stored, history, bounds, IInv, TypeOK, CallOK, TreeStill, CopiesTaken,
      RestoredSoFar, Creating, Ahead
<1> QED
  BY <1>1, <1>2, <1>3, <1>4, <1>5, <1>6, <1>7, <1>8, <1>9, <1>10, <1>11, <1>12, <1>13 DEF Next

LEMMA Inductive == Spec => []IInv
BY InitOK, StepOK, PTL DEF Spec

(* The manager's state is well typed: a snapshot or a restore in progress  *)
(* stays within the files its checkpoint covers.                           *)
THEOREM CheckpointTypes == Spec => []TypeOK
<1>1. IInv => TypeOK
  BY DEF IInv
<1> QED BY <1>1, Inductive, PTL

(* A rollback that ran to its end restores every text file exactly, after  *)
(* any edits, interrupted rollbacks and crashes (createCheckpoint,         *)
(* restoreCheckpoint).                                                     *)
THEOREM RollbackRestores == Spec => []RestoreExact
<1>1. IInv => RestoreExact
  <2> SUFFICES ASSUME IInv, op = "restore", todo = {}, cur \in sound,
                      NEW f \in covers[cur], taken[cur][f] \in Texts \cup {"absent"}
               PROVE  tree[f] = taken[cur][f]
    BY DEF RestoreExact
  <2>1. snaps[cur][f] = Copy(taken[cur][f])
    BY DEF IInv, CopiesTaken, Ahead, Creating
  <2>2. tree[f] = snaps[cur][f]
    BY DEF IInv, RestoredSoFar
  <2> QED BY <2>1, <2>2, CopyKeepsText
<1> QED BY <1>1, Inductive, PTL

-----------------------------------------------------------------------------
(* What a restart keeps *)

LEMMA ListsAgreeStep == IInv /\ IInv' /\ ListsAgree /\ [Next]_vars => ListsAgree'
<1> SUFFICES ASSUME IInv, IInv', ListsAgree, [Next]_vars PROVE ListsAgree'
  OBVIOUS
<1> USE DEF ListsAgree, Creating
<1> USE DEF cache
<1>0. CASE Load
  BY <1>0 DEF Load, IInv, TypeOK, stored, history
<1>1. ASSUME NEW f \in Files, NEW v \in Edits, Edit(f, v) PROVE ListsAgree'
  BY <1>1 DEF Edit, manager, stored, history
<1>2. ASSUME NEW i \in Ids, NEW F \in SUBSET Files, Create(i, F) PROVE ListsAgree'
  <2>1. mem \in [Ids -> Decisions]
    BY DEF IInv, TypeOK, Lists
  <2> QED BY <1>2, <2>1 DEF Create, IInv, TypeOK, bounds
<1>3. ASSUME NEW i \in Ids, Restore(i) PROVE ListsAgree'
  BY <1>3 DEF Restore, stored, history, bounds
<1>4. ASSUME NEW i \in Ids, NEW d \in {"promoted", "rejected"}, Decided(i, d) PROVE ListsAgree'
  <2>1. mem \in [Ids -> Decisions]
    BY DEF IInv, TypeOK, Lists
  <2> QED BY <1>4, <2>1 DEF Decided, IInv, TypeOK, stored, history, bounds
<1>5. CASE PersistList
  BY <1>5 DEF PersistList, history, bounds, IInv, CallOK
<1>6. ASSUME NEW f \in Files, NEW v, Snapped(f, v) PROVE ListsAgree'
  BY <1>6 DEF Snapped
<1>7. ASSUME NEW f \in Files, RestoreFile(f) PROVE ListsAgree'
  BY <1>7 DEF RestoreFile, stored, history, bounds
<1>8. ASSUME Abandoned, op' \in {"idle", "down"},
             UNCHANGED cache \/ loaded' = FALSE,
             HalfWrittenList \/ HalfWrittenSnapshot \/ HalfRestoredFile \/ NothingWritten
      PROVE  ListsAgree'
  BY <1>8
  DEF Abandoned, HalfWrittenList, HalfWrittenSnapshot, HalfRestoredFile, NothingWritten, IInv, TypeOK
<1>9. CASE CallThrows
  BY <1>8, <1>9 DEF CallThrows
<1>10. CASE Crash
  BY <1>8, <1>10 DEF Crash
<1>11. CASE Restart
  BY <1>11 DEF Restart, stored, history, bounds
<1>12. CASE UNCHANGED vars
  BY <1>12 DEF vars, manager, cache, stored, history, bounds
<1>13. ASSUME NEW i \in Ids, Promote(i) PROVE ListsAgree'
  BY <1>4, <1>13 DEF Promote
<1>14. CASE RejectRestored
  BY <1>4, <1>14 DEF RejectRestored, IInv, CallOK
<1>15. ASSUME NEW f \in Files, SnapshotFile(f) \/ SnapshotFails(f) PROVE ListsAgree'
  BY <1>6, <1>15 DEF SnapshotFile, SnapshotFails
<1> QED
  BY <1>0, <1>1, <1>2, <1>3, <1>5, <1>7, <1>9, <1>10, <1>11, <1>12, <1>13, <1>14, <1>15 DEF Next

(* No crash, failed call or restart loses a checkpoint whose creation      *)
(* returned, unless a write of the list itself was cut short or a process  *)
(* that could not read it wrote over it (getCheckpoints,                   *)
(* persistCheckpoints).                                                    *)
THEOREM CheckpointsAreKept == Spec => []KeptUnlessLost
<1>1. Init => ListsAgree
  BY DEF Init, ListsAgree, Creating
<1>2. ListsAgree => KeptUnlessLost
  BY DEF ListsAgree, KeptUnlessLost
<1> QED BY <1>1, <1>2, ListsAgreeStep, Inductive, PTL DEF Spec
-----------------------------------------------------------------------------
(* Git: what is checked out has a snapshot; the branch of a run stays      *)
(* checked out while it lasts, and is not the one it is to be merged into. *)
Places == {"idle", "working", "commit", "report", "push", "open"}
Needs == {"needs_human_review", "needs_review", "approval"}
Asks == {"needs_human_review", "needs_review", "approval", "needsHumanReview", "none flagged"}
Found == Needs \cup {"failed"}
NoneOr(S) == S \cup {NoBranch}
GitRun == [pc : Places, task : NoneOr(Branches), working : NoneOr(Branches), base : NoneOr(Branches),
           landed : NoneOr(Branches), needs : SUBSET Needs, asks : SUBSET Asks]

TreeOK ==
  /\ onDisk \in Snapshots /\ index \in Snapshots /\ head \in Branches
  /\ branches \in [Branches -> NoneOr(Snapshots)] /\ remote \in [Branches -> NoneOr(Snapshots)]
  /\ branches[head] \in Snapshots /\ branches[MainBranch] \in Snapshots

WorkOK == work = [t \in GitTasks |-> [status |-> work[t].status, touched |-> work[t].touched]]

GitRunOK ==
  /\ gitRun \in GitRun
  /\ gitRun.pc = "idle" => gitRun.working = NoBranch
  /\ gitRun.pc # "idle" => gitRun.task \in GitTasks
  /\ gitRun.working # NoBranch =>
       gitRun.working = head /\ gitRun.base # head /\ gitRun.landed \in {NoBranch, head}
  /\ gitRun.pc \in {"commit", "report", "push", "open"} => work[gitRun.task].status = "completed"
  /\ gitRun.pc \in {"push", "open"} =>
       gitRun.working # NoBranch /\ gitRun.task \in reports /\ gitRun.needs \subseteq gitRun.asks
  /\ gitRun.pc = "open" => remote[gitRun.working] # NoBranch

RequestsOK ==
  \A r \in requests :
    /\ r.task \in GitTasks /\ r.task \in reports
    /\ r.head \in Branches /\ remote[r.head] # NoBranch

PrInv ==
  /\ TreeOK /\ WorkOK /\ GitRunOK /\ RequestsOK
  /\ \A s \in summary : s.of \in Inputs /\ s.is = PRSummary(s.of)

LEMMA PrInitOK == PrInit => PrInv
<1> SUFFICES ASSUME PrInit PROVE PrInv
  OBVIOUS
<1> DEFINE old == [f \in GitFiles |-> "old"]
<1>1. old \in Snapshots /\ old # NoBranch
  <2>1. old \in Snapshots
    BY DEF Snapshots
  <2> QED BY <2>1, PrAssumption
<1>2. /\ onDisk = old /\ index = old /\ head = MainBranch /\ remote = branches
      /\ branches = [b \in Branches |-> IF b = MainBranch THEN onDisk ELSE NoBranch]
      /\ work = [t \in GitTasks |-> [status |-> "new", touched |-> {}]]
      /\ gitRun = Idle /\ requests = {} /\ summary = {}
  BY DEF PrInit
<1> HIDE DEF old
<1>3. TreeOK
  BY <1>1, <1>2 DEF TreeOK, Branches, NoneOr
<1>4. WorkOK
  BY <1>2 DEF WorkOK
<1>5. GitRunOK
  <2>1. Idle \in GitRun
    BY DEF Idle, GitRun, NoneOr, Branches, Places, Needs, Asks
  <2>2. Idle.pc = "idle" /\ Idle.working = NoBranch
    BY DEF Idle
  <2> QED BY <1>2, <2>1, <2>2 DEF GitRunOK
<1> QED BY <1>2, <1>3, <1>4, <1>5 DEF PrInv, RequestsOK

(* A step that leaves the run, the reports and the finished tasks.         *)
LEMMA RunUntouched ==
  ASSUME PrInv, UNCHANGED <<gitRun, reports, requests, summary, remote, work>>,
         head' = head \/ gitRun.pc = "idle"
  PROVE  WorkOK' /\ GitRunOK' /\ RequestsOK' /\ (\A s \in summary : s.of \in Inputs /\ s.is = PRSummary(s.of))'
  BY DEF PrInv, WorkOK, GitRunOK, RequestsOK

LEMMA UserStepOK ==
  ASSUME PrInv,
         \/ \E f \in GitFiles : UserEdits(f) \/ UserStages(f)
         \/ UserCommits \/ \E b \in Branches : UserSwitches(b)
  PROVE  PrInv'
<1>1. /\ onDisk \in Snapshots /\ index \in Snapshots /\ head \in Branches
      /\ branches \in [Branches -> NoneOr(Snapshots)]
      /\ branches[head] \in Snapshots /\ branches[MainBranch] \in Snapshots
  BY DEF PrInv, TreeOK
<1>2. UNCHANGED <<gitRun, reports, requests, summary, remote, work>>
  BY DEF UserEdits, UserStages, UserCommits, UserSwitches, UserStep
<1>3. ASSUME NEW f \in GitFiles, UserEdits(f) PROVE PrInv'
  <2>1. onDisk' = [onDisk EXCEPT ![f] = "new"] /\ UNCHANGED <<index, head, branches, remote>>
    BY <1>3 DEF UserEdits
  <2>2. onDisk' \in Snapshots
    BY <1>1, <2>1 DEF Snapshots
  <2>3. TreeOK'
    BY <2>1, <2>2 DEF PrInv, TreeOK
  <2> QED BY <1>2, <2>1, <2>3, RunUntouched DEF PrInv
<1>4. ASSUME NEW f \in GitFiles, UserStages(f) PROVE PrInv'
  <2>1. index' = [index EXCEPT ![f] = onDisk[f]] /\ UNCHANGED <<onDisk, head, branches, remote>>
    BY <1>4 DEF UserStages
  <2>2. index' \in Snapshots
    BY <1>1, <2>1 DEF Snapshots
  <2>3. TreeOK'
    BY <2>1, <2>2 DEF PrInv, TreeOK
  <2> QED BY <1>2, <2>1, <2>3, RunUntouched DEF PrInv
<1>5. CASE UserCommits
  <2>1. branches' = [branches EXCEPT ![head] = index] /\ UNCHANGED <<onDisk, index, head, remote>>
    BY <1>5 DEF UserCommits
  <2>2. /\ branches' \in [Branches -> NoneOr(Snapshots)] /\ branches'[head] \in Snapshots
        /\ branches'[MainBranch] \in Snapshots
    BY <1>1, <2>1 DEF NoneOr, Branches
  <2>3. TreeOK'
    BY <2>1, <2>2 DEF PrInv, TreeOK
  <2> QED BY <1>2, <2>1, <2>3, RunUntouched DEF PrInv
<1>6. ASSUME NEW b \in Branches, UserSwitches(b) PROVE PrInv'
  <2> DEFINE differ == {f \in GitFiles : branches[b][f] # branches[head][f]}
  <2>1. /\ gitRun.pc = "idle" /\ branches[b] # NoBranch /\ head' = b
        /\ onDisk' = [f \in GitFiles |-> IF f \in differ THEN branches[b][f] ELSE onDisk[f]]
        /\ index' = [f \in GitFiles |-> IF f \in differ THEN branches[b][f] ELSE index[f]]
        /\ UNCHANGED <<branches, remote>>
    BY <1>6 DEF UserSwitches
  <2>2. branches[b] \in Snapshots
    BY <1>1, <2>1 DEF NoneOr
  <2> HIDE DEF differ
  <2>3. onDisk' \in Snapshots /\ index' \in Snapshots
    BY <1>1, <2>1, <2>2 DEF Snapshots
  <2>4. TreeOK'
    BY <2>1, <2>2, <2>3 DEF PrInv, TreeOK
  <2> QED BY <1>2, <2>1, <2>4, RunUntouched DEF PrInv
<1> QED BY <1>3, <1>4, <1>5, <1>6

(* A change of one task.                                                   *)
LEMMA WorkReplaced ==
  ASSUME WorkOK, NEW t \in GitTasks, NEW status, NEW files,
         work' = [work EXCEPT ![t] = [status |-> status, touched |-> files]]
  PROVE  WorkOK' /\ work'[t].status = status /\ \A u \in GitTasks : u # t => work'[u] = work[u]
<1>1. DOMAIN work = GitTasks /\ work = [u \in GitTasks |-> work[u]]
  BY DEF WorkOK
<1> DEFINE new == [status |-> status, touched |-> files]
<1>2. new = [status |-> new.status, touched |-> new.touched] /\ new.status = status
  OBVIOUS
<1> HIDE DEF new
<1>3. /\ work' = [u \in GitTasks |-> work'[u]] /\ work'[t] = new
      /\ \A u \in GitTasks : u # t => work'[u] = work[u]
  BY <1>1 DEF new
<1>4. \A u \in GitTasks : work'[u] = [status |-> work'[u].status, touched |-> work'[u].touched]
  BY <1>2, <1>3 DEF WorkOK
<1>5. WorkOK'
  BY <1>3, <1>4 DEF WorkOK
<1> QED BY <1>2, <1>3, <1>5

LEMMA FieldsOfWork ==
  ASSUME WorkOK, NEW t \in GitTasks, NEW status, NEW files
  PROVE  /\ [work EXCEPT ![t].status = status] = [work EXCEPT ![t] = [status |-> status, touched |-> work[t].touched]]
         /\ [work EXCEPT ![t].touched = files] = [work EXCEPT ![t] = [status |-> work[t].status, touched |-> files]]
<1>1. /\ [work EXCEPT ![t].status = status] = [work EXCEPT ![t] = [work[t] EXCEPT !.status = status]]
      /\ [work EXCEPT ![t].touched = files] = [work EXCEPT ![t] = [work[t] EXCEPT !.touched = files]]
  OBVIOUS
<1> DEFINE s == work[t].status
           f == work[t].touched
<1>2. work[t] = [status |-> s, touched |-> f]
  BY DEF WorkOK
<1> HIDE DEF s, f
<1>3. /\ [work[t] EXCEPT !.status = status] = [status |-> status, touched |-> f]
      /\ [work[t] EXCEPT !.touched = files] = [status |-> s, touched |-> files]
  BY <1>2
<1> QED BY <1>1, <1>3 DEF s, f

LEMMA StartStep ==
  ASSUME PrInv, NEW t \in GitTasks, StartGitBranch(t) PROVE PrInv'
<1>1. PICK autoBranch \in BOOLEAN, created \in BOOLEAN :
        /\ created = (autoBranch /\ branches[t] = NoBranch)
        /\ BeginRun(t, autoBranch, created, IF created THEN t ELSE NoBranch)
  BY DEF StartGitBranch
<1>2. /\ gitRun.pc = "idle"
      /\ work' = [work EXCEPT ![t].status = "working"]
      /\ head' = (IF created THEN t ELSE head)
      /\ branches' = (IF created THEN [branches EXCEPT ![t] = branches[head]] ELSE branches)
      /\ UNCHANGED <<onDisk, index, remote, reports, requests, summary, userSteps>>
  BY <1>1 DEF BeginRun
<1>3. PICK base \in {head, MainBranch} :
        gitRun' = [Idle EXCEPT !.pc = "working", !.task = t, !.working = IF created THEN t ELSE NoBranch,
                               !.base = IF autoBranch THEN base ELSE NoBranch]
  BY <1>1 DEF BeginRun
<1>4. WorkOK' /\ \A u \in GitTasks : u # t => work'[u] = work[u]
  <2>1. WorkOK
    BY DEF PrInv
  <2>2. work' = [work EXCEPT ![t] = [status |-> "working", touched |-> work[t].touched]]
    BY <1>2, <2>1, FieldsOfWork
  <2> QED BY <2>1, <2>2, WorkReplaced
<1>5. /\ onDisk \in Snapshots /\ index \in Snapshots /\ head \in Branches
      /\ branches \in [Branches -> NoneOr(Snapshots)] /\ remote \in [Branches -> NoneOr(Snapshots)]
      /\ branches[head] \in Snapshots /\ branches[MainBranch] \in Snapshots /\ t \in Branches
      /\ NoBranch \notin Snapshots
  BY PrAssumption DEF PrInv, TreeOK, Branches
<1>6. TreeOK'
  <2>1. /\ head' \in Branches /\ branches' \in [Branches -> NoneOr(Snapshots)]
        /\ branches'[head'] \in Snapshots /\ branches'[MainBranch] \in Snapshots
    BY <1>2, <1>5 DEF NoneOr, Branches
  <2> QED BY <1>2, <1>5, <2>1 DEF TreeOK
<1>7. GitRunOK'
  <2>1. gitRun' = [pc |-> "working", task |-> t, working |-> IF created THEN t ELSE NoBranch,
                   base |-> IF autoBranch THEN base ELSE NoBranch, landed |-> NoBranch, needs |-> {}, asks |-> {}]
    BY <1>3 DEF Idle
  <2>2. created => t # head /\ t # MainBranch /\ autoBranch
    BY <1>1, <1>5
  <2> DEFINE w == IF created THEN t ELSE NoBranch
             b == IF autoBranch THEN base ELSE NoBranch
  <2>3. w \in NoneOr(Branches) /\ b \in NoneOr(Branches) /\ t \in NoneOr(Branches) /\ NoBranch \in NoneOr(Branches)
    BY <1>5 DEF NoneOr, Branches
  <2>4. w # NoBranch => w = head' /\ b # head'
    BY <1>2, <2>2
  <2> HIDE DEF w, b
  <2>5. gitRun' = [pc |-> "working", task |-> t, working |-> w, base |-> b, landed |-> NoBranch, needs |-> {}, asks |-> {}]
    BY <2>1 DEF w, b
  <2>6. gitRun' \in GitRun
    BY <2>3, <2>5 DEF GitRun, Places
  <2>7. gitRun'.pc = "working" /\ gitRun'.task = t /\ gitRun'.working = w /\ gitRun'.base = b /\ gitRun'.landed = NoBranch
    BY <2>5
  <2> QED BY <2>4, <2>6, <2>7 DEF GitRunOK
<1>8. RequestsOK'
  BY <1>2, <1>4 DEF PrInv, RequestsOK
<1> QED BY <1>2, <1>4, <1>6, <1>7, <1>8 DEF PrInv

LEMMA TouchStep ==
  ASSUME PrInv, Working, NEW files, Touch(files), onDisk' \in Snapshots,
         UNCHANGED <<index, head, branches, remote, gitRun, reports, requests, summary>>
  PROVE  PrInv'
<1> DEFINE t == gitRun.task
<1>1. t \in GitTasks /\ WorkOK
  BY DEF PrInv, GitRunOK, Working
<1>2. work' = [work EXCEPT ![t] = [status |-> work[t].status, touched |-> work[t].touched \cup files]]
  <2>1. work' = [work EXCEPT ![t].touched = work[t].touched \cup files]
    BY DEF Touch
  <2> QED BY <1>1, <2>1, FieldsOfWork
<1>3. WorkOK' /\ \A u \in GitTasks : work'[u].status = work[u].status
  <2>1. WorkOK' /\ work'[t].status = work[t].status /\ \A u \in GitTasks : u # t => work'[u] = work[u]
    BY <1>1, <1>2, WorkReplaced
  <2> QED BY <2>1
<1>4. TreeOK'
  BY DEF PrInv, TreeOK
<1>5. GitRunOK' /\ RequestsOK'
  BY <1>3 DEF PrInv, GitRunOK, RequestsOK
<1> QED BY <1>3, <1>4, <1>5 DEF PrInv

LEMMA ToolStep ==
  ASSUME PrInv, NEW f \in GitFiles, ToolWrites(f) \/ ShellChanges(f) PROVE PrInv'
<1>1. onDisk \in Snapshots
  BY DEF PrInv, TreeOK
<1>2. CASE ToolWrites(f)
  <2>1. /\ Working /\ Touch({f}) /\ onDisk' = [onDisk EXCEPT ![f] = "new"]
        /\ UNCHANGED <<index, head, branches, remote, gitRun, reports, requests, summary>>
    BY <1>2 DEF ToolWrites
  <2>2. onDisk' \in Snapshots
    BY <1>1, <2>1 DEF Snapshots
  <2> QED BY <2>1, <2>2, TouchStep
<1>3. CASE ShellChanges(f)
  <2>1. /\ Working /\ \E files : Touch(files)
        /\ \E text \in {"new", "gone"} : onDisk' = [onDisk EXCEPT ![f] = text]
        /\ UNCHANGED <<index, head, branches, remote, gitRun, reports, requests, summary>>
    BY <1>3 DEF ShellChanges
  <2>2. onDisk' \in Snapshots
    BY <1>1, <2>1 DEF Snapshots
  <2> QED BY <2>1, <2>2, TouchStep
<1> QED BY <1>2, <1>3

LEMMA IdleIsARun == Idle \in GitRun /\ Idle.pc = "idle" /\ Idle.working = NoBranch
  BY DEF Idle, GitRun, NoneOr, Branches, Places, Needs, Asks

LEMMA IdleIsOK ==
  ASSUME gitRun' = Idle PROVE GitRunOK'
  BY IdleIsARun DEF GitRunOK

LEMMA StopStep ==
  ASSUME PrInv, RunStops PROVE PrInv'
<1>1. gitRun' = Idle /\ UNCHANGED <<onDisk, index, head, branches, remote, work, reports, requests, summary>>
  BY DEF RunStops, diskVars
<1>2. TreeOK' /\ WorkOK' /\ RequestsOK'
  BY <1>1 DEF PrInv, TreeOK, WorkOK, RequestsOK
<1> QED BY <1>1, <1>2, IdleIsOK DEF PrInv

LEMMA CompletesStep ==
  ASSUME PrInv, Completes PROVE PrInv'
<1> DEFINE t == gitRun.task
<1>1. /\ gitRun.pc = "working" /\ work' = [work EXCEPT ![t].status = "completed"]
      /\ gitRun' = [gitRun EXCEPT !.pc = "commit"]
      /\ UNCHANGED <<onDisk, index, head, branches, remote, reports, requests, summary>>
  BY DEF Completes, Working, diskVars
<1>2. t \in GitTasks /\ WorkOK /\ gitRun \in GitRun
  BY <1>1 DEF PrInv, GitRunOK
<1>3. WorkOK' /\ work'[t].status = "completed" /\ \A u \in GitTasks : u # t => work'[u] = work[u]
  <2>1. work' = [work EXCEPT ![t] = [status |-> "completed", touched |-> work[t].touched]]
    BY <1>1, <1>2, FieldsOfWork
  <2> QED BY <1>2, <2>1, WorkReplaced
<1>4. /\ gitRun' \in GitRun /\ gitRun'.pc = "commit" /\ gitRun'.task = t /\ gitRun'.working = gitRun.working
      /\ gitRun'.base = gitRun.base /\ gitRun'.landed = gitRun.landed
  BY <1>1, <1>2 DEF GitRun, Places
<1>5. GitRunOK'
  BY <1>1, <1>2, <1>3, <1>4 DEF PrInv, GitRunOK
<1>6. TreeOK'
  BY <1>1 DEF PrInv, TreeOK
<1>7. RequestsOK'
  BY <1>1, <1>3 DEF PrInv, RequestsOK
<1> QED BY <1>1, <1>3, <1>5, <1>6, <1>7 DEF PrInv

(* What the run goes on with after its commit.                             *)
LEMMA LandedIsOK ==
  ASSUME PrInv, gitRun.pc = "commit", NEW landed \in {NoBranch, head}, AfterCommit(landed),
         UNCHANGED <<head, work, reports, remote>>
  PROVE  GitRunOK'
<1>1. CASE gitRun' = Idle
  BY <1>1, IdleIsOK
<1>2. CASE gitRun' = [gitRun EXCEPT !.pc = "report", !.landed = landed]
  <2>1. gitRun \in GitRun /\ landed \in NoneOr(Branches)
    BY DEF PrInv, GitRunOK, TreeOK, NoneOr
  <2>2. /\ gitRun' \in GitRun /\ gitRun'.pc = "report" /\ gitRun'.task = gitRun.task
        /\ gitRun'.working = gitRun.working /\ gitRun'.base = gitRun.base /\ gitRun'.landed = landed
    BY <1>2, <2>1 DEF GitRun, Places
  <2> QED BY <2>2 DEF PrInv, GitRunOK
<1> QED BY <1>1, <1>2 DEF AfterCommit

LEMMA CommitStep ==
  ASSUME PrInv, Commit \/ NoCommit PROVE PrInv'
<1>1. /\ onDisk \in Snapshots /\ index \in Snapshots /\ head \in Branches
      /\ branches \in [Branches -> NoneOr(Snapshots)]
      /\ branches[head] \in Snapshots /\ branches[MainBranch] \in Snapshots
  BY DEF PrInv, TreeOK
<1>2. CASE Commit
  <2>1. /\ gitRun.pc = "commit" /\ index' = Staged(work[gitRun.task].touched)
        /\ \/ branches' = [branches EXCEPT ![head] = index'] /\ AfterCommit(head)
           \/ branches' = branches /\ AfterCommit(NoBranch)
        /\ UNCHANGED <<onDisk, head, remote, work, reports, requests, summary>>
    BY <1>2 DEF Commit
  <2>2. index' \in Snapshots
    BY <1>1, <2>1 DEF Staged, Snapshots
  <2>3. TreeOK'
    <3>1. branches' \in [Branches -> NoneOr(Snapshots)] /\ branches'[head] \in Snapshots
          /\ branches'[MainBranch] \in Snapshots
      BY <1>1, <2>1, <2>2 DEF NoneOr, Branches
    <3> QED BY <1>1, <2>1, <2>2, <3>1 DEF PrInv, TreeOK
  <2>4. GitRunOK'
    BY <2>1, LandedIsOK
  <2> QED BY <2>1, <2>3, <2>4 DEF PrInv, WorkOK, RequestsOK
<1>3. CASE NoCommit
  <2>1. /\ gitRun.pc = "commit" /\ AfterCommit(NoBranch)
        /\ UNCHANGED <<onDisk, index, head, branches, remote, work, reports, requests, summary>>
    BY <1>3 DEF NoCommit, diskVars
  <2>2. GitRunOK'
    BY <2>1, LandedIsOK
  <2>3. TreeOK'
    BY <2>1 DEF PrInv, TreeOK
  <2> QED BY <2>1, <2>2, <2>3 DEF PrInv, WorkOK, RequestsOK
<1> QED BY <1>2, <1>3

(* The report asks for all that is left to a human.                        *)
LEMMA ReportAsks ==
  ASSUME NEW found \in SUBSET Found
  PROVE  found \ {"failed"} \subseteq ReportOf(found) /\ ReportOf(found) \in SUBSET Asks
<1> DEFINE in == LegacyInput(found)
<1>1. in.checks = found \cap {"failed", "needs_human_review"} /\ in.evidence = found \cap {"needs_review"}
      /\ in.claims = {} /\ in.reviews = {} /\ in.approval = FALSE
  BY DEF LegacyInput, EmptyInput
<1> HIDE DEF in
<1>2. HumanReviewBoxes(in) = found \cap {"needs_human_review", "needs_review"}
  BY <1>1 DEF HumanReviewBoxes
<1>3. ReportOf(found) = (IF HumanReviewBoxes(in) = {} THEN {"none flagged"} ELSE HumanReviewBoxes(in))
                          \cup (found \cap {"approval"})
  BY DEF ReportOf, PRSummary, in
<1> DEFINE boxes == HumanReviewBoxes(in)
<1>4. found \ {"failed"} \subseteq boxes \cup (found \cap {"approval"}) /\ boxes \subseteq Needs
  BY <1>2 DEF Found, Needs
<1>5. boxes \subseteq ReportOf(found) /\ found \cap {"approval"} \subseteq ReportOf(found)
  BY <1>3
<1>6. ReportOf(found) \subseteq Needs \cup {"none flagged", "approval"}
  BY <1>3, <1>4
<1> QED BY <1>4, <1>5, <1>6 DEF Needs, Asks

LEMMA ReportStep ==
  ASSUME PrInv, WriteReport PROVE PrInv'
<1>1. /\ gitRun.pc = "report" /\ reports' = reports \cup {gitRun.task}
      /\ UNCHANGED <<onDisk, index, head, branches, remote, work, requests, summary>>
  BY DEF WriteReport, diskVars
<1>2. GitRunOK'
  <2>1. CASE gitRun' = Idle
    BY <2>1, IdleIsOK
  <2>2. ASSUME gitRun.working # NoBranch, NEW found \in SUBSET {"failed", "needs_human_review", "needs_review", "approval"},
               gitRun' = [gitRun EXCEPT !.pc = "push", !.needs = found \ {"failed"}, !.asks = ReportOf(found)]
        PROVE  GitRunOK'
    <3> DEFINE asks == ReportOf(found)
               needs == found \ {"failed"}
    <3>1. needs \in SUBSET Needs /\ needs \subseteq asks /\ asks \in SUBSET Asks
      BY ReportAsks DEF Needs, Found
    <3>2. gitRun \in GitRun /\ gitRun' = [gitRun EXCEPT !.pc = "push", !.needs = needs, !.asks = asks]
      BY <2>2 DEF PrInv, GitRunOK
    <3> HIDE DEF asks, needs
    <3>3. /\ gitRun' \in GitRun /\ gitRun'.pc = "push" /\ gitRun'.task = gitRun.task
          /\ gitRun'.working = gitRun.working /\ gitRun'.base = gitRun.base /\ gitRun'.landed = gitRun.landed
          /\ gitRun'.needs = needs /\ gitRun'.asks = asks
      BY <3>1, <3>2 DEF GitRun, Places
    <3> QED BY <1>1, <2>2, <3>1, <3>3 DEF PrInv, GitRunOK
  <2> QED BY <2>1, <2>2 DEF WriteReport
<1>3. TreeOK' /\ WorkOK' /\ RequestsOK'
  BY <1>1 DEF PrInv, TreeOK, WorkOK, RequestsOK
<1> QED BY <1>1, <1>2, <1>3 DEF PrInv

LEMMA PushStep ==
  ASSUME PrInv, Push PROVE PrInv'
<1>1. /\ gitRun.pc = "push"
      /\ UNCHANGED <<onDisk, index, head, branches, work, reports, requests, summary>>
  BY DEF Push
<1>2. /\ gitRun.working = head /\ gitRun.working # NoBranch /\ head \in Branches /\ branches[head] \in Snapshots
      /\ branches[head] # NoBranch /\ remote \in [Branches -> NoneOr(Snapshots)] /\ gitRun \in GitRun
  BY <1>1, PrAssumption DEF PrInv, GitRunOK, TreeOK
<1>3. CASE remote' = remote /\ gitRun' = Idle
  <2>1. TreeOK' /\ WorkOK' /\ RequestsOK'
    BY <1>1, <1>3 DEF PrInv, TreeOK, WorkOK, RequestsOK
  <2> QED BY <1>1, <1>3, <2>1, IdleIsOK DEF PrInv
<1>4. CASE remote' = [remote EXCEPT ![head] = branches[head]] /\ gitRun' = [gitRun EXCEPT !.pc = "open"]
  <2>1. /\ remote' \in [Branches -> NoneOr(Snapshots)] /\ remote'[head] # NoBranch
        /\ \A b \in Branches : remote[b] # NoBranch => remote'[b] # NoBranch
    BY <1>2, <1>4 DEF NoneOr
  <2>2. /\ gitRun' \in GitRun /\ gitRun'.pc = "open" /\ gitRun'.task = gitRun.task
        /\ gitRun'.working = gitRun.working /\ gitRun'.base = gitRun.base /\ gitRun'.landed = gitRun.landed
        /\ gitRun'.needs = gitRun.needs /\ gitRun'.asks = gitRun.asks
    BY <1>2, <1>4 DEF GitRun, Places
  <2>3. GitRunOK'
    BY <1>1, <1>2, <2>1, <2>2 DEF PrInv, GitRunOK
  <2>4. TreeOK' /\ WorkOK'
    BY <1>1, <2>1 DEF PrInv, TreeOK, WorkOK
  <2>5. RequestsOK'
    BY <1>1, <2>1 DEF PrInv, RequestsOK
  <2> QED BY <1>1, <2>3, <2>4, <2>5 DEF PrInv
<1> QED BY <1>2, <1>3, <1>4 DEF Push

LEMMA OpenStep ==
  ASSUME PrInv, OpenRequest PROVE PrInv'
<1> DEFINE new == [task |-> gitRun.task, head |-> gitRun.working, base |-> gitRun.base]
<1>1. /\ gitRun.pc = "open" /\ gitRun' = Idle /\ requests' \in {requests, requests \cup {new}}
      /\ UNCHANGED <<onDisk, index, head, branches, remote, work, reports, summary>>
  BY DEF OpenRequest, diskVars
<1>2. TreeOK' /\ WorkOK'
  BY <1>1 DEF PrInv, TreeOK, WorkOK
<1>3. /\ new.task \in GitTasks /\ new.task \in reports
      /\ new.head \in Branches /\ remote[new.head] # NoBranch
  BY <1>1 DEF PrInv, GitRunOK, TreeOK
<1> HIDE DEF new
<1>4. RequestsOK'
  BY <1>1, <1>3 DEF PrInv, RequestsOK
<1> QED BY <1>1, <1>2, <1>4, IdleIsOK DEF PrInv

LEMMA SummariseStep ==
  ASSUME PrInv, NEW in \in Inputs, Summarise(in) PROVE PrInv'
<1>1. /\ summary' = {[of |-> in, is |-> PRSummary(in)]}
      /\ UNCHANGED <<onDisk, index, head, branches, remote, work, gitRun, reports, requests>>
  BY DEF Summarise, diskVars
<1>2. TreeOK' /\ WorkOK' /\ GitRunOK' /\ RequestsOK'
  BY <1>1 DEF PrInv, TreeOK, WorkOK, GitRunOK, RequestsOK
<1> DEFINE s == [of |-> in, is |-> PRSummary(in)]
<1>3. s.of = in /\ s.is = PRSummary(in)
  OBVIOUS
<1>4. summary' = {s}
  BY <1>1
<1> HIDE DEF s
<1>5. \A r \in summary' : r.of \in Inputs /\ r.is = PRSummary(r.of)
  BY <1>3, <1>4
<1> QED BY <1>2, <1>5 DEF PrInv

LEMMA PrStepOK == PrInv /\ [PrNext \/ SummaryNext]_prVars => PrInv'
<1> SUFFICES ASSUME PrInv, [PrNext \/ SummaryNext]_prVars PROVE PrInv'
  OBVIOUS
<1>1. CASE UNCHANGED prVars
  BY <1>1 DEF prVars, PrInv, TreeOK, WorkOK, GitRunOK, RequestsOK
<1>2. CASE SummaryNext
  BY <1>2, SummariseStep DEF SummaryNext
<1>3. CASE PrNext
  BY <1>3, UserStepOK, ToolStep, StartStep, StopStep, CompletesStep, CommitStep, ReportStep, PushStep, OpenStep
     DEF PrNext
<1> QED BY <1>1, <1>2, <1>3

(* What generatePRSummary makes of any input.                              *)
LEMMA SummaryIsWhole ==
  ASSUME NEW in \in Inputs
  PROVE  LET is == PRSummary(in)
             lists == {is.actions[l] : l \in DOMAIN is.actions}
         IN /\ UNION lists = in.actions /\ \A a, b \in lists : a = b \/ a \cap b = {}
            /\ is.claims = in.claims
            /\ \A i, j \in DOMAIN is.guide : i < j => \A m \in is.guide[i], n \in is.guide[j] : m < n
            /\ is.meta.hasHumanReviewItems = (is.boxes # {})
<1> DEFINE acts == in.actions
           cls == in.claims
           chk == in.checks
           evs == in.evidence
           hrr == in.reviews
<1>1. /\ acts \in {{}} \cup {{a, b} : a, b \in ActionStatus} /\ cls \subseteq ClaimLists
      /\ hrr \subseteq {"open", "approved"} /\ chk \subseteq {"failed", "needs_human_review"} /\ evs \subseteq {"needs_review"}
      /\ in.approval \in BOOLEAN /\ in.moreVerification \in BOOLEAN /\ in.promoted \in BOOLEAN
  BY DEF Inputs
<1> DEFINE is == PRSummary(in)
           lists == {is.actions[l] : l \in DOMAIN is.actions}
<1>2. /\ is.claims = in.claims \cap ClaimLists /\ is.actions = ActionLists(in) /\ is.boxes = HumanReviewBoxes(in)
      /\ is.guide = GuideSteps(in) /\ is.meta = Meta(in)
  BY DEF PRSummary
<1> HIDE DEF is
<1>3. lists = {acts \cap {"candidate", "selected", "running"}, acts \cap {"passed", "failed", "blocked", "skipped"},
               acts \cap {"needs_human_review"}, acts \cap {"stale"}}
  BY <1>2 DEF ActionLists
<1>4. acts \subseteq ActionStatus
  BY <1>1
<1> HIDE DEF lists
<1>5. UNION lists = in.actions
  <2>1. \A a \in acts : \E l \in lists : a \in l
    BY <1>3, <1>4 DEF ActionStatus
  <2>2. \A l \in lists : l \subseteq acts
    BY <1>3
  <2> QED BY <2>1, <2>2
<1>6. \A a, b \in lists : a = b \/ a \cap b = {}
  <2> DEFINE planned == acts \cap {"candidate", "selected", "running"}
             completed == acts \cap {"passed", "failed", "blocked", "skipped"}
             review == acts \cap {"needs_human_review"}
             deferred == acts \cap {"stale"}
  <2>1. /\ planned \cap completed = {} /\ planned \cap review = {} /\ planned \cap deferred = {}
        /\ completed \cap review = {} /\ completed \cap deferred = {} /\ review \cap deferred = {}
    OBVIOUS
  <2>2. lists = {planned, completed, review, deferred}
    BY <1>3
  <2> HIDE DEF planned, completed, review, deferred
  <2> QED BY <2>1, <2>2
<1>7. is.claims = in.claims
  BY <1>1, <1>2
<1>8. is.meta.hasHumanReviewItems = (is.boxes # {})
  <2>1. is.meta.hasHumanReviewItems =
          ("needsHumanReview" \in cls \/ "open" \in hrr \/ "needs_human_review" \in chk
             \/ "needs_review" \in evs \/ in.approval)
    <3> DEFINE flag == ("needsHumanReview" \in cls \/ "open" \in hrr \/ "needs_human_review" \in chk
             \/ "needs_review" \in evs \/ in.approval)
               stale == "staleClaims" \in cls
               against == "contradictedClaims" \in cls
    <3>1. Meta(in) = [hasHumanReviewItems |-> flag, hasStaleClaims |-> stale, hasContradictedClaims |-> against]
      BY DEF Meta
    <3> HIDE DEF flag, stale, against
    <3>2. is.meta.hasHumanReviewItems = flag
      BY <1>2, <3>1
    <3> QED BY <3>2 DEF flag
  <2>2. is.boxes = (cls \cap {"needsHumanReview"}) \cup {h \in hrr : h = "open"} \cup {c \in chk : c = "needs_human_review"}
                     \cup {e \in evs : e = "needs_review"} \cup {x \in {"approval"} : in.approval}
    BY <1>1, <1>2 DEF HumanReviewBoxes
  <2>3. (is.boxes # {}) <=> ("needsHumanReview" \in cls \/ "open" \in hrr \/ "needs_human_review" \in chk
             \/ "needs_review" \in evs \/ in.approval)
    BY <2>2
  <2> QED BY <2>1, <2>3
<1>9. \A i, j \in DOMAIN is.guide : i < j => \A m \in is.guide[i], n \in is.guide[j] : m < n
  BY <1>1, <1>2 DEF GuideSteps
<1> QED BY <1>5, <1>6, <1>7, <1>8, <1>9 DEF is, lists

(* For any files, tasks, runs and steps of the user: a run's commit is on  *)
(* the branch it asks to have merged and not on the base, a request is of  *)
(* finished, pushed and reported work, a report asks for every review that *)
(* is owed, and a summary leaves nothing out (git.ts, pr-generator.ts).    *)
THEOREM RequestsStaySound == PrSpec => []PullRequestsSound
<1>1. ASSUME PrInv PROVE PullRequestsSound
  <2>1. WorkIsInTheRequest /\ RequestsAreOfFinishedWork /\ ReportsAskForWhatIsOwed
    BY <1>1 DEF PrInv, GitRunOK, RequestsOK, WorkIsInTheRequest, RequestsAreOfFinishedWork, ReportsAskForWhatIsOwed
  <2>2. SummaryLeavesNothingOut
    BY <1>1, SummaryIsWhole DEF PrInv, SummaryLeavesNothingOut
  <2> QED BY <2>1, <2>2 DEF PullRequestsSound
<1> QED BY <1>1, PrInitOK, PrStepOK, PTL DEF PrSpec
=============================================================================
