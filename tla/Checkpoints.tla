---------------------------- MODULE Checkpoints ----------------------------
(***************************************************************************)
(* The checkpoint manager (forge-verification/src/checkpoint.ts): a        *)
(* checkpoint is an entry of the task's list, a JSON file written as a     *)
(* whole, and one snapshot file for each path it covers.  The agent calls  *)
(* the tools one at a time, so only I/O errors and the death of the        *)
(* process come between the file operations of a call.                     *)
(***************************************************************************)
EXTENDS Naturals

CONSTANTS
  Files,    \* paths of the working tree
  Ids,      \* checkpoints the task may create
  Texts,    \* contents that survive a round trip through UTF-8
  MaxEdits, \* bound: edits of the tree
  MaxFaults \* bound: I/O errors and crashes

(* "locked" exists and cannot be copied (unreadable, a directory, or a     *)
(* path too long for its encoded name); "binary" is read as UTF-8 and so   *)
(* comes back "garbled"; "torn" is what an interrupted write leaves.       *)
Marks == {"absent", "locked", "binary", "garbled", "torn"}
Contents == Texts \cup Marks

(* What an editor may leave in the tree.                                   *)
Edits == Texts \cup {"absent", "locked", "binary"}

ASSUME CheckpointAssumption ==
  /\ Texts \cap Marks = {}
  /\ MaxEdits \in Nat /\ MaxFaults \in Nat

VARIABLES
  tree,      \* the working tree
  disk,      \* checkpoints/<task>.json: the decision on each of its entries
  torn,      \* it does not parse
  mem,       \* the task's checkpointCache
  loaded,    \* the cache has the task
  blind,     \* it was filled by a read that failed
  covers,    \* filesChanged of each checkpoint
  snaps,     \* the snapshot files, "absent" when there is none
  op,        \* the call in progress, see Ops
  cur,       \* the checkpoint it is about
  todo,      \* the files it has not come to yet
  taken,     \* history: the covered files when the checkpoint was created
  returned,  \* history: checkpoints whose creation returned
  sound,     \* history: those of them no I/O error went through
  lost,      \* history: the list was torn, or written over by a blind cache
  edits,     \* edits so far
  faults     \* I/O errors and crashes so far

cache == <<mem, loaded, blind>>
manager == <<cache, op, cur, todo>>
stored == <<disk, torn, covers, snaps>>
history == <<taken, returned, sound, lost>>
bounds == <<edits, faults>>
vars == <<tree, manager, stored, history, bounds>>

(* Which file the call is about to write: the list, a snapshot, or a file  *)
(* of the tree.                                                            *)
Ops == {"idle", "list", "snap", "restore", "down"}
Decisions == {"absent", "pending", "promoted", "rejected"}
Lists == [Ids -> Decisions]
Trees == [Files -> Contents]

TypeOK ==
  /\ tree \in Trees
  /\ disk \in Lists /\ torn \in BOOLEAN
  /\ mem \in Lists /\ loaded \in BOOLEAN /\ blind \in BOOLEAN
  /\ covers \in [Ids -> SUBSET Files]
  /\ snaps \in [Ids -> Trees]
  /\ op \in Ops
  /\ cur \in Ids \cup {"none"}
  /\ op \in {"snap", "restore"} => cur \in Ids /\ todo \subseteq covers[cur]
  /\ todo \subseteq Files
  /\ taken \in [Ids -> Trees]
  /\ sound \subseteq Ids /\ returned \subseteq Ids
  /\ lost \in BOOLEAN
  /\ edits \in 0 .. MaxEdits /\ faults \in 0 .. MaxFaults

-----------------------------------------------------------------------------

NoEntries == [i \in Ids |-> "absent"]

(* What readFile and writeFile make of a content.                          *)
Copy(v) ==
  IF v = "locked" THEN "absent" ELSE IF v = "binary" THEN "garbled" ELSE v

Init ==
  /\ tree \in [Files -> Edits]
  /\ disk = NoEntries /\ torn = FALSE
  /\ mem = NoEntries /\ loaded = FALSE /\ blind = FALSE
  /\ covers = [i \in Ids |-> {}]
  /\ snaps = [i \in Ids |-> [f \in Files |-> "absent"]]
  /\ op = "idle" /\ cur = "none" /\ todo = {}
  /\ taken = snaps
  /\ returned = {} /\ sound = {} /\ lost = FALSE
  /\ edits = 0 /\ faults = 0

-----------------------------------------------------------------------------
(* The calls *)

Edit(f, v) ==
  /\ op = "idle" /\ tree[f] # v
  /\ edits < MaxEdits /\ edits' = edits + 1
  /\ tree' = [tree EXCEPT ![f] = v]
  /\ UNCHANGED <<manager, stored, history, faults>>

Fault == faults < MaxFaults /\ faults' = faults + 1

(* getCheckpoints of a task the cache has not: the first await of every    *)
(* call, and all there is to a call that finds no entry.  A list that does *)
(* not parse reads as empty, and so does one that cannot be read, whatever *)
(* the error.                                                              *)
Load ==
  /\ op = "idle" /\ ~loaded /\ loaded' = TRUE
  /\ \/ mem' = (IF torn THEN NoEntries ELSE disk) /\ UNCHANGED <<blind, faults>>
     \/ mem' = NoEntries /\ blind' = TRUE /\ Fault
  /\ UNCHANGED <<tree, op, cur, todo, stored, history, edits>>

(* Mutant: every file of the tree is copied.                               *)
CreateForAll(i, F) ==
  /\ op = "idle" /\ loaded
  /\ covers[i] = {} /\ F # {}
  /\ mem' = [mem EXCEPT ![i] = "pending"]
  /\ covers' = [covers EXCEPT ![i] = F]
  /\ op' = "list" /\ cur' = i /\ todo' = Files
  /\ taken' = [taken EXCEPT ![i] = tree]
  /\ sound' = sound \cup {i}
  /\ UNCHANGED <<tree, loaded, blind, disk, torn, snaps, returned, lost, bounds>>

(* createCheckpoint up to its persistCheckpoints; an id is never reused.   *)
Create(i, F) ==
  /\ op = "idle" /\ loaded
  /\ covers[i] = {} /\ F # {}
  /\ mem' = [mem EXCEPT ![i] = "pending"]
  /\ covers' = [covers EXCEPT ![i] = F]
  /\ op' = "list" /\ cur' = i /\ todo' = F
  /\ taken' = [taken EXCEPT ![i] = [f \in Files |-> IF f \in F THEN tree[f] ELSE "absent"]]
  /\ sound' = sound \cup {i}
  /\ UNCHANGED <<tree, loaded, blind, disk, torn, snaps, returned, lost, bounds>>

(* restoreCheckpoint when the list has the entry.                          *)
Restore(i) ==
  /\ op = "idle" /\ loaded
  /\ mem[i] # "absent"
  /\ op' = "restore" /\ cur' = i /\ todo' = covers[i]
  /\ UNCHANGED <<tree, cache, stored, history, bounds>>

(* promoteCheckpoint and rejectCheckpoint up to their persistCheckpoints.  *)
(* No tool promotes; the class offers it.                                  *)
Decided(i, d) ==
  /\ loaded /\ mem[i] # "absent"
  /\ mem' = [mem EXCEPT ![i] = d]
  /\ op' = "list" /\ cur' = i /\ todo' = {}
  /\ UNCHANGED <<tree, loaded, blind, stored, history, bounds>>

Promote(i) == op = "idle" /\ Decided(i, "promoted")

(* rollback_checkpoint rejects what it has restored.                       *)
RejectRestored == op = "restore" /\ todo = {} /\ Decided(cur, "rejected")

-----------------------------------------------------------------------------
(* Their file operations *)

(* Mutant: only the cache learns of it.                                    *)
PersistLater ==
  /\ op = "list"
  /\ op' = IF todo = {} THEN "idle" ELSE "snap"
  /\ cur' = IF todo = {} THEN "none" ELSE cur
  /\ UNCHANGED <<tree, stored, cache, todo, history, bounds>>

PersistList ==
  /\ op = "list"
  /\ disk' = mem /\ torn' = FALSE
  /\ lost' = (lost \/ blind)
  /\ op' = IF todo = {} THEN "idle" ELSE "snap"
  /\ cur' = IF todo = {} THEN "none" ELSE cur
  /\ UNCHANGED <<tree, cache, todo, covers, snaps, taken, returned, sound, bounds>>

(* The next file is done; the call returns after the last one.             *)
Snapped(f, v) ==
  /\ op = "snap" /\ f \in todo
  /\ snaps' = [snaps EXCEPT ![cur][f] = v]
  /\ todo' = todo \ {f}
  /\ op' = IF todo' = {} THEN "idle" ELSE "snap"
  /\ cur' = IF todo' = {} THEN "none" ELSE cur
  /\ returned' = IF todo' = {} THEN returned \cup {cur} ELSE returned
  /\ UNCHANGED <<tree, cache, disk, torn, covers, taken, lost, edits>>

SnapshotFile(f) == Snapped(f, Copy(tree[f])) /\ UNCHANGED <<sound, faults>>

(* The copy fails or stops half way; the error is swallowed.               *)
SnapshotFails(f) ==
  /\ \E v \in {"absent", "torn"} : Snapped(f, v)
  /\ sound' = sound \ {cur}
  /\ Fault

(* Mutant: files made since the checkpoint stay.                           *)
RestoreCopied(f) ==
  /\ op = "restore" /\ f \in todo
  /\ tree' = IF snaps[cur][f] = "absent" THEN tree ELSE [tree EXCEPT ![f] = snaps[cur][f]]
  /\ todo' = todo \ {f}
  /\ UNCHANGED <<cache, op, cur, stored, history, bounds>>

RestoreFile(f) ==
  /\ op = "restore" /\ f \in todo
  /\ tree' = [tree EXCEPT ![f] = snaps[cur][f]]
  /\ todo' = todo \ {f}
  /\ UNCHANGED <<cache, op, cur, stored, history, bounds>>

-----------------------------------------------------------------------------
(* Errors and crashes *)

(* What a file operation that is cut short leaves.                         *)
HalfWrittenList ==
  /\ op = "list"
  /\ \/ torn' = TRUE /\ UNCHANGED disk
     \/ torn' = FALSE /\ disk' = mem
  /\ UNCHANGED <<tree, snaps>>

HalfWrittenSnapshot ==
  /\ op = "snap"
  /\ \E f \in todo, v \in {"absent", "torn"} : snaps' = [snaps EXCEPT ![cur][f] = v]
  /\ UNCHANGED <<tree, disk, torn>>

HalfRestoredFile ==
  /\ op = "restore"
  /\ \E f \in {g \in todo : snaps[cur][g] # "absent"} :
       tree' = [tree EXCEPT ![f] = "torn"]
  /\ UNCHANGED <<disk, torn, snaps>>

NothingWritten == UNCHANGED <<tree, disk, torn, snaps>>

(* The creation of cur ends before it returned.                            *)
Abandoned ==
  /\ sound' = IF op = "snap" \/ (op = "list" /\ todo # {}) THEN sound \ {cur} ELSE sound
  /\ lost' = (lost \/ torn' \/ (blind /\ disk' # disk))
  /\ todo' = {} /\ cur' = "none"
  /\ Fault
  /\ UNCHANGED <<covers, taken, returned, edits>>

(* The list, a file to restore, or the directory of the snapshots cannot   *)
(* be written: the call throws and the tool reports the error.  The cache  *)
(* keeps what was pushed.                                                  *)
CallThrows ==
  /\ \/ op \in {"list", "restore"}
     \/ op = "snap" /\ todo = covers[cur]
  /\ HalfWrittenList \/ HalfRestoredFile \/ NothingWritten
  /\ Abandoned
  /\ op' = "idle" /\ UNCHANGED cache

Crash ==
  /\ op # "down"
  /\ HalfWrittenList \/ HalfWrittenSnapshot \/ HalfRestoredFile \/ NothingWritten
  /\ Abandoned
  /\ op' = "down" /\ mem' = NoEntries /\ loaded' = FALSE /\ blind' = FALSE

(* The task is resumed with a new manager.                                 *)
Restart ==
  /\ op = "down"
  /\ op' = "idle"
  /\ UNCHANGED <<tree, cache, cur, todo, stored, history, bounds>>

-----------------------------------------------------------------------------

Next ==
  \/ \E f \in Files, v \in Edits : Edit(f, v)
  \/ Load
  \/ \E i \in Ids, F \in SUBSET Files : Create(i, F)
  \/ \E i \in Ids : Restore(i) \/ Promote(i)
  \/ RejectRestored \/ PersistList
  \/ \E f \in Files : SnapshotFile(f) \/ SnapshotFails(f) \/ RestoreFile(f)
  \/ CallThrows \/ Crash \/ Restart

Spec == Init /\ [][Next]_vars

-----------------------------------------------------------------------------
(* Properties *)

(* A rollback that ran to its end has brought every file it covers that    *)
(* was text or absent back to what it was when the checkpoint was created, *)
(* whatever was edited, rolled back, interrupted or retried in between,    *)
(* provided the creation met no I/O error (createCheckpoint,               *)
(* restoreCheckpoint).                                                     *)
RestoreExact ==
  op = "restore" /\ todo = {} /\ cur \in sound =>
    \A f \in covers[cur] :
      taken[cur][f] \in Texts \cup {"absent"} => tree[f] = taken[cur][f]

(* As long as the list was neither torn by an interrupted write nor        *)
(* written over by a process that could not read it, every checkpoint      *)
(* whose creation returned is on disk over any number of restarts, and can *)
(* be rolled back to by every process that could read the list             *)
(* (getCheckpoints, persistCheckpoints).                                   *)
KeptUnlessLost ==
  ~lost => \A i \in returned : disk[i] # "absent" /\ (loaded /\ ~blind => mem[i] # "absent")

(* Contradicted by the code: a file the snapshot skipped because it could  *)
(* not be read is left alone by a rollback, which "simply won't restore    *)
(* it" (the comment in snapshotFiles).                                     *)
SkippedIsLeftAlone ==
  [][\A f \in Files :
       op = "restore" /\ cur \in sound /\ f \in todo \ todo' /\ taken[cur][f] = "locked" =>
         tree'[f] = tree[f]]_vars
=============================================================================
