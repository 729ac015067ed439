---------------------------- MODULE ArtifactStore ----------------------------
(***************************************************************************)
(* ArtifactStore (artifact-store.ts): bytes on disk, metadata rows in the  *)
(* database, no transaction over the two.  Writers, a reader and a pruner  *)
(* interleave at every await; a crash ends all of them.  A content stands  *)
(* for its sha256: different contents, different hashes.                   *)
(***************************************************************************)
EXTENDS FiniteSets

CONSTANTS Paths,     \* absolute paths under rootDir
          Bytes,     \* byte strings
          Writers,   \* concurrent write() calls; each names its own row
          Absent     \* no file

ASSUME AbsentIsNoContent == Absent \notin Bytes

VARIABLES blobs,      \* path -> bytes
          rows,      \* the artifacts table: [id, path, hash]
          writer,    \* per write() call: pc, path, bytes
          reader,    \* get(): pc, the row it read, what it returned
          pruner,    \* pruneOrphans(false): pc, rows seen, files left to unlink
          unlinked   \* history: <<path, was it in a row the pruner saw>>

artVars == <<blobs, rows, writer, reader, pruner, unlinked>>

ArtRow == [id : Writers, path : Paths, hash : Bytes]
NoPath == CHOOSE p \in Paths : TRUE
NoBytes == CHOOSE c \in Bytes : TRUE

IdleWriter == [pc |-> "idle", path |-> NoPath, bytes |-> NoBytes]
IdleReader == [pc |-> "idle", row |-> {}, got |-> {}]
IdlePruner == [pc |-> "idle", indexed |-> {}, list |-> {}]

(* write(), writeWithRepo(): mkdir, writeFile - over whatever is there.    *)
WriteFile(w) ==
  /\ writer[w].pc = "idle"
  /\ \E p \in Paths, c \in Bytes :
       /\ blobs' = [blobs EXCEPT ![p] = c]
       /\ writer' = [writer EXCEPT ![w] = [pc |-> "written", path |-> p, bytes |-> c]]
  /\ UNCHANGED <<rows, reader, pruner, unlinked>>

(* insert the row; the statement may fail, or the transaction around it    *)
(* may roll back: the bytes stay behind.                                   *)
InsertRow(w) ==
  /\ writer[w].pc = "written"
  /\ rows' = rows \cup {[id |-> w, path |-> writer[w].path, hash |-> writer[w].bytes]}
  /\ writer' = [writer EXCEPT ![w].pc = "done"]
  /\ UNCHANGED <<blobs, reader, pruner, unlinked>>

InsertRollsBack(w) ==
  /\ writer[w].pc = "written"
  /\ writer' = [writer EXCEPT ![w].pc = "done"]
  /\ UNCHANGED <<blobs, rows, reader, pruner, unlinked>>

(* get(id): the row, then the file, then the hash check.                   *)
GetRow ==
  /\ reader.pc \in {"idle", "returned", "threw"}
  /\ \E r \in rows : reader' = [pc |-> "row", row |-> {r}, got |-> {}]
  /\ UNCHANGED <<blobs, rows, writer, pruner, unlinked>>

\* Mutant: no hash check.
VerifiedUnchecked(r, bytes) == bytes # Absent

Verified(r, bytes) == bytes # Absent /\ bytes = r.hash

GetBytes ==
  /\ reader.pc = "row"
  /\ LET r == CHOOSE r \in reader.row : TRUE IN
       reader' = IF Verified(r, blobs[r.path])
                 THEN [reader EXCEPT !.pc = "returned", !.got = {blobs[r.path]}]
                 ELSE [reader EXCEPT !.pc = "threw"]
  /\ UNCHANGED <<blobs, rows, writer, pruner, unlinked>>

(* pruneOrphans(false): listOrphanPaths selects the rows, walks the tree,  *)
(* then each file of the list is unlinked.                                 *)
PruneSelect ==
  /\ pruner.pc = "idle"
  /\ pruner' = [IdlePruner EXCEPT !.pc = "selected", !.indexed = {r.path : r \in rows}]
  /\ UNCHANGED <<blobs, rows, writer, reader, unlinked>>

Orphans(indexed) == {p \in Paths : blobs[p] # Absent /\ p \notin indexed}

PruneWalk ==
  /\ pruner.pc = "selected"
  /\ pruner' = [pruner EXCEPT !.pc = "unlinking", !.list = Orphans(pruner.indexed)]
  /\ UNCHANGED <<blobs, rows, writer, reader, unlinked>>

PruneUnlink ==
  /\ pruner.pc = "unlinking"
  /\ \E p \in pruner.list :
       /\ blobs' = [blobs EXCEPT ![p] = Absent]
       /\ unlinked' = unlinked \cup {[path |-> p, known |-> p \in pruner.indexed]}
       /\ pruner' = [pruner EXCEPT !.list = @ \ {p}]
  /\ UNCHANGED <<rows, writer, reader>>

PruneReturns ==
  /\ pruner.pc = "unlinking" /\ pruner.list = {}
  /\ pruner' = IdlePruner
  /\ UNCHANGED <<blobs, rows, writer, reader, unlinked>>

(* The process dies: calls are gone, bytes and rows stay.                  *)
ArtCrash ==
  /\ \E w \in Writers : writer[w].pc = "written"
  /\ writer' = [w \in Writers |-> IF writer[w].pc = "written" THEN [writer[w] EXCEPT !.pc = "done"]
                                  ELSE writer[w]]
  /\ reader' = IdleReader /\ pruner' = IdlePruner
  /\ UNCHANGED <<blobs, rows, unlinked>>

ArtInit ==
  /\ blobs = [p \in Paths |-> Absent]
  /\ rows = {}
  /\ writer = [w \in Writers |-> IdleWriter]
  /\ reader = IdleReader /\ pruner = IdlePruner
  /\ unlinked = {}

ArtNext ==
  \/ \E w \in Writers : WriteFile(w) \/ InsertRow(w) \/ InsertRollsBack(w)
  \/ GetRow \/ GetBytes
  \/ PruneSelect \/ PruneWalk \/ PruneUnlink \/ PruneReturns
  \/ ArtCrash

ArtSpec == ArtInit /\ [][ArtNext]_artVars
-----------------------------------------------------------------------------
ArtTypeOK ==
  /\ blobs \in [Paths -> Bytes \cup {Absent}]
  /\ rows \subseteq ArtRow
  /\ \A w \in Writers : writer[w].pc \in {"idle", "written", "done"}
  /\ reader.row \subseteq ArtRow /\ reader.got \subseteq Bytes
  /\ pruner.list \subseteq Paths

(* get() returns exactly the bytes its row was written with, although the  *)
(* path may have been written again or pruned since.                       *)
GetIsExact == \A r \in reader.row : reader.got \subseteq {r.hash}

(* pruneOrphans never unlinks a file of a row it could see when it began.  *)
PruneSparesIndexed == \A u \in unlinked : ~u.known

(* Files and rows agree for whoever reads, writes, rolls back or prunes.    *)
ArtifactsSound == ArtTypeOK /\ GetIsExact /\ PruneSparesIndexed
=============================================================================
