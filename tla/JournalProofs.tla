--------------------------- MODULE JournalProofs ---------------------------
(* What the files and the database keep of a run, whoever crashes or       *)
(* overlaps: artifacts and their rows, the ledgers under stateDir, and     *)
(* what the runs of one task leave behind.                                 *)
EXTENDS ArtifactStore, FileLedgers, DurableRun, TLAPS

(* Artifacts: a writer between its file and its row knows both, a reader   *)
(* has one row and returns its hash only, a pruner's list has no file of a *)
(* row it saw.                                                             *)
WritersOK ==
  /\ DOMAIN writer = Writers /\ writer = [w \in Writers |-> writer[w]]
  /\ \A w \in Writers :
       /\ writer[w].pc \in {"idle", "written", "done"}
       /\ writer[w].pc = "written" => writer[w].path \in Paths /\ writer[w].bytes \in Bytes

ReaderOK ==
  /\ reader \in [pc : {"idle", "row", "returned", "threw"}, row : SUBSET ArtRow, got : SUBSET Bytes]
  /\ \A r, s \in reader.row : r = s
  /\ reader.pc = "row" => reader.row # {}
  /\ reader.pc # "returned" => reader.got = {}

PrunerOK ==
  /\ pruner \in [pc : {"idle", "selected", "unlinking"}, indexed : SUBSET Paths, list : SUBSET Paths]
  /\ pruner.list \cap pruner.indexed = {}

ArtInv ==
  /\ blobs \in [Paths -> Bytes \cup {Absent}] /\ rows \subseteq ArtRow
  /\ WritersOK /\ ReaderOK /\ PrunerOK /\ GetIsExact /\ PruneSparesIndexed

LEMMA ArtInitOK == ArtInit => ArtInv
BY DEF ArtInit, ArtInv, WritersOK, ReaderOK, PrunerOK, GetIsExact, PruneSparesIndexed, IdleWriter, IdleReader, IdlePruner

LEMMA WriterStep ==
  ASSUME ArtInv, NEW w \in Writers, WriteFile(w) \/ InsertRow(w) \/ InsertRollsBack(w)
  PROVE  ArtInv'
<1>1. UNCHANGED <<reader, pruner, unlinked>>
  BY DEF WriteFile, InsertRow, InsertRollsBack
<1>2. ReaderOK' /\ PrunerOK' /\ GetIsExact' /\ PruneSparesIndexed'
  BY <1>1 DEF ArtInv, ReaderOK, PrunerOK, GetIsExact, PruneSparesIndexed, ArtRow
<1>3. CASE WriteFile(w)
  <2>1. PICK p \in Paths, c \in Bytes :
          /\ blobs' = [blobs EXCEPT ![p] = c]
          /\ writer' = [writer EXCEPT ![w] = [pc |-> "written", path |-> p, bytes |-> c]]
    BY <1>3 DEF WriteFile
  <2>2. blobs' \in [Paths -> Bytes \cup {Absent}] /\ rows' \subseteq ArtRow
    BY <1>3, <2>1 DEF ArtInv, WriteFile
  <2>3. WritersOK'
    BY <2>1 DEF ArtInv, WritersOK
  <2> QED BY <1>2, <2>2, <2>3 DEF ArtInv
<1>4. CASE InsertRow(w) \/ InsertRollsBack(w)
  <2>1. blobs' \in [Paths -> Bytes \cup {Absent}] /\ rows' \subseteq ArtRow
    BY <1>4 DEF ArtInv, WritersOK, InsertRow, InsertRollsBack, ArtRow
  <2>2. writer' = [writer EXCEPT ![w] = [@ EXCEPT !.pc = "done"]]
    BY <1>4 DEF InsertRow, InsertRollsBack
  <2>3. WritersOK'
    <3>1. [writer[w] EXCEPT !.pc = "done"].pc = "done"
      BY <1>4 DEF InsertRow, InsertRollsBack
    <3> QED BY <2>2, <3>1 DEF ArtInv, WritersOK
  <2> QED BY <1>2, <2>1, <2>3 DEF ArtInv
<1> QED BY <1>3, <1>4

LEMMA ReaderStep ==
  ASSUME ArtInv, GetRow \/ GetBytes
  PROVE  ArtInv'
<1>1. UNCHANGED <<blobs, rows, writer, pruner, unlinked>>
  BY DEF GetRow, GetBytes
<1>2. ReaderOK' /\ GetIsExact'
  <2>1. CASE GetRow
    BY <2>1 DEF GetRow, ArtInv, ReaderOK, GetIsExact
  <2>2. CASE GetBytes
    <3> DEFINE r == CHOOSE r \in reader.row : TRUE
    <3>1. reader.row = {r} /\ r \in ArtRow
      BY <2>2 DEF GetBytes, ArtInv, ReaderOK
    <3>2. r.path \in Paths /\ r.hash \in Bytes
      BY <3>1 DEF ArtRow
    <3>3. reader' = IF Verified(r, blobs[r.path])
                    THEN [reader EXCEPT !.pc = "returned", !.got = {blobs[r.path]}]
                    ELSE [reader EXCEPT !.pc = "threw"]
      BY <2>2 DEF GetBytes
    <3> HIDE DEF r
    <3>4. CASE Verified(r, blobs[r.path])
      BY <2>2, <3>1, <3>2, <3>3, <3>4 DEF Verified, ArtInv, ReaderOK, GetIsExact
    <3>5. CASE ~Verified(r, blobs[r.path])
      BY <2>2, <3>1, <3>3, <3>5 DEF ArtInv, ReaderOK, GetIsExact, GetBytes
    <3> QED BY <3>4, <3>5
  <2> QED BY <2>1, <2>2
<1> QED BY <1>1, <1>2 DEF ArtInv, WritersOK, PrunerOK, PruneSparesIndexed, ArtRow

LEMMA PrunerStep ==
  ASSUME ArtInv, PruneSelect \/ PruneWalk \/ PruneUnlink \/ PruneReturns
  PROVE  ArtInv'
<1>1. UNCHANGED <<rows, writer, reader>>
  BY DEF PruneSelect, PruneWalk, PruneUnlink, PruneReturns
<1>2. blobs' \in [Paths -> Bytes \cup {Absent}]
  BY DEF ArtInv, PruneSelect, PruneWalk, PruneUnlink, PruneReturns
<1>3. PrunerOK' /\ PruneSparesIndexed'
  <2>1. CASE PruneSelect
    <3> DEFINE seen == {r.path : r \in rows}
    <3>1. seen \subseteq Paths
      BY DEF ArtInv, ArtRow
    <3>2. pruner' = [pc |-> "selected", indexed |-> seen, list |-> {}] /\ unlinked' = unlinked
      BY <2>1 DEF PruneSelect, IdlePruner
    <3> HIDE DEF seen
    <3> QED BY <3>1, <3>2 DEF ArtInv, PrunerOK, PruneSparesIndexed
  <2>2. CASE PruneWalk
    BY <2>2 DEF PruneWalk, Orphans, ArtInv, PrunerOK, PruneSparesIndexed
  <2>3. CASE PruneUnlink
    <3>1. PICK p \in pruner.list :
            /\ unlinked' = unlinked \cup {[path |-> p, known |-> p \in pruner.indexed]}
            /\ pruner' = [pruner EXCEPT !.list = @ \ {p}]
      BY <2>3 DEF PruneUnlink
    <3>2. ~[path |-> p, known |-> p \in pruner.indexed].known
      BY DEF ArtInv, PrunerOK
    <3>3. PruneSparesIndexed'
      BY <3>1, <3>2 DEF ArtInv, PruneSparesIndexed
    <3>4. PrunerOK'
      BY <3>1 DEF ArtInv, PrunerOK
    <3> QED BY <3>3, <3>4
  <2>4. CASE PruneReturns
    BY <2>4 DEF PruneReturns, ArtInv, PrunerOK, PruneSparesIndexed, IdlePruner
  <2> QED BY <2>1, <2>2, <2>3, <2>4
<1> QED BY <1>1, <1>2, <1>3 DEF ArtInv, WritersOK, ReaderOK, GetIsExact, ArtRow

LEMMA ArtStepOK == ArtInv /\ [ArtNext]_artVars => ArtInv'
<1> SUFFICES ASSUME ArtInv, [ArtNext]_artVars PROVE ArtInv'
  OBVIOUS
<1>1. CASE ArtCrash
  <2>1. WritersOK'
    <3>1. \A w \in Writers : [writer[w] EXCEPT !.pc = "done"].pc = "done" \/ writer[w].pc # "written"
      OBVIOUS
    <3> QED BY <1>1, <3>1 DEF ArtCrash, ArtInv, WritersOK
  <2>2. ReaderOK' /\ PrunerOK' /\ GetIsExact' /\ PruneSparesIndexed'
    BY <1>1 DEF ArtCrash, ArtInv, ReaderOK, PrunerOK, GetIsExact, PruneSparesIndexed, IdleReader, IdlePruner
  <2> QED BY <1>1, <2>1, <2>2 DEF ArtCrash, ArtInv, ArtRow
<1>2. CASE UNCHANGED artVars
  BY <1>2 DEF artVars, ArtInv, WritersOK, ReaderOK, PrunerOK, GetIsExact, PruneSparesIndexed, ArtRow
<1> QED BY <1>1, <1>2, WriterStep, ReaderStep, PrunerStep DEF ArtNext

(* However writers, readers, a pruner and a crash interleave, get() gives  *)
(* the bytes its row was written with or throws, and no file of a row the  *)
(* pruner could see is unlinked (ArtifactStore.get, pruneOrphans).         *)
THEOREM ArtifactsStaySound == ArtSpec => []ArtifactsSound
<1>1. ArtInv => ArtifactsSound
  BY DEF ArtInv, WritersOK, ReaderOK, PrunerOK, ArtifactsSound, ArtTypeOK
<1> QED BY <1>1, ArtInitOK, ArtStepOK, PTL DEF ArtSpec
-----------------------------------------------------------------------------
(* The ledgers under stateDir                                              *)
Levels == {"absent", "added", "updated"}

LedgerTypes ==
  /\ file \in [state : {"missing", "torn", "whole"}, ledger : Ledger]
  /\ cache \in [Engines -> [held : BOOLEAN, ledger : Ledger]]
  /\ writing \in [Engines -> [op : {"none", "add", "human", "update", "create"}, id : EntryIds]]
  /\ owed \in Ledger
  /\ dirty \subseteq Engines /\ behind \subseteq Engines

(* Only an engine that holds a ledger writes one, and while one does the   *)
(* file is torn.                                                           *)
HeldOnly ==
  /\ \A e \in Engines :
       ~cache[e].held => cache[e].ledger = NoEntries /\ ~Busy(e) /\ e \notin dirty /\ e \notin behind
  /\ \A e \in Engines : Busy(e) => file.state = "torn"
  /\ file.state = "missing" => file.ledger = NoEntries

(* What is owed of an entry is in the ledger l, or in that of an engine    *)
(* whose write was rejected.                                               *)
Kept(l, D, i) == AtLeast(l[i], owed[i]) \/ \E d \in D : AtLeast(cache[d].ledger[i], owed[i])

WritersKeep == \A e \in Engines : Busy(e) => \A i \in EntryIds : Kept(cache[e].ledger, dirty, i)

(* An engine that nobody overtook has what the file has, and more only     *)
(* when its own write was rejected.                                        *)
CachesFollow ==
  file.state # "torn" => \A e \in Engines :
    cache[e].held /\ e \notin behind =>
      /\ Covers(cache[e].ledger, file.ledger)
      /\ e \notin dirty => cache[e].ledger = file.ledger

LedgerInv == LedgerTypes /\ HeldOnly /\ LedgersKeep /\ WritersKeep /\ CachesFollow

LEMMA LevelsOrdered ==
  /\ \A s \in Levels : AtLeast(s, s) /\ AtLeast(s, "absent") /\ AtLeast("updated", s)
  /\ \A s, t, u \in Levels : AtLeast(s, t) /\ AtLeast(t, u) => AtLeast(s, u)
BY DEF Levels, AtLeast

LEMMA LedgersOrdered ==
  /\ NoEntries \in Ledger
  /\ \A l \in Ledger : \A i \in EntryIds : l[i] \in Levels
  /\ \A l \in Ledger : Covers(l, l) /\ Covers(l, NoEntries)
  /\ \A l, m, n \in Ledger : Covers(l, m) /\ Covers(m, n) => Covers(l, n)
<1>1. NoEntries \in Ledger /\ \A i \in EntryIds : NoEntries[i] = "absent"
  BY DEF NoEntries, Ledger
<1>2. \A l \in Ledger : \A i \in EntryIds : l[i] \in Levels
  BY DEF Ledger, Levels
<1> QED BY <1>1, <1>2, LevelsOrdered DEF Covers

(* The ledger a caller starts from has what is owed, unless another engine *)
(* came first or writes.                                                   *)
LEMMA LedgerOfKeeps ==
  ASSUME LedgerInv, NEW e \in Engines, ~Busy(e), NEW readable \in BOOLEAN, ~Blind(e, readable),
         cache[e].held \/ kind # "trace" \/ file.state = "missing"
  PROVE  /\ LedgerOf(e, readable) \in Ledger
         /\ cache[e].held => LedgerOf(e, readable) = cache[e].ledger
         /\ file.state # "torn" /\ e \notin behind => Covers(LedgerOf(e, readable), file.ledger)
         /\ e \notin behind /\ ~OtherWrites(e) =>
              /\ \A i \in EntryIds : Kept(LedgerOf(e, readable), dirty \ {e}, i)
              /\ dirty \subseteq {e} => Covers(LedgerOf(e, readable), owed)
<1> DEFINE l == LedgerOf(e, readable)
<1> USE LevelsOrdered, LedgersOrdered
<1>1. l \in Ledger /\ (cache[e].held => l = cache[e].ledger)
  BY DEF LedgerInv, LedgerTypes, LedgerOf
<1>2. CASE cache[e].held
  <2>1. file.state # "torn" /\ e \notin behind => Covers(l, file.ledger)
    BY <1>1, <1>2 DEF LedgerInv, CachesFollow
  <2>2. ASSUME e \notin behind, ~OtherWrites(e) PROVE \A i \in EntryIds : Kept(l, dirty \ {e}, i)
    <3> SUFFICES ASSUME NEW i \in EntryIds PROVE Kept(l, dirty \ {e}, i)
      OBVIOUS
    <3>1. owed[i] \in Levels /\ file.ledger[i] \in Levels /\ l[i] \in Levels
      BY <1>1 DEF LedgerInv, LedgerTypes
    <3>2. CASE owed = NoEntries
      BY <3>1, <3>2 DEF NoEntries, Kept
    <3>3. CASE file.state # "torn" /\ AtLeast(file.ledger[i], owed[i])
      BY <2>1, <2>2, <3>1, <3>3 DEF Covers, Kept
    <3>4. ASSUME NEW d \in dirty, AtLeast(cache[d].ledger[i], owed[i]) PROVE Kept(l, dirty \ {e}, i)
      BY <1>1, <1>2, <3>4 DEF Kept
    <3>5. ~(\E o \in Engines : Busy(o))
      BY <2>2 DEF OtherWrites, Others
    <3> QED BY <3>2, <3>3, <3>4, <3>5 DEF LedgerInv, LedgersKeep
  <2>3. e \notin behind /\ dirty \subseteq {e} => Covers(l, owed)
    BY <1>1, <1>2 DEF LedgerInv, LedgersKeep
  <2> QED BY <1>1, <2>1, <2>2, <2>3
<1>3. CASE ~cache[e].held
  <2>1. e \notin dirty /\ cache[e].ledger = NoEntries
    BY <1>3 DEF LedgerInv, HeldOnly
  <2>2. file.state # "torn" => l = file.ledger
    BY <1>3, <2>1 DEF LedgerInv, HeldOnly, LedgerTypes, LedgerOf, Found, Blind
  <2>3. file.ledger \in Ledger /\ owed \in Ledger
    BY DEF LedgerInv, LedgerTypes
  <2>4. ASSUME ~OtherWrites(e), NEW i \in EntryIds PROVE Kept(l, dirty \ {e}, i)
    <3>1. ~(\E o \in Engines : Busy(o))
      BY <2>4 DEF OtherWrites, Others
    <3>2. CASE owed = NoEntries
      BY <1>1, <3>2 DEF NoEntries, Kept
    <3> QED BY <2>1, <2>2, <3>1, <3>2 DEF LedgerInv, LedgersKeep, Kept
  <2>5. ~OtherWrites(e) /\ dirty \subseteq {e} => Covers(l, owed)
    BY <2>1, <2>4 DEF Kept, Covers
  <2> QED BY <1>1, <1>3, <2>2, <2>3, <2>4, <2>5
<1> QED BY <1>2, <1>3

(* A write that leaves what is owed begins with a ledger that has it.      *)
HasOwed(e, l) ==
  /\ owed' = owed /\ ~OtherWrites(e)
  /\ \A j \in EntryIds : Kept(l, dirty \ {e}, j)
  /\ e \notin behind /\ dirty \subseteq {e} => Covers(l, owed)

LEMMA BeginWriteKeeps ==
  ASSUME LedgerInv, NEW e \in Engines, ~Busy(e), NEW l \in Ledger,
         NEW op \in {"add", "human", "update", "create"}, NEW i \in EntryIds, BeginWrite(e, l, op, i),
         owed' = NoEntries \/ HasOwed(e, l)
  PROVE  LedgerInv'
<1> USE LevelsOrdered, LedgersOrdered
<1> USE DEF HasOwed
<1>1. /\ cache' = [cache EXCEPT ![e] = [held |-> TRUE, ledger |-> l]]
      /\ file' = [file EXCEPT !.state = "torn"]
      /\ writing' = [writing EXCEPT ![e] = [op |-> op, id |-> i]]
      /\ behind' = {o \in Others(e) : cache[o].held} \cup (behind \cap {e})
      /\ dirty' = dirty \ {e}
  BY DEF BeginWrite
<1>2. LedgerTypes'
  BY <1>1 DEF LedgerInv, LedgerTypes, Others
<1>3. /\ cache'[e] = [held |-> TRUE, ledger |-> l] /\ writing'[e].op = op /\ file'.state = "torn"
      /\ \A o \in Engines \ {e} : cache'[o] = cache[o] /\ writing'[o] = writing[o]
  BY <1>1 DEF LedgerInv, LedgerTypes
<1>4. HeldOnly'
  BY <1>1, <1>3 DEF LedgerInv, HeldOnly, Busy, Others
<1>5. WritersKeep'
  <2>1. CASE owed' = NoEntries
    <3>1. \A o \in Engines : cache'[o].ledger \in Ledger
      BY <1>2 DEF LedgerTypes
    <3> QED BY <2>1, <3>1 DEF WritersKeep, Kept, NoEntries
  <2>2. CASE owed' = owed /\ ~OtherWrites(e) /\ \A j \in EntryIds : Kept(l, dirty \ {e}, j)
    <3>1. \A o \in Engines : Busy(o)' => o = e
      BY <1>3, <2>2 DEF Busy, OtherWrites, Others
    <3>2. \A j \in EntryIds : Kept(l, dirty, j)' 
      BY <1>1, <1>3, <2>2 DEF LedgerInv, LedgerTypes, Kept
    <3> QED BY <1>3, <3>1, <3>2 DEF WritersKeep, Kept
  <2> QED BY <2>1, <2>2
<1>6. LedgersKeep'
  <2>1. Busy(e)'
    BY <1>3 DEF Busy
  <2>2. ASSUME NEW o \in Engines, cache'[o].held, o \notin behind', dirty' \subseteq {o}
        PROVE  Covers(cache'[o].ledger, owed')
    <3>1. o = e
      BY <1>1, <1>3, <2>2 DEF Others
    <3>2. e \notin behind /\ dirty \subseteq {e}
      BY <1>1, <2>2, <3>1
    <3> QED BY <1>3, <3>1, <3>2
  <2> QED BY <1>3, <2>1, <2>2 DEF LedgersKeep
<1>7. CachesFollow'
  BY <1>3 DEF CachesFollow
<1> QED BY <1>2, <1>4, <1>5, <1>6, <1>7 DEF LedgerInv
(* mkdir or the opening of the file failed: the cached ledger is ahead.    *)
LEMMA RejectWriteKeeps ==
  ASSUME LedgerInv, NEW e \in Engines, ~Busy(e), NEW readable \in BOOLEAN,
         cache[e].held \/ kind # "trace" \/ file.state = "missing",
         NEW l \in Ledger, Covers(l, LedgerOf(e, readable)), RejectWrite(e, l, readable)
  PROVE  LedgerInv'
<1> USE LevelsOrdered, LedgersOrdered
<1>1. /\ cache' = [cache EXCEPT ![e] = [held |-> TRUE, ledger |-> l]]
      /\ dirty' = dirty \cup {e}
      /\ behind' = behind \cup {o \in {e} : ~cache[o].held /\ (OtherWrites(o) \/ Blind(o, readable))}
      /\ UNCHANGED <<kind, file, writing, owed>>
  BY DEF RejectWrite
<1>2. LedgerTypes'
  BY <1>1 DEF LedgerInv, LedgerTypes
<1>3. /\ cache'[e] = [held |-> TRUE, ledger |-> l]
      /\ \A o \in Engines \ {e} : cache'[o] = cache[o]
      /\ \A o \in Engines : Busy(o)' <=> Busy(o)
  BY <1>1 DEF LedgerInv, LedgerTypes, Busy
<1>4. HeldOnly'
  BY <1>1, <1>3 DEF LedgerInv, HeldOnly
<1>5. /\ cache[e].held => Covers(l, cache[e].ledger)
      /\ file.state # "torn" /\ e \notin behind' => Covers(l, file.ledger)
      /\ e \notin behind' /\ ~OtherWrites(e) /\ dirty \subseteq {e} => Covers(l, owed)
  <2>1. CASE Blind(e, readable)
    BY <1>1, <2>1 DEF Blind
  <2>2. CASE ~Blind(e, readable)
    <3>1. /\ LedgerOf(e, readable) \in Ledger
          /\ cache[e].held => LedgerOf(e, readable) = cache[e].ledger
          /\ file.state # "torn" /\ e \notin behind => Covers(LedgerOf(e, readable), file.ledger)
          /\ e \notin behind /\ ~OtherWrites(e) /\ dirty \subseteq {e} => Covers(LedgerOf(e, readable), owed)
      BY <2>2, LedgerOfKeeps
    <3>2. file.ledger \in Ledger /\ owed \in Ledger
      BY DEF LedgerInv, LedgerTypes
    <3>3. e \notin behind' => e \notin behind
      BY <1>1
    <3> QED BY <3>1, <3>2, <3>3
  <2> QED BY <2>1, <2>2
<1>6. \A j \in EntryIds, d \in dirty : AtLeast(cache[d].ledger[j], owed[j]) => AtLeast(cache'[d].ledger[j], owed[j])
  <2> SUFFICES ASSUME NEW j \in EntryIds, e \in dirty, AtLeast(cache[e].ledger[j], owed[j])
               PROVE  AtLeast(l[j], owed[j])
    BY <1>3 DEF LedgerInv, LedgerTypes
  <2>1. cache[e].held
    BY DEF LedgerInv, HeldOnly
  <2>2. AtLeast(l[j], cache[e].ledger[j])
    BY <1>5, <2>1 DEF Covers
  <2> QED BY <2>2 DEF LedgerInv, LedgerTypes
<1>7. WritersKeep'
  BY <1>1, <1>3, <1>6 DEF LedgerInv, WritersKeep, Kept
<1>8. LedgersKeep'
  <2>1. ASSUME NEW o \in Engines, cache'[o].held, o \notin behind', dirty' \subseteq {o}
        PROVE  Covers(cache'[o].ledger, owed')
    <3>1. o = e /\ e \notin behind /\ dirty \subseteq {e}
      BY <1>1, <2>1
    <3>2. cache[e].held \/ ~OtherWrites(e)
      BY <1>1, <2>1, <3>1
    <3>3. CASE cache[e].held
      <4>1. Covers(cache[e].ledger, owed)
        BY <3>1, <3>3 DEF LedgerInv, LedgersKeep
      <4> QED BY <1>1, <1>3, <1>5, <3>1, <3>3, <4>1 DEF LedgerInv, LedgerTypes
    <3> QED BY <1>1, <1>3, <1>5, <2>1, <3>1, <3>2, <3>3
  <2>2. \A i \in EntryIds :
          \/ file'.state = "torn" /\ ((\E o \in Engines : Busy(o)') \/ owed' = NoEntries)
          \/ file'.state # "torn" /\ AtLeast(file'.ledger[i], owed'[i])
          \/ \E o \in dirty' : AtLeast(cache'[o].ledger[i], owed'[i])
    BY <1>1, <1>3, <1>6 DEF LedgerInv, LedgersKeep
  <2> QED BY <2>1, <2>2 DEF LedgersKeep, NoEntries
<1>9. CachesFollow'
  BY <1>1, <1>3, <1>5 DEF LedgerInv, CachesFollow, LedgerTypes, Covers
<1> QED BY <1>2, <1>4, <1>7, <1>8, <1>9 DEF LedgerInv

LEMMA RewriteKeeps ==
  ASSUME LedgerInv, NEW e \in Engines, ~Busy(e), NEW readable \in BOOLEAN,
         cache[e].held \/ kind # "trace" \/ file.state = "missing",
         NEW l \in Ledger, Covers(l, LedgerOf(e, readable)),
         NEW op \in {"add", "human", "update", "create"}, NEW i \in EntryIds, Rewrite(e, l, op, i, readable)
  PROVE  LedgerInv'
<1> USE LevelsOrdered, LedgersOrdered
<1>1. CASE RejectWrite(e, l, readable)
  BY <1>1, RejectWriteKeeps
<1>2. CASE BeginWrite(e, l, op, i) /\ OwedIf(e \notin behind /\ ~OtherWrites(e) /\ ~Blind(e, readable))
  <2>1. CASE e \in behind \/ OtherWrites(e) \/ Blind(e, readable)
    <3>1. owed' = NoEntries
      BY <1>2, <2>1 DEF OwedIf
    <3> QED BY <1>2, <3>1, BeginWriteKeeps
  <2>2. CASE e \notin behind /\ ~OtherWrites(e) /\ ~Blind(e, readable)
    <3>1. /\ LedgerOf(e, readable) \in Ledger /\ owed \in Ledger
          /\ \A j \in EntryIds : Kept(LedgerOf(e, readable), dirty \ {e}, j)
          /\ dirty \subseteq {e} => Covers(LedgerOf(e, readable), owed)
      BY <2>2, LedgerOfKeeps DEF LedgerInv, LedgerTypes
    <3>2. \A j \in EntryIds : Kept(l, dirty \ {e}, j)
      BY <3>1 DEF Kept, Covers
    <3>3. dirty \subseteq {e} => Covers(l, owed)
      BY <3>1
    <3>4. owed' = owed
      BY <1>2, <2>2 DEF OwedIf
    <3>5. HasOwed(e, l)
      BY <2>2, <3>2, <3>3, <3>4 DEF HasOwed
    <3> QED BY <1>2, <3>5, BeginWriteKeeps
  <2> QED BY <2>1, <2>2
<1> QED BY <1>1, <1>2 DEF Rewrite

LEMMA AddStep ==
  ASSUME LedgerInv, NEW e \in Engines, NEW i \in EntryIds, Add(e, i)
  PROVE  LedgerInv'
<1>1. ~Busy(e) /\ (cache[e].held \/ kind # "trace" \/ file.state = "missing")
  BY DEF Add
<1>2. PICK readable \in BOOLEAN, op \in {"add", "human"} :
        /\ LedgerOf(e, readable)[i] = "absent"
        /\ Rewrite(e, [LedgerOf(e, readable) EXCEPT ![i] = "added"], op, i, readable)
  BY DEF Add
<1> DEFINE l == [LedgerOf(e, readable) EXCEPT ![i] = "added"]
<1>3. LedgerOf(e, readable) \in Ledger
  BY DEF LedgerInv, LedgerTypes, LedgerOf
<1>4. l \in Ledger /\ Covers(l, LedgerOf(e, readable))
  BY <1>2, <1>3, LevelsOrdered, LedgersOrdered DEF Ledger, Covers, Levels
<1>5. Rewrite(e, l, op, i, readable)
  BY <1>2
<1> HIDE DEF l
<1> QED BY <1>1, <1>4, <1>5, RewriteKeeps

LEMMA UpdateEntryStep ==
  ASSUME LedgerInv, NEW e \in Engines, NEW i \in EntryIds, UpdateEntry(e, i)
  PROVE  LedgerInv'
<1> DEFINE l == [LedgerOf(e, TRUE) EXCEPT ![i] = "updated"]
<1>1. ~Busy(e) /\ (cache[e].held \/ kind # "trace" \/ file.state = "missing")
  BY DEF UpdateEntry, Found
<1>2. LedgerOf(e, TRUE) \in Ledger
  BY DEF LedgerInv, LedgerTypes, LedgerOf
<1>3. l \in Ledger /\ Covers(l, LedgerOf(e, TRUE))
  BY <1>2, LevelsOrdered, LedgersOrdered DEF Ledger, Covers, Levels
<1>4. Rewrite(e, l, "update", i, TRUE)
  BY DEF UpdateEntry
<1> HIDE DEF l
<1> QED BY <1>1, <1>3, <1>4, RewriteKeeps

LEMMA CreateStep ==
  ASSUME LedgerInv, NEW e \in Engines, Create(e) \/ InitTrace(e) \/ ResumeTask(e)
  PROVE  LedgerInv'
<1>1. Free.id \in EntryIds
  BY SomeEntry DEF Free
<1>2. CASE Create(e)
  <2>1. PICK readable \in BOOLEAN : ~Found(e, readable) /\ Rewrite(e, NoEntries, "create", Free.id, readable)
    BY <1>2 DEF Create
  <2>2. LedgerOf(e, readable) = NoEntries /\ ~Busy(e) /\ kind = "task"
    BY <1>2, <2>1 DEF Create, LedgerOf, Found, LedgerInv, HeldOnly
  <2> QED BY <1>1, <2>1, <2>2, LedgersOrdered, RewriteKeeps
<1>3. CASE InitTrace(e)
  BY <1>1, <1>3, LedgersOrdered, BeginWriteKeeps DEF InitTrace, OwedIf
<1>4. CASE ResumeTask(e)
  <2>1. ~Busy(e) /\ file.state = "whole" /\ file.ledger \in Ledger
    BY <1>4 DEF ResumeTask, LedgerInv, LedgerTypes
  <2>2. \A o \in Engines : ~Busy(o)
    BY <2>1 DEF LedgerInv, HeldOnly
  <2>3. e \notin dirty => \A j \in EntryIds : Kept(file.ledger, dirty \ {e}, j)
    BY <2>1 DEF LedgerInv, LedgersKeep, Kept
  <2>4. e \notin dirty /\ dirty \subseteq {e} => Covers(file.ledger, owed)
    BY <2>3 DEF Kept, Covers
  <2>5. owed' = NoEntries \/ HasOwed(e, file.ledger)
    BY <1>4, <2>2, <2>3, <2>4 DEF ResumeTask, OwedIf, HasOwed, OtherWrites, Others
  <2> QED BY <1>1, <1>4, <2>1, <2>5, BeginWriteKeeps DEF ResumeTask
<1> QED BY <1>2, <1>3, <1>4
(* A call whose value is there returns without writing.                    *)
LEMMA AddAgainStep ==
  ASSUME LedgerInv, NEW e \in Engines, NEW i \in EntryIds, AddAgain(e, i)
  PROVE  LedgerInv'
<1> USE LevelsOrdered, LedgersOrdered
<1> DEFINE l == LedgerOf(e, TRUE)
<1>1. /\ kind = "task" /\ ~Busy(e) /\ Found(e, TRUE) /\ l[i] # "absent"
      /\ cache' = [cache EXCEPT ![e] = [held |-> TRUE, ledger |-> l]]
      /\ owed' = [owed EXCEPT ![i] = IF e \in behind \/ file.state = "torn" \/ @ # "absent" THEN @ ELSE "added"]
      /\ UNCHANGED <<file, writing, dirty, behind>>
  BY DEF AddAgain
<1>2. /\ l \in Ledger /\ (cache[e].held => l = cache[e].ledger)
      /\ (file.state # "torn" /\ e \notin behind => Covers(l, file.ledger))
      /\ (e \notin behind /\ ~OtherWrites(e) /\ dirty \subseteq {e} => Covers(l, owed))
  BY <1>1, LedgerOfKeeps DEF Blind
<1>3. ~cache[e].held => file.state = "whole" /\ l = file.ledger /\ e \notin behind /\ e \notin dirty
  BY <1>1 DEF Found, LedgerOf, LedgerInv, HeldOnly
<1> HIDE DEF l
<1>4. LedgerTypes'
  BY <1>1, <1>2 DEF LedgerInv, LedgerTypes, Ledger
<1>5. /\ cache'[e] = [held |-> TRUE, ledger |-> l]
      /\ \A o \in Engines \ {e} : cache'[o] = cache[o]
      /\ \A o \in Engines : Busy(o)' <=> Busy(o)
      /\ \A d \in dirty : cache'[d].ledger = cache[d].ledger
  BY <1>1, <1>2, <1>3 DEF LedgerInv, LedgerTypes, Busy
<1>6. HeldOnly'
  BY <1>1, <1>3, <1>5 DEF LedgerInv, HeldOnly
<1>7. CachesFollow'
  BY <1>1, <1>2, <1>3, <1>5 DEF LedgerInv, CachesFollow, LedgerTypes
<1>8. CASE owed' = owed
  <2>1. WritersKeep'
    <3>1. \A o \in Engines : Busy(o) => cache'[o] = cache[o]
      BY <1>1, <1>5
    <3> QED BY <1>1, <1>5, <1>8, <3>1 DEF LedgerInv, WritersKeep, Kept
  <2>2. LedgersKeep'
    <3>1. ASSUME NEW o \in Engines, cache'[o].held, o \notin behind', dirty' \subseteq {o}
          PROVE  Covers(cache'[o].ledger, owed')
      <4>1. CASE o # e \/ cache[e].held
        BY <1>1, <1>2, <1>5, <1>8, <3>1, <4>1 DEF LedgerInv, LedgersKeep
      <4>2. CASE o = e /\ ~cache[e].held
        <5>1. ~OtherWrites(e)
          BY <1>3, <4>2 DEF OtherWrites, Others, LedgerInv, HeldOnly
        <5> QED BY <1>1, <1>2, <1>5, <1>8, <3>1, <4>2, <5>1
      <4> QED BY <4>1, <4>2
    <3>2. \A j \in EntryIds :
            \/ file'.state = "torn" /\ ((\E o \in Engines : Busy(o)') \/ owed' = NoEntries)
            \/ file'.state # "torn" /\ AtLeast(file'.ledger[j], owed'[j])
            \/ \E o \in dirty' : AtLeast(cache'[o].ledger[j], owed'[j])
      BY <1>1, <1>5, <1>8 DEF LedgerInv, LedgersKeep
    <3> QED BY <3>1, <3>2 DEF LedgersKeep, NoEntries
  <2> QED BY <1>4, <1>6, <1>7, <2>1, <2>2 DEF LedgerInv
<1>9. CASE owed' # owed
  <2>1. e \notin behind /\ file.state # "torn" /\ owed' = [owed EXCEPT ![i] = "added"]
    BY <1>1, <1>9 DEF LedgerInv, LedgerTypes, Ledger
  <2>2. /\ owed'[i] = "added" /\ \A j \in EntryIds \ {i} : owed'[j] = owed[j]
        /\ \A m \in Ledger : m[i] # "absent" => AtLeast(m[i], owed'[i])
    BY <2>1 DEF LedgerInv, LedgerTypes, Ledger, AtLeast
  <2>3. \A o \in Engines : ~Busy(o)
    BY <2>1 DEF LedgerInv, HeldOnly
  <2>4. e \in dirty \/ l = file.ledger
    BY <1>2, <1>3, <2>1 DEF LedgerInv, CachesFollow
  <2>5. \A j \in EntryIds :
          AtLeast(file.ledger[j], owed'[j]) \/ \E o \in dirty : AtLeast(cache'[o].ledger[j], owed'[j])
    <3> SUFFICES ASSUME NEW j \in EntryIds
                 PROVE AtLeast(file.ledger[j], owed'[j]) \/ \E o \in dirty : AtLeast(cache'[o].ledger[j], owed'[j])
      OBVIOUS
    <3>1. CASE j # i
      BY <1>5, <2>1, <2>2, <3>1 DEF LedgerInv, LedgersKeep
    <3>2. CASE j = i
      BY <1>1, <1>2, <1>5, <2>2, <2>4, <3>2
    <3> QED BY <3>1, <3>2
  <2>6. ASSUME NEW o \in Engines, cache'[o].held, o \notin behind, dirty \subseteq {o}
        PROVE  Covers(cache'[o].ledger, owed')
    <3>1. Covers(cache'[o].ledger, file.ledger)
      BY <1>1, <1>7, <2>1, <2>6 DEF CachesFollow
    <3>2. cache'[o].ledger \in Ledger /\ file.ledger \in Ledger /\ owed' \in Ledger
      BY <1>1, <1>4 DEF LedgerTypes
    <3>3. \A d \in dirty : cache'[d].ledger = cache'[o].ledger
      BY <2>6
    <3> QED BY <2>5, <3>1, <3>2, <3>3 DEF Covers
  <2>7. LedgersKeep'
    BY <1>1, <2>1, <2>5, <2>6 DEF LedgersKeep
  <2>8. WritersKeep'
    BY <1>5, <2>3 DEF WritersKeep
  <2> QED BY <1>4, <1>6, <1>7, <2>7, <2>8 DEF LedgerInv
<1> QED BY <1>8, <1>9
LEMMA HumanAgain ==
  ASSUME LedgerInv, NEW e \in Engines, writing[e].op = "human", WriteEnds(e)
  PROVE  LedgerInv'
<1> USE LevelsOrdered, LedgersOrdered
<1> DEFINE i == writing[e].id
           l == [cache[e].ledger EXCEPT ![i] = "updated"]
<1>1. /\ cache' = [cache EXCEPT ![e].ledger[i] = "updated"]
      /\ writing' = [writing EXCEPT ![e].op = "update"]
      /\ UNCHANGED <<file, owed, behind, dirty>> /\ Busy(e)
  BY DEF WriteEnds
<1>2. i \in EntryIds /\ cache[e].ledger \in Ledger
  BY DEF LedgerInv, LedgerTypes
<1>3. l \in Ledger /\ Covers(l, cache[e].ledger)
  BY <1>2 DEF Ledger, Covers, Levels
<1>4. /\ cache'[e].ledger = l /\ cache'[e].held = cache[e].held
      /\ writing'[e].op = "update"
      /\ \A o \in Engines \ {e} : cache'[o] = cache[o] /\ writing'[o] = writing[o]
  BY <1>1 DEF LedgerInv, LedgerTypes
<1>5. LedgerTypes'
  <2> HIDE DEF l
  <2>1. [cache[e] EXCEPT !.ledger = l] \in [held : BOOLEAN, ledger : Ledger]
    BY <1>3 DEF LedgerInv, LedgerTypes
  <2>2. cache' = [cache EXCEPT ![e] = [cache[e] EXCEPT !.ledger = l]]
    BY <1>1 DEF l
  <2>3. cache' \in [Engines -> [held : BOOLEAN, ledger : Ledger]]
    BY <2>1, <2>2 DEF LedgerInv, LedgerTypes
  <2>4. [writing[e] EXCEPT !.op = "update"] \in [op : {"none", "add", "human", "update", "create"}, id : EntryIds]
    BY DEF LedgerInv, LedgerTypes
  <2>5. writing' = [writing EXCEPT ![e] = [writing[e] EXCEPT !.op = "update"]]
    BY <1>1
  <2> QED BY <1>1, <2>3, <2>4, <2>5 DEF LedgerInv, LedgerTypes
<1> HIDE DEF l
<1>6. cache[e].held /\ file.state = "torn"
  BY <1>1 DEF LedgerInv, HeldOnly
<1>7. HeldOnly'
  BY <1>1, <1>4, <1>6 DEF LedgerInv, HeldOnly, Busy
<1>8. \A j \in EntryIds, o \in Engines :
        AtLeast(cache[o].ledger[j], owed[j]) => AtLeast(cache'[o].ledger[j], owed'[j])
  BY <1>1, <1>2, <1>3, <1>4 DEF LedgerInv, LedgerTypes, Covers
<1>9. WritersKeep'
  <2>1. \A o \in Engines : Busy(o)' => Busy(o)
    BY <1>1, <1>4 DEF Busy
  <2> QED BY <1>1, <1>8, <2>1 DEF LedgerInv, LedgerTypes, WritersKeep, Kept
<1>10. LedgersKeep'
  <2>1. Busy(e)'
    BY <1>4 DEF Busy
  <2> QED BY <1>1, <1>4, <1>6, <1>8, <2>1 DEF LedgerInv, LedgersKeep, Covers
<1>11. CachesFollow'
  BY <1>1, <1>6 DEF CachesFollow
<1> QED BY <1>5, <1>7, <1>9, <1>10, <1>11 DEF LedgerInv

LEMMA WriteReturns ==
  ASSUME LedgerInv, NEW e \in Engines, writing[e].op # "human", WriteEnds(e)
  PROVE  LedgerInv'
<1> USE LevelsOrdered, LedgersOrdered
<1> DEFINE i == writing[e].id
<1>1. /\ file' = IF OtherWrites(e) THEN file ELSE [state |-> "whole", ledger |-> cache[e].ledger]
      /\ writing' = [writing EXCEPT ![e] = Free]
      /\ owed' = IF writing[e].op = "create" \/ e \in behind \/ OtherWrites(e) THEN owed
                 ELSE [owed EXCEPT ![i] = cache[e].ledger[i]]
      /\ behind' = {o \in Others(e) : cache[o].held} \cup (behind \cap {e})
      /\ UNCHANGED <<cache, dirty>> /\ Busy(e)
  BY DEF WriteEnds
<1>2. i \in EntryIds /\ cache[e].ledger \in Ledger /\ Free \in [op : {"none"}, id : EntryIds]
  BY SomeEntry DEF LedgerInv, LedgerTypes, Free
<1>3. LedgerTypes'
  BY <1>1, <1>2 DEF LedgerInv, LedgerTypes, Others, Ledger
<1>4. \A o \in Engines : Busy(o)' <=> Busy(o) /\ o # e
  BY <1>1, <1>2 DEF LedgerInv, LedgerTypes, Busy
<1>5. cache[e].held /\ file.state = "torn"
  BY <1>1 DEF LedgerInv, HeldOnly
<1>6. HeldOnly'
  BY <1>1, <1>4, <1>5 DEF LedgerInv, HeldOnly, OtherWrites, Others
<1>7. ASSUME NEW o \in Engines, cache'[o].held, o \notin behind' PROVE o = e /\ e \notin behind
  BY <1>1, <1>7 DEF Others
<1>8. CASE OtherWrites(e)
  <2>1. file' = file /\ owed' = owed
    BY <1>1, <1>8
  <2>2. \E o \in Engines : Busy(o)'
    BY <1>4, <1>8 DEF OtherWrites, Others
  <2>3. WritersKeep'
    BY <1>1, <1>4, <2>1 DEF LedgerInv, WritersKeep, Kept
  <2>4. LedgersKeep'
    BY <1>1, <1>5, <1>7, <2>1, <2>2 DEF LedgerInv, LedgersKeep
  <2>5. CachesFollow'
    BY <1>5, <2>1 DEF CachesFollow
  <2> QED BY <1>3, <1>6, <2>3, <2>4, <2>5 DEF LedgerInv
<1>9. CASE ~OtherWrites(e)
  <2>1. file' = [state |-> "whole", ledger |-> cache[e].ledger]
    BY <1>1, <1>9
  <2>2. \A o \in Engines : ~Busy(o)'
    BY <1>4, <1>9 DEF OtherWrites, Others
  <2>3. \A j \in EntryIds : owed'[j] = owed[j] \/ owed'[j] = cache[e].ledger[j]
    BY <1>1, <1>2 DEF LedgerInv, LedgerTypes, Ledger
  <2>4. \A j \in EntryIds :
          AtLeast(file'.ledger[j], owed'[j]) \/ \E d \in dirty' : AtLeast(cache'[d].ledger[j], owed'[j])
    BY <1>1, <1>2, <2>1, <2>3 DEF LedgerInv, WritersKeep, Kept
  <2>5. ASSUME NEW o \in Engines, cache'[o].held, o \notin behind', dirty' \subseteq {o}
        PROVE  Covers(cache'[o].ledger, owed')
    <3>1. o = e /\ e \notin behind
      BY <1>7, <2>5
    <3>2. Covers(cache[e].ledger, owed)
      BY <1>1, <1>5, <2>5, <3>1 DEF LedgerInv, LedgersKeep
    <3> QED BY <1>1, <1>2, <2>3, <3>1, <3>2 DEF Covers
  <2>6. LedgersKeep'
    BY <2>1, <2>4, <2>5 DEF LedgersKeep
  <2>7. WritersKeep'
    BY <2>2 DEF WritersKeep
  <2>8. CachesFollow'
    BY <1>1, <1>2, <1>7, <2>1 DEF CachesFollow
  <2> QED BY <1>3, <1>6, <2>6, <2>7, <2>8 DEF LedgerInv
<1> QED BY <1>8, <1>9

(* The process of an engine ends: what only it had is not owed any more.   *)
LEMMA CrashStep ==
  ASSUME LedgerInv, NEW e \in Engines, Crash(e)
  PROVE  LedgerInv'
<1> USE LevelsOrdered, LedgersOrdered
<1>1. /\ cache' = [cache EXCEPT ![e] = Unheld] /\ writing' = [writing EXCEPT ![e] = Free]
      /\ owed' = IF ~Busy(e) /\ e \notin dirty THEN owed ELSE NoEntries
      /\ dirty' = dirty \ {e} /\ behind' = behind \ {e}
      /\ UNCHANGED file
  BY DEF Crash, OwedIf
<1>2. Free \in [op : {"none"}, id : EntryIds] /\ Unheld \in [held : {FALSE}, ledger : {NoEntries}]
  BY SomeEntry DEF Free, Unheld
<1>3. LedgerTypes'
  BY <1>1, <1>2 DEF LedgerInv, LedgerTypes
<1>4. /\ ~cache'[e].held /\ cache'[e].ledger = NoEntries /\ ~Busy(e)'
      /\ \A o \in Engines \ {e} : cache'[o] = cache[o] /\ (Busy(o)' <=> Busy(o))
  BY <1>1, <1>2 DEF LedgerInv, LedgerTypes, Busy
<1>5. HeldOnly'
  BY <1>1, <1>4 DEF LedgerInv, HeldOnly
<1>6. CachesFollow'
  BY <1>1, <1>4 DEF LedgerInv, CachesFollow
<1>7. CASE owed' = NoEntries
  <2>1. \A o \in Engines, j \in EntryIds : AtLeast(cache'[o].ledger[j], owed'[j])
    BY <1>3, <1>7 DEF LedgerTypes, NoEntries
  <2>2. WritersKeep'
    BY <2>1 DEF WritersKeep, Kept
  <2>3. LedgersKeep'
    BY <1>3, <1>7, <2>1 DEF LedgersKeep, LedgerTypes, NoEntries, Covers
  <2> QED BY <1>3, <1>5, <1>6, <2>2, <2>3 DEF LedgerInv
<1>8. CASE ~Busy(e) /\ e \notin dirty
  <2>1. owed' = owed /\ dirty' = dirty /\ \A d \in dirty : cache'[d] = cache[d]
    BY <1>1, <1>4, <1>8 DEF LedgerInv, LedgerTypes
  <2>2. WritersKeep'
    BY <1>1, <1>4, <1>8, <2>1 DEF LedgerInv, WritersKeep, Kept
  <2>3. LedgersKeep'
    BY <1>1, <1>4, <1>8, <2>1 DEF LedgerInv, LedgersKeep, NoEntries
  <2> QED BY <1>3, <1>5, <1>6, <2>2, <2>3 DEF LedgerInv
<1> QED BY <1>1, <1>7, <1>8

LEMMA ReadLedgerStep ==
  ASSUME LedgerInv, NEW e \in Engines, Read(e)
  PROVE  LedgerInv'
<1> USE LevelsOrdered, LedgersOrdered
<1>1. /\ ~Busy(e) /\ ~cache[e].held /\ file.state = "whole"
      /\ cache' = [cache EXCEPT ![e] = [held |-> TRUE, ledger |-> file.ledger]]
      /\ UNCHANGED <<file, writing, owed, dirty, behind>>
  BY DEF Read
<1>2. LedgerTypes'
  BY <1>1 DEF LedgerInv, LedgerTypes
<1>3. /\ cache'[e].held /\ cache'[e].ledger = file.ledger
      /\ \A o \in Engines \ {e} : cache'[o] = cache[o]
      /\ \A o \in Engines : ~Busy(o) /\ ~Busy(o)'
  BY <1>1 DEF LedgerInv, LedgerTypes, HeldOnly, Busy
<1>4. e \notin dirty /\ e \notin behind
  BY <1>1 DEF LedgerInv, HeldOnly
<1>5. HeldOnly' /\ WritersKeep'
  BY <1>1, <1>3 DEF LedgerInv, HeldOnly, WritersKeep
<1>6. CachesFollow'
  BY <1>1, <1>2, <1>3 DEF LedgerInv, CachesFollow, LedgerTypes
<1>7. \A j \in EntryIds : AtLeast(file.ledger[j], owed[j]) \/ \E d \in dirty : AtLeast(cache'[d].ledger[j], owed[j])
  BY <1>1, <1>3, <1>4 DEF LedgerInv, LedgerTypes, LedgersKeep
<1>8. ASSUME NEW o \in Engines, cache'[o].held, o \notin behind, dirty \subseteq {o}
      PROVE  Covers(cache'[o].ledger, owed)
  <2>1. CASE o # e
    BY <1>3, <1>8, <2>1 DEF LedgerInv, LedgersKeep
  <2>2. CASE o = e
    BY <1>3, <1>4, <1>7, <1>8, <2>2 DEF Covers
  <2> QED BY <2>1, <2>2
<1>9. LedgersKeep'
  BY <1>1, <1>7, <1>8 DEF LedgersKeep
<1> QED BY <1>2, <1>5, <1>6, <1>9 DEF LedgerInv

LEMMA LedgerInitOK == LedgerInit => LedgerInv
<1> SUFFICES ASSUME LedgerInit PROVE LedgerInv
  OBVIOUS
<1> USE LevelsOrdered, LedgersOrdered
<1>1. Free \in [op : {"none"}, id : EntryIds] /\ Unheld \in [held : {FALSE}, ledger : {NoEntries}]
  BY SomeEntry DEF Free, Unheld
<1>2. LedgerTypes
  BY <1>1 DEF LedgerInit, LedgerTypes
<1>3. HeldOnly /\ WritersKeep /\ CachesFollow
  BY <1>1 DEF LedgerInit, HeldOnly, WritersKeep, CachesFollow, Busy
<1>4. LedgersKeep
  BY <1>1 DEF LedgerInit, LedgersKeep, NoEntries
<1> QED BY <1>2, <1>3, <1>4 DEF LedgerInv

LEMMA LedgerStepOK == LedgerInv /\ [LedgerNext]_ledgerVars => LedgerInv'
<1> SUFFICES ASSUME LedgerInv, [LedgerNext]_ledgerVars PROVE LedgerInv'
  OBVIOUS
<1>1. CASE Choose \/ UNCHANGED ledgerVars
  <2>1. UNCHANGED <<file, cache, writing, owed, dirty, behind>>
    BY <1>1 DEF Choose, ledgerVars
  <2> QED BY <2>1 DEF LedgerInv, LedgerTypes, HeldOnly, LedgersKeep, WritersKeep, CachesFollow, Kept, Busy, Covers
<1>2. ASSUME NEW e \in Engines, NEW i \in EntryIds, Add(e, i) \/ UpdateEntry(e, i) \/ AddAgain(e, i) PROVE LedgerInv'
  BY <1>2, AddStep, UpdateEntryStep, AddAgainStep
<1>3. ASSUME NEW e \in Engines, Create(e) \/ InitTrace(e) \/ ResumeTask(e) PROVE LedgerInv'
  BY <1>3, CreateStep
<1>4. ASSUME NEW e \in Engines, WriteEnds(e) \/ Crash(e) \/ Read(e) PROVE LedgerInv'
  BY <1>4, HumanAgain, WriteReturns, CrashStep, ReadLedgerStep
<1> QED BY <1>1, <1>2, <1>3, <1>4 DEF LedgerNext

(* For any number of engines and entries: what a caller was told is        *)
(* recorded is in the file, or in the ledger of an engine whose write was  *)
(* rejected, through every restart, unless a crash, a failed read, a       *)
(* second engine or a reset excuses its loss (evidence-ledger, failure-ledger, decision-log,  *)
(* trace, task-state).                                                     *)
THEOREM LedgersKeepForGood == LedgerSpec => []LedgersKeep
<1>1. LedgerInv => LedgersKeep
  BY DEF LedgerInv
<1> QED BY <1>1, LedgerInitOK, LedgerStepOK, PTL DEF LedgerSpec
-----------------------------------------------------------------------------
(* What the runs of one task leave in the database                         *)
Phases == {"off", "task", "insert", "list", "criteria", "claims", "work", "ended"}
Run == [phase : Phases, contract : SUBSET Criteria, seen : SUBSET Criteria]

DurableTypes ==
  /\ run \in [Runs -> Run] /\ taskRow \in BOOLEAN /\ overlap \in BOOLEAN
  /\ criterionRows \in [Criteria -> Nat] /\ claimRows \in [Criteria -> Nat]

(* How far a run has set the task up.                                      *)
SetUpSoFar ==
  \A r \in Runs :
    /\ run[r].phase \in {"list", "criteria", "claims", "work"} => taskRow
    /\ At(r, "criteria") => \A c \in Criteria : c \in run[r].seen => criterionRows[c] > 0
    /\ run[r].phase \in {"claims", "work"} => \A c \in run[r].contract : criterionRows[c] > 0
    /\ At(r, "claims") => \A c \in Criteria : c \in run[r].seen => claimRows[c] > 0

(* Without an overlap one run at most is alive, and it has seen every      *)
(* criterion and every claim that has a row.                               *)
Alone ==
  ~overlap =>
    /\ \A r, o \in Runs : Alive(r) /\ Alive(o) => r = o
    /\ \A r \in Runs : At(r, "criteria") => Existing \subseteq run[r].seen
    /\ \A r \in Runs : At(r, "claims") => Claimed \subseteq run[r].seen

DurableInv == DurableTypes /\ RunLeavesItRight /\ SetUpSoFar /\ Alone

LEMMA DurableInitOK == DurableInit => DurableInv
<1> SUFFICES ASSUME DurableInit PROVE DurableInv
  OBVIOUS
<1>1. Off \in Run /\ Off.phase = "off"
  BY DEF Off, Run, Phases
<1>2. DurableTypes
  BY <1>1 DEF DurableInit, DurableTypes
<1>3. \A r \in Runs : run[r].phase = "off"
  BY <1>1 DEF DurableInit
<1>4. RunLeavesItRight /\ SetUpSoFar /\ Alone
  BY <1>3 DEF DurableInit, RunLeavesItRight, SetUpSoFar, Alone, At, Alive
<1> QED BY <1>2, <1>4 DEF DurableInv

(* What a step of the one run r leaves of the others.                      *)
LEMMA GotoFacts ==
  ASSUME DurableTypes, NEW r \in Runs, NEW phase \in Phases, NEW seen \in SUBSET Criteria,
         Goto(r, phase, seen)
  PROVE  /\ run' \in [Runs -> Run]
         /\ \A o \in Runs \ {r} : run'[o] = run[o]
         /\ run'[r].phase = phase /\ run'[r].seen = seen /\ run'[r].contract = run[r].contract
<1> DEFINE moved == [[run[r] EXCEPT !.phase = phase] EXCEPT !.seen = seen]
<1>1. run \in [Runs -> Run] /\ run[r] \in Run
  BY DEF DurableTypes
<1>2. moved \in Run /\ moved.phase = phase /\ moved.seen = seen /\ moved.contract = run[r].contract
  BY <1>1 DEF Run
<1>3. run' = [run EXCEPT ![r] = moved]
  BY <1>1 DEF Goto
<1> HIDE DEF moved
<1> QED BY <1>1, <1>2, <1>3

(* A step that writes no row keeps the invariant when it leaves the run    *)
(* where what it has set up is there.                                      *)
LEMMA RowsUntouched ==
  ASSUME DurableInv, NEW r \in Runs, UNCHANGED <<taskRow, criterionRows, claimRows>>,
         run' \in [Runs -> Run], overlap' \in BOOLEAN, \A o \in Runs \ {r} : run'[o] = run[o],
         overlap => overlap',
         ~overlap' /\ Alive(r)' => \A o \in Runs : Alive(o) => o = r,
         run'[r].phase \in {"list", "criteria", "claims", "work"} => taskRow,
         run'[r].phase = "criteria" => run'[r].seen = Existing,
         run'[r].phase = "claims" => run'[r].seen = Claimed,
         run'[r].phase \in {"claims", "work"} => \A c \in run'[r].contract : criterionRows[c] > 0,
         run'[r].phase = "work" => \A c \in run'[r].contract : claimRows[c] > 0
  PROVE  DurableInv'
<1> USE DEF DurableInv
<1>1. DurableTypes'
  BY DEF DurableTypes
<1>2. RunLeavesItRight'
  BY DEF RunLeavesItRight, At
<1>3. SetUpSoFar'
  BY DEF SetUpSoFar, At, Existing, Claimed
<1>4. Alone'
  <2>1. \A o \in Runs \ {r} : Alive(o)' <=> Alive(o)
    BY DEF Alive
  <2>2. ~overlap' => \A o, q \in Runs : Alive(o)' /\ Alive(q)' => o = q
    BY <2>1 DEF Alone
  <2>3. Existing' = Existing /\ Claimed' = Claimed
    BY DEF Existing, Claimed
  <2> QED BY <2>2, <2>3 DEF Alone, At
<1> QED BY <1>1, <1>2, <1>3, <1>4

LEMMA StartRunStep ==
  ASSUME DurableInv, NEW r \in Runs, StartRun(r) PROVE DurableInv'
<1>1. PICK contract \in SUBSET Criteria \ {{}} :
        run' = [run EXCEPT ![r] = [Off EXCEPT !.phase = "task", !.contract = contract]]
  BY DEF StartRun
<1> DEFINE fresh == [Off EXCEPT !.phase = "task", !.contract = contract]
<1>2. fresh \in Run /\ fresh.phase = "task"
  <2>1. Off \in Run
    BY DEF Off, Run, Phases
  <2> QED BY <2>1 DEF Run, Phases
<1> HIDE DEF fresh
<1>3. run' \in [Runs -> Run] /\ run'[r].phase = "task" /\ \A o \in Runs \ {r} : run'[o] = run[o]
  <2>1. run' = [run EXCEPT ![r] = fresh]
    BY <1>1 DEF fresh
  <2> QED BY <1>2, <2>1 DEF DurableInv, DurableTypes
<1>4. /\ overlap' = (overlap \/ \E o \in Runs : Alive(o))
      /\ UNCHANGED <<taskRow, criterionRows, claimRows>>
  BY DEF StartRun
<1>5. overlap' \in BOOLEAN
  BY <1>4 DEF DurableInv, DurableTypes
<1> QED BY <1>3, <1>4, <1>5, RowsUntouched

(* The steps that move the run and write nothing.                          *)
LEMMA QuietStep ==
  ASSUME DurableInv, NEW r \in Runs,
         LookUpTask(r) \/ ListCriteria(r) \/ CriteriaDone(r) \/ BeginWork(r)
  PROVE  DurableInv'
<1> USE DEF DurableInv
<1>1. /\ Alive(r) /\ overlap' = overlap /\ UNCHANGED <<taskRow, criterionRows, claimRows>>
      /\ run[r].contract \subseteq Criteria
  BY DEF LookUpTask, ListCriteria, CriteriaDone, BeginWork, At, Alive, DurableTypes, Run
<1>2. overlap' \in BOOLEAN /\ (~overlap' => \A o \in Runs : Alive(o) => o = r)
  BY <1>1 DEF DurableTypes, Alone
<1>3. CASE LookUpTask(r)
  <2>1. PICK phase \in {"list", "insert"} : Goto(r, phase, {}) /\ (phase = "list" => taskRow)
    BY <1>3 DEF LookUpTask
  <2>2. phase \in Phases /\ {} \in SUBSET Criteria
    BY DEF Phases
  <2> QED BY <1>1, <1>2, <2>1, <2>2, GotoFacts, RowsUntouched
<1>4. CASE ListCriteria(r)
  <2>1. Goto(r, "criteria", Existing) /\ "criteria" \in Phases /\ Existing \in SUBSET Criteria /\ taskRow
    BY <1>4 DEF ListCriteria, Phases, Existing, SetUpSoFar, At
  <2> QED BY <1>1, <1>2, <2>1, GotoFacts, RowsUntouched
<1>5. CASE CriteriaDone(r)
  <2>1. /\ Goto(r, "claims", Claimed) /\ "claims" \in Phases /\ Claimed \in SUBSET Criteria
        /\ taskRow /\ \A c \in run[r].contract : criterionRows[c] > 0
    BY <1>1, <1>5 DEF CriteriaDone, Phases, Claimed, SetUpSoFar, At
  <2> QED BY <1>1, <1>2, <2>1, GotoFacts, RowsUntouched
<1>6. CASE BeginWork(r)
  <2>1. /\ Goto(r, "work", {}) /\ "work" \in Phases /\ {} \in SUBSET Criteria
        /\ taskRow /\ \A c \in run[r].contract : criterionRows[c] > 0 /\ claimRows[c] > 0
    BY <1>1, <1>6 DEF BeginWork, Phases, SetUpSoFar, At
  <2> QED BY <1>1, <1>2, <2>1, GotoFacts, RowsUntouched
<1> QED BY <1>3, <1>4, <1>5, <1>6

LEMMA RunEndsStep ==
  ASSUME DurableInv, NEW r \in Runs, RunEnds(r) PROVE DurableInv'
<1>1. [Off EXCEPT !.phase = "ended"] = [phase |-> "ended", contract |-> {}, seen |-> {}]
  BY DEF Off
<1>2. run' \in [Runs -> Run] /\ run'[r].phase = "ended" /\ \A o \in Runs \ {r} : run'[o] = run[o]
  BY <1>1 DEF RunEnds, DurableInv, DurableTypes, Run, Phases
<1>3. UNCHANGED <<taskRow, criterionRows, claimRows, overlap>> /\ overlap' \in BOOLEAN /\ ~Alive(r)'
  BY <1>2 DEF RunEnds, DurableInv, DurableTypes, Alive
<1> QED BY <1>2, <1>3, RowsUntouched

LEMMA InsertTaskStep ==
  ASSUME DurableInv, NEW r \in Runs, InsertTask(r) PROVE DurableInv'
<1> USE DEF DurableInv
<1>1. /\ taskRow' = TRUE /\ Goto(r, "list", {}) /\ "list" \in Phases /\ {} \in SUBSET Criteria
      /\ UNCHANGED <<criterionRows, claimRows, overlap>> /\ Alive(r)
  BY DEF InsertTask, Phases, At, Alive
<1>2. /\ run' \in [Runs -> Run] /\ \A o \in Runs \ {r} : run'[o] = run[o]
      /\ run'[r].phase = "list"
  BY <1>1, GotoFacts
<1>3. DurableTypes' /\ RunLeavesItRight' /\ SetUpSoFar'
  BY <1>1, <1>2 DEF DurableTypes, RunLeavesItRight, SetUpSoFar, At
<1>4. Alone'
  BY <1>1, <1>2 DEF Alone, At, Alive, Existing, Claimed
<1> QED BY <1>3, <1>4

(* One more row for c in one of the two tables.                            *)
LEMMA OneMore ==
  ASSUME NEW had \in [Criteria -> Nat], NEW c \in Criteria, NEW after, after = [had EXCEPT ![c] = @ + 1]
  PROVE  /\ after \in [Criteria -> Nat] /\ after[c] > 0
         /\ \A k \in Criteria : had[k] > 0 => after[k] > 0
         /\ \A k \in Criteria : after[k] > 0 => k = c \/ had[k] > 0
         /\ ~(had[c] > 0) /\ (\A k \in Criteria : had[k] <= 1) => \A k \in Criteria : after[k] <= 1
<1>1. \A k \in Criteria : had[k] \in Nat /\ after[k] = IF k = c THEN had[k] + 1 ELSE had[k]
  OBVIOUS
<1>2. after \in [Criteria -> Nat]
  OBVIOUS
<1> QED BY <1>1, <1>2

LEMMA InsertCriterionStep ==
  ASSUME DurableInv, NEW r \in Runs, NEW c \in Criteria, InsertCriterion(r, c) PROVE DurableInv'
<1> USE DEF DurableInv
<1> DEFINE seen == run[r].seen \cup {c}
<1>1. /\ "criteria" \in Phases /\ seen \in SUBSET Criteria /\ Goto(r, "criteria", seen)
      /\ UNCHANGED <<taskRow, claimRows, overlap>>
      /\ At(r, "criteria") /\ Alive(r) /\ c \notin run[r].seen /\ taskRow
  BY DEF InsertCriterion, Phases, DurableTypes, Run, At, Alive, SetUpSoFar
<1>2. /\ run' \in [Runs -> Run] /\ \A o \in Runs \ {r} : run'[o] = run[o]
      /\ run'[r].phase = "criteria" /\ run'[r].seen = seen
      /\ run'[r].contract = run[r].contract
  BY <1>1, GotoFacts
<1>3. /\ criterionRows' \in [Criteria -> Nat] /\ criterionRows'[c] > 0
      /\ \A k \in Criteria : criterionRows[k] > 0 => criterionRows'[k] > 0
      /\ \A k \in Criteria : criterionRows'[k] > 0 => k = c \/ criterionRows[k] > 0
      /\ ~(criterionRows[c] > 0) /\ (\A k \in Criteria : criterionRows[k] <= 1) =>
           \A k \in Criteria : criterionRows'[k] <= 1
  <2>1. criterionRows \in [Criteria -> Nat] /\ criterionRows' = [criterionRows EXCEPT ![c] = @ + 1]
    BY DEF InsertCriterion, DurableTypes
  <2> QED BY <2>1, OneMore
<1>4. DurableTypes'
  BY <1>1, <1>2, <1>3 DEF DurableTypes
<1>5. \A o \in Runs : run[o].contract \subseteq Criteria
  BY DEF DurableTypes, Run
<1>6. RunLeavesItRight'
  <2>1. \A o \in Runs : At(o, "work")' => At(o, "work") /\ run'[o] = run[o]
    BY <1>1, <1>2 DEF At
  <2>2. ~overlap => ~(criterionRows[c] > 0)
    BY <1>1 DEF Alone, Existing
  <2>3. ~overlap' => \A k \in Criteria : criterionRows'[k] <= 1 /\ claimRows'[k] <= 1
    BY <1>1, <1>3, <2>2 DEF RunLeavesItRight
  <2>4. \A k \in Criteria : claimRows'[k] > 0 => criterionRows'[k] > 0
    BY <1>1, <1>3 DEF RunLeavesItRight
  <2>5. \A o \in Runs : At(o, "work")' =>
          taskRow' /\ \A k \in run'[o].contract : criterionRows'[k] > 0 /\ claimRows'[k] > 0
    BY <1>1, <1>3, <1>5, <2>1 DEF RunLeavesItRight
  <2> QED BY <2>3, <2>4, <2>5 DEF RunLeavesItRight
<1>7. SetUpSoFar'
  BY <1>1, <1>2, <1>3, <1>5 DEF SetUpSoFar, At
<1>8. Alone'
  <2>1. \A o \in Runs : Alive(o)' <=> Alive(o)
    BY <1>1, <1>2 DEF Alive
  <2>2. ~overlap => \A o \in Runs : Alive(o) => o = r
    BY <1>1 DEF Alone
  <2>3. Existing' \subseteq Existing \cup {c} /\ Claimed' = Claimed
    BY <1>1, <1>3 DEF Existing, Claimed
  <2> QED BY <1>1, <1>2, <2>1, <2>2, <2>3 DEF Alone, At, Alive
<1> QED BY <1>4, <1>6, <1>7, <1>8

LEMMA SeedClaimStep ==
  ASSUME DurableInv, NEW r \in Runs, NEW c \in Criteria, SeedClaim(r, c) PROVE DurableInv'
<1> USE DEF DurableInv
<1> DEFINE seen == run[r].seen \cup {c}
<1>1. /\ "claims" \in Phases /\ seen \in SUBSET Criteria /\ Goto(r, "claims", seen)
      /\ UNCHANGED <<taskRow, criterionRows, overlap>>
      /\ At(r, "claims") /\ Alive(r) /\ c \notin run[r].seen /\ c \in run[r].contract /\ taskRow
  BY DEF SeedClaim, Phases, DurableTypes, Run, At, Alive, SetUpSoFar
<1>2. /\ run' \in [Runs -> Run] /\ \A o \in Runs \ {r} : run'[o] = run[o]
      /\ run'[r].phase = "claims" /\ run'[r].seen = seen
      /\ run'[r].contract = run[r].contract
  BY <1>1, GotoFacts
<1>3. /\ claimRows' \in [Criteria -> Nat] /\ claimRows'[c] > 0
      /\ \A k \in Criteria : claimRows[k] > 0 => claimRows'[k] > 0
      /\ \A k \in Criteria : claimRows'[k] > 0 => k = c \/ claimRows[k] > 0
      /\ ~(claimRows[c] > 0) /\ (\A k \in Criteria : claimRows[k] <= 1) =>
           \A k \in Criteria : claimRows'[k] <= 1
  <2>1. claimRows \in [Criteria -> Nat] /\ claimRows' = [claimRows EXCEPT ![c] = @ + 1]
    BY DEF SeedClaim, DurableTypes
  <2> QED BY <2>1, OneMore
<1>4. DurableTypes'
  BY <1>1, <1>2, <1>3 DEF DurableTypes
<1>5. \A o \in Runs : run[o].contract \subseteq Criteria
  BY DEF DurableTypes, Run
<1>6. RunLeavesItRight'
  <2>1. \A o \in Runs : At(o, "work")' => At(o, "work") /\ run'[o] = run[o]
    BY <1>1, <1>2 DEF At
  <2>2. ~overlap => ~(claimRows[c] > 0)
    BY <1>1 DEF Alone, Claimed
  <2>3. ~overlap' => \A k \in Criteria : criterionRows'[k] <= 1 /\ claimRows'[k] <= 1
    BY <1>1, <1>3, <2>2 DEF RunLeavesItRight
  <2>4. \A k \in Criteria : claimRows'[k] > 0 => criterionRows'[k] > 0
    <3>1. criterionRows[c] > 0
      BY <1>1 DEF SetUpSoFar, At
    <3> QED BY <1>1, <1>3, <3>1 DEF RunLeavesItRight
  <2>5. \A o \in Runs : At(o, "work")' =>
          taskRow' /\ \A k \in run'[o].contract : criterionRows'[k] > 0 /\ claimRows'[k] > 0
    BY <1>1, <1>3, <1>5, <2>1 DEF RunLeavesItRight
  <2> QED BY <2>3, <2>4, <2>5 DEF RunLeavesItRight
<1>7. SetUpSoFar'
  BY <1>1, <1>2, <1>3, <1>5 DEF SetUpSoFar, At
<1>8. Alone'
  <2>1. \A o \in Runs : Alive(o)' <=> Alive(o)
    BY <1>1, <1>2 DEF Alive
  <2>2. ~overlap => \A o \in Runs : Alive(o) => o = r
    BY <1>1 DEF Alone
  <2>3. Claimed' \subseteq Claimed \cup {c} /\ Existing' = Existing
    BY <1>1, <1>3 DEF Existing, Claimed
  <2> QED BY <1>1, <1>2, <2>1, <2>2, <2>3 DEF Alone, At, Alive
<1> QED BY <1>4, <1>6, <1>7, <1>8

LEMMA DurableStepOK == DurableInv /\ [DurableNext]_durableVars => DurableInv'
<1> SUFFICES ASSUME DurableInv, [DurableNext]_durableVars PROVE DurableInv'
  OBVIOUS
<1>1. CASE UNCHANGED durableVars
  BY <1>1 DEF durableVars, DurableInv, DurableTypes, RunLeavesItRight, SetUpSoFar, Alone, At, Alive, Existing, Claimed
<1>2. ASSUME NEW r \in Runs,
             LookUpTask(r) \/ ListCriteria(r) \/ CriteriaDone(r) \/ BeginWork(r) \/ StartRun(r)
             \/ InsertTask(r) \/ RunEnds(r)
      PROVE  DurableInv'
  BY <1>2, StartRunStep, QuietStep, InsertTaskStep, RunEndsStep
<1>3. ASSUME NEW r \in Runs, NEW c \in Criteria, InsertCriterion(r, c) \/ SeedClaim(r, c) PROVE DurableInv'
  BY <1>3, InsertCriterionStep, SeedClaimStep
<1> QED BY <1>1, <1>2, <1>3 DEF DurableNext

(* For any number of runs and criteria: a run that works on the task finds *)
(* it set up under its own contract however its predecessors died, no      *)
(* claim is without its criterion, and no criterion or claim is there      *)
(* twice unless two runs overlap (agent-loop).                             *)
THEOREM RunsLeaveItRight == DurableSpec => []RunLeavesItRight
<1>1. DurableInv => RunLeavesItRight
  BY DEF DurableInv
<1> QED BY <1>1, DurableInitOK, DurableStepOK, PTL DEF DurableSpec
=============================================================================
