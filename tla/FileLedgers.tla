----------------------------- MODULE FileLedgers -----------------------------
(* The JSON files under stateDir: task state, evidence, failures, decisions  *)
(* and trace.  Each engine object caches the ledger of a task, changes the   *)
(* cached object first and then rewrites the whole file, which is torn while *)
(* it is written.  A loop and a command, or two loops, have engines of their *)
(* own on the same file.  One kind of file is followed at a time.            *)
EXTENDS Naturals, FiniteSets

CONSTANTS Engines, EntryIds

ASSUME SomeEntry == EntryIds # {}

VARIABLES
  kind,     \* "unset", or the kind of file
  file,     \* [state |-> "missing" | "torn" | "whole", ledger |-> ledger]
  cache,    \* engine -> [held |-> BOOLEAN, ledger |-> ledger]
  writing,  \* engine -> [op |-> operation under way or "none", id |-> entry]
  owed,     \* what callers were told is recorded and nothing excuses losing
  dirty,    \* engines whose last write was rejected before it began
  behind    \* engines that hold a ledger another engine has rewritten since

ledgerVars == <<kind, file, cache, writing, owed, dirty, behind>>

(* The failure ledger is the evidence ledger without the updates.             *)
Kinds == {"task", "evidence", "decisions", "trace"}

(* A ledger gives the state of each entry: "updated" stands for evidence     *)
(* added, an entry marked, a subtask completed, a question resolved, a       *)
(* decision made human.                                                      *)
Ledger == [EntryIds -> {"absent", "added", "updated"}]
NoEntries == [i \in EntryIds |-> "absent"]
AtLeast(s, t) == t = "absent" \/ s = "updated" \/ s = t
Covers(l, m) == \A i \in EntryIds : AtLeast(l[i], m[i])

Unheld == [held |-> FALSE, ledger |-> NoEntries]
Free == [op |-> "none", id |-> CHOOSE i \in EntryIds : TRUE]
Busy(e) == writing[e].op # "none"

Others(e) == Engines \ {e}
OtherWrites(e) == \E o \in Others(e) : Busy(o)

LedgerInit ==
  /\ kind = "unset"
  /\ file = [state |-> "missing", ledger |-> NoEntries]
  /\ cache = [e \in Engines |-> Unheld] /\ writing = [e \in Engines |-> Free]
  /\ owed = NoEntries /\ dirty = {} /\ behind = {}

Choose == kind = "unset" /\ kind' \in Kinds /\ UNCHANGED <<file, cache, writing, owed, dirty, behind>>

(* getTask, getLedger: a file that cannot be read or parsed is a ledger that *)
(* is not there; record of the trace is the one caller that never reads it.  *)
Found(e, readable) == cache[e].held \/ (readable /\ kind # "trace" /\ file.state = "whole")

\* Mutant: a ledger that is not cached is a new one.
LedgerOfUnread(e, readable) == cache[e].ledger

LedgerOf(e, readable) == IF cache[e].held \/ ~Found(e, readable) THEN cache[e].ledger ELSE file.ledger

(* A whole file is taken for none.                                           *)
Blind(e, readable) == ~readable /\ ~cache[e].held /\ file.state = "whole"

(* Nothing is owed of a file that a second engine writes from an older copy  *)
(* or at the same time, that is written over unread, of a reset trace, or of *)
(* a torn file.                                                              *)
OwedIf(condition) == owed' = IF condition THEN owed ELSE NoEntries

BeginWrite(e, l, op, i) ==
  /\ cache' = [cache EXCEPT ![e] = [held |-> TRUE, ledger |-> l]]
  /\ file' = [file EXCEPT !.state = "torn"]
  /\ writing' = [writing EXCEPT ![e] = [op |-> op, id |-> i]]
  /\ behind' = {o \in Others(e) : cache[o].held} \cup (behind \cap {e})
  /\ dirty' = dirty \ {e}
  /\ UNCHANGED kind

(* mkdir or the opening of the file fails: the cached ledger is changed.     *)
RejectWrite(e, l, readable) ==
  /\ cache' = [cache EXCEPT ![e] = [held |-> TRUE, ledger |-> l]]
  /\ dirty' = dirty \cup {e}
  /\ behind' = behind \cup {o \in {e} : ~cache[o].held /\ (OtherWrites(o) \/ Blind(o, readable))}
  /\ UNCHANGED <<kind, file, writing, owed>>

Rewrite(e, l, op, i, readable) ==
  \/ BeginWrite(e, l, op, i) /\ OwedIf(e \notin behind /\ ~OtherWrites(e) /\ ~Blind(e, readable))
  \/ RejectWrite(e, l, readable)

(* addEntry, record and the add operations of the task; a human decision is  *)
(* added as the agent's and rewritten.                                       *)
Add(e, i) ==
  /\ kind # "unset" /\ ~Busy(e)
  /\ owed[i] = "absent"
  /\ kind = "trace" /\ ~cache[e].held => file.state = "missing"
  /\ \E readable \in BOOLEAN, op \in {"add"} \cup (IF kind = "decisions" THEN {"human"} ELSE {}) :
       /\ kind = "task" => Found(e, readable)
       /\ LedgerOf(e, readable)[i] = "absent"
       /\ Rewrite(e, [LedgerOf(e, readable) EXCEPT ![i] = "added"], op, i, readable)

(* The update operations find the entry in the ledger or do nothing.         *)
UpdateEntry(e, i) ==
  /\ kind \in {"task", "evidence", "trace"} /\ ~Busy(e)
  /\ Found(e, TRUE) /\ LedgerOf(e, TRUE)[i] = "added"
  /\ Rewrite(e, [LedgerOf(e, TRUE) EXCEPT ![i] = "updated"], "update", i, TRUE)

(* addFileTouched and its kind write nothing when the value is there.        *)
AddAgain(e, i) ==
  /\ kind = "task" /\ ~Busy(e) /\ Found(e, TRUE) /\ LedgerOf(e, TRUE)[i] # "absent"
  /\ cache' = [cache EXCEPT ![e] = [held |-> TRUE, ledger |-> LedgerOf(e, TRUE)]]
  /\ owed' = [owed EXCEPT ![i] = IF e \in behind \/ file.state = "torn" \/ @ # "absent" THEN @ ELSE "added"]
  /\ UNCHANGED <<kind, file, writing, dirty, behind>>

(* createTask for a task that is not found; initTask at the start of every   *)
(* run, of a resumed one too.                                                *)
Create(e) ==
  /\ ~Busy(e) /\ kind = "task"
  /\ \E readable \in BOOLEAN : ~Found(e, readable) /\ Rewrite(e, NoEntries, "create", Free.id, readable)

InitTrace(e) ==
  /\ ~Busy(e) /\ kind = "trace"
  /\ BeginWrite(e, NoEntries, "create", Free.id) /\ OwedIf(FALSE)

(* resumeTask reads the file whatever the cache holds.                       *)
ResumeTask(e) ==
  /\ kind = "task" /\ ~Busy(e) /\ file.state = "whole"
  /\ BeginWrite(e, file.ledger, "create", Free.id) /\ OwedIf(e \notin dirty)

(* writeFile ends: the call returns, or the human decision is written again. *)
WriteEnds(e) ==
  LET op == writing[e].op  i == writing[e].id IN
  /\ Busy(e)
  /\ IF op = "human"
     THEN /\ cache' = [cache EXCEPT ![e].ledger[i] = "updated"]
          /\ writing' = [writing EXCEPT ![e].op = "update"]
          /\ UNCHANGED <<file, owed, behind>>
     ELSE /\ file' = IF OtherWrites(e) THEN file ELSE [state |-> "whole", ledger |-> cache[e].ledger]
          /\ writing' = [writing EXCEPT ![e] = Free]
          /\ owed' = IF op = "create" \/ e \in behind \/ OtherWrites(e) THEN owed
                     ELSE [owed EXCEPT ![i] = cache[e].ledger[i]]
          /\ behind' = {o \in Others(e) : cache[o].held} \cup (behind \cap {e})
          /\ UNCHANGED cache
  /\ UNCHANGED <<kind, dirty>>

(* The process of an engine ends, or its write fails half way: what it had   *)
(* begun to write is torn.                                                   *)
Crash(e) ==
  /\ cache[e].held
  /\ cache' = [cache EXCEPT ![e] = Unheld] /\ writing' = [writing EXCEPT ![e] = Free]
  /\ OwedIf(~Busy(e) /\ e \notin dirty)
  /\ dirty' = dirty \ {e} /\ behind' = behind \ {e}
  /\ UNCHANGED <<kind, file>>

(* A reader: getLedger, getTask and getLog keep what they load.              *)
Read(e) ==
  /\ kind # "unset" /\ ~Busy(e) /\ ~cache[e].held /\ file.state = "whole"
  /\ cache' = [cache EXCEPT ![e] = [held |-> TRUE, ledger |-> file.ledger]]
  /\ UNCHANGED <<kind, file, writing, owed, dirty, behind>>

LedgerNext ==
  \/ Choose
  \/ \E e \in Engines :
       \/ \E i \in EntryIds : Add(e, i) \/ UpdateEntry(e, i) \/ AddAgain(e, i)
       \/ Create(e) \/ InitTrace(e) \/ ResumeTask(e) \/ WriteEnds(e) \/ Crash(e) \/ Read(e)

LedgerSpec == LedgerInit /\ [][LedgerNext]_ledgerVars
-----------------------------------------------------------------------------
(* What a caller was told is recorded survives every restart, unless a crash *)
(* tore the file, an engine that could not read it wrote over it, a second   *)
(* one did from an older copy or at the same time, a write failed and the    *)
(* engine that still holds the entry went away, or a new run reset the       *)
(* trace; and a file no one writes is whole, unless nothing is owed of it.   *)
LedgersKeep ==
  /\ \A i \in EntryIds :
       \/ file.state = "torn" /\ ((\E e \in Engines : Busy(e)) \/ owed = NoEntries)
       \/ file.state # "torn" /\ AtLeast(file.ledger[i], owed[i])
       \/ \E e \in dirty : AtLeast(cache[e].ledger[i], owed[i])
  /\ \A e \in Engines : cache[e].held /\ e \notin behind /\ dirty \subseteq {e} => Covers(cache[e].ledger, owed)
=============================================================================
