----------------------------- MODULE DurableRun ------------------------------
(* The set-up of one task in the database: the task row, then one row and    *)
(* one claim per acceptance criterion, found by the text of the criterion.   *)
(* A run may die at any step and another run resume the task, perhaps while  *)
(* the first is still going; a set-up write that fails ends the run.         *)
(* The journal of shell commands is no part of the state: the loop's id for  *)
(* a row is not the uuid the column wants, so every insert is rejected and   *)
(* the error dropped, and a run that looks for running rows finds none.      *)
EXTENDS Naturals, FiniteSets

CONSTANTS Runs, Criteria

VARIABLES
  run,          \* run -> [phase, contract, seen]
  taskRow,      \* the task has its row
  criterionRows, \* criterion -> rows with its text
  claimRows,    \* criterion -> claims with its text
  overlap       \* two runs were alive at once

durableVars == <<run, taskRow, criterionRows, claimRows, overlap>>

Off == [phase |-> "off", contract |-> {}, seen |-> {}]
Alive(r) == run[r].phase \notin {"off", "ended"}
At(r, phase) == run[r].phase = phase
Goto(r, phase, seen) == run' = [run EXCEPT ![r].phase = phase, ![r].seen = seen]

DurableInit ==
  /\ run = [r \in Runs |-> Off] /\ taskRow = FALSE
  /\ criterionRows = [c \in Criteria |-> 0] /\ claimRows = [c \in Criteria |-> 0]
  /\ overlap = FALSE

(* run or resume: the contract is generated anew, from the request and the   *)
(* domains of this run.                                                      *)
StartRun(r) ==
  /\ At(r, "off")
  /\ \E contract \in SUBSET Criteria \ {{}} :
       run' = [run EXCEPT ![r] = [Off EXCEPT !.phase = "task", !.contract = contract]]
  /\ overlap' = (overlap \/ \E o \in Runs : Alive(o))
  /\ UNCHANGED <<taskRow, criterionRows, claimRows>>

(* initDurableState: a lookup, then an insert under the id of the task; the  *)
(* second insert of two runs is rejected and ends its run.                   *)
LookUpTask(r) ==
  /\ At(r, "task") /\ Goto(r, IF taskRow THEN "list" ELSE "insert", {})
  /\ UNCHANGED <<taskRow, criterionRows, claimRows, overlap>>

InsertTask(r) ==
  /\ At(r, "insert") /\ ~taskRow /\ taskRow' = TRUE /\ Goto(r, "list", {})
  /\ UNCHANGED <<criterionRows, claimRows, overlap>>

\* Mutant: rows are looked up by the criterion's id, which every run generates.
ExistingById == {}

Existing == {c \in Criteria : criterionRows[c] > 0}

ListCriteria(r) ==
  /\ At(r, "list") /\ Goto(r, "criteria", Existing)
  /\ UNCHANGED <<taskRow, criterionRows, claimRows, overlap>>

(* One transaction per criterion, then one per claim.                        *)
InsertCriterion(r, c) ==
  /\ At(r, "criteria") /\ c \in run[r].contract \ run[r].seen
  /\ criterionRows' = [criterionRows EXCEPT ![c] = @ + 1]
  /\ Goto(r, "criteria", run[r].seen \cup {c})
  /\ UNCHANGED <<taskRow, claimRows, overlap>>

(* The claims are listed once, like the criteria.                            *)
Claimed == {c \in Criteria : claimRows[c] > 0}

CriteriaDone(r) ==
  /\ At(r, "criteria") /\ run[r].contract \subseteq run[r].seen
  /\ Goto(r, "claims", Claimed)
  /\ UNCHANGED <<taskRow, criterionRows, claimRows, overlap>>

SeedClaim(r, c) ==
  /\ At(r, "claims") /\ c \in run[r].contract \ run[r].seen
  /\ claimRows' = [claimRows EXCEPT ![c] = @ + 1]
  /\ Goto(r, "claims", run[r].seen \cup {c})
  /\ UNCHANGED <<taskRow, criterionRows, overlap>>

(* reconcileInterruptedCommands finds nothing; the loop begins.              *)
BeginWork(r) ==
  /\ At(r, "claims") /\ run[r].contract \subseteq run[r].seen /\ Goto(r, "work", {})
  /\ UNCHANGED <<taskRow, criterionRows, claimRows, overlap>>

(* The run ends, its process dies, or a write of the set-up fails.           *)
RunEnds(r) ==
  /\ Alive(r) /\ run' = [run EXCEPT ![r] = [Off EXCEPT !.phase = "ended"]]
  /\ UNCHANGED <<taskRow, criterionRows, claimRows, overlap>>

DurableNext ==
  \E r \in Runs :
    \/ StartRun(r) \/ LookUpTask(r) \/ InsertTask(r) \/ ListCriteria(r) \/ CriteriaDone(r)
    \/ BeginWork(r) \/ RunEnds(r)
    \/ \E c \in Criteria : InsertCriterion(r, c) \/ SeedClaim(r, c)

DurableSpec == DurableInit /\ [][DurableNext]_durableVars
-----------------------------------------------------------------------------
(* A run that works on the task finds it set up whatever an earlier run had  *)
(* got done when it died, under another contract perhaps: a task row, a row  *)
(* and a claim for every criterion of its own contract; no claim is without  *)
(* its criterion, and unless two runs overlap none of them is there twice.   *)
RunLeavesItRight ==
  /\ \A r \in Runs : At(r, "work") =>
       taskRow /\ \A c \in run[r].contract : criterionRows[c] > 0 /\ claimRows[c] > 0
  /\ \A c \in Criteria : claimRows[c] > 0 => criterionRows[c] > 0
  /\ ~overlap => \A c \in Criteria : criterionRows[c] <= 1 /\ claimRows[c] <= 1
=============================================================================
