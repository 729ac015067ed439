----------------------------- MODULE AgentLoop -----------------------------
(***************************************************************************)
(* The agent loop of Forge (agent-loop.ts) with its stage machine          *)
(* (stages.ts): one iteration refreshes the belief snapshot and the        *)
(* completion gate, picks a stage, and runs it; the LOCALIZE and EDIT      *)
(* stages call the model and execute its tool calls one by one.            *)
(*                                                                         *)
(* The state of the done-gate is that of DoneGate, whose tools are the     *)
(* conjuncts of the calls below.  How a run completes, gives up or pauses  *)
(* is written out here from the loop's own guards, so that LoopSpec =>     *)
(* Spec says that the loop keeps to the gate.                              *)
(*                                                                         *)
(* runVerifyStage is not modelled: nextStage never answers VERIFY, so the  *)
(* stage and its verifyFailed flag are unreachable.                        *)
(***************************************************************************)
EXTENDS DoneGate, Integers

CONSTANTS
  MaxIterations,  \* budget.maxIterations
  MaxErrors,      \* consecutive failed model calls that block the run (5)
  MaxQuiet,       \* consecutive turns without a tool call that do (4)
  MaxProbes,      \* DEFAULT_MAX_PROBES_PER_PASS (2)
  SharedBelief    \* does another process write the belief store?

ASSUME LoopAssumption ==
  /\ MaxIterations \in Nat
  /\ MaxErrors \in Nat \ {0}
  /\ MaxQuiet \in Nat \ {0}
  /\ MaxProbes \in Nat
  /\ SharedBelief \in BOOLEAN

VARIABLES
  pc,           \* "head" of the loop, in a "stage", in its tool "calls", "off"
  iteration, stage, probes, errors, quiet, canComplete, ranTests,
  belief,       \* what nextStage tells apart in the belief store
  newTop,       \* another hypothesis became the top one since the refresh
  dirty         \* history: the tree changed since the last suite run

counters == <<iteration, probes, errors, quiet>>
beliefs == <<belief, newTop>>
suite == <<ranTests, dirty>>
loopVars == <<pc, counters, stage, canComplete, suite, beliefs>>
vars == <<gateVars, loopVars>>

(* top: the best hypothesis that is neither disproven nor superseded, none, *)
(* contradicted, or by its confidence; open: the open claims, none of them, *)
(* all at confidence 0.5 and more, or one below; blocked: a claim is stale, *)
(* contradicted, or unverified at high risk.                                *)
Beliefs == [top : {"none", "contradicted", "weak", "strong"},
            open : {"none", "likely", "unsure"},
            blocked : BOOLEAN]

(* The initial hypothesis at confidence 0.5 and the claims of the contract  *)
(* at confidence 0 and low risk.                                            *)
InitialBelief == [top |-> "weak", open |-> "unsure", blocked |-> FALSE]

Stages == {"LOCALIZE", "PROBE", "EDIT", "REPAIR", "FINALIZE"}

LoopTypeOK ==
  /\ pc \in {"off", "head", "stage", "calls"}
  /\ pc = "off" <=> phase # "open"
  /\ iteration \in 0..MaxIterations
  /\ stage \in Stages
  /\ probes \in 0..MaxProbes
  /\ errors \in 0..(MaxErrors - 1)
  /\ quiet \in 0..(MaxQuiet - 1)
  /\ canComplete \in BOOLEAN
  /\ ranTests \in BOOLEAN /\ dirty \in BOOLEAN
  /\ belief \in Beliefs /\ newTop \in BOOLEAN

-----------------------------------------------------------------------------
(* Deciding *)

(* Mutant: skipped criteria count as done, as getCompletionStatus has it.  *)
ReadySkipping == AllResolved(criteria) /\ ~belief.blocked

(* evaluateCompletion as refreshBeliefSnapshot calls it.                    *)
Ready == AllVerified(criteria) /\ ~belief.blocked

(* Mutants: one probe too many; the verdict asked after the edit.          *)
ProbesOverBudget(ready, probed, b) ==
  CASE ready -> "FINALIZE"
    [] ~ready /\ b.open = "unsure" /\ probed <= MaxProbes -> "PROBE"
    [] OTHER -> "EDIT"

EditBeforeFinalize(ready, probed, b) ==
  CASE b.top = "strong" -> "EDIT"
    [] b.top # "strong" /\ ready -> "FINALIZE"
    [] OTHER -> "REPAIR"

(* nextStage; verifyFailed is never set and a probe is always available.    *)
NextStage(ready, probed, b) ==
  CASE ready -> "FINALIZE"
    [] ~ready /\ b.open = "unsure" /\ probed < MaxProbes -> "PROBE"
    [] OTHER -> IF b.top # "contradicted" /\ (b.top = "strong" \/ b.open # "none")
                  THEN "EDIT" ELSE "REPAIR"

-----------------------------------------------------------------------------
(* Starting and stopping *)

LoopInit ==
  /\ Init
  /\ pc = "off"
  /\ iteration = 0 /\ stage = "LOCALIZE" /\ canComplete = FALSE
  /\ probes = 0 /\ errors = 0 /\ quiet = 0
  /\ ranTests = FALSE /\ dirty = FALSE
  /\ belief = InitialBelief /\ newTop = FALSE

(* The InternalState of the run that enters the loop is that of LoopInit.   *)
Boot ==
  /\ Start
  /\ pc' = "head"
  /\ UNCHANGED <<counters, stage, canComplete, suite, beliefs>>

(* The memory of the run is gone: the next one starts afresh.               *)
Halt ==
  /\ pc' = "off"
  /\ iteration' = 0 /\ stage' = "LOCALIZE" /\ canComplete' = FALSE
  /\ probes' = 0 /\ errors' = 0 /\ quiet' = 0
  /\ ranTests' = FALSE /\ dirty' = FALSE
  /\ newTop' = FALSE

(* The belief store survives in Postgres; in memory it starts again.        *)
ResumeRun ==
  /\ Resume
  /\ belief' \in {belief, InitialBelief}
  /\ UNCHANGED <<pc, counters, stage, canComplete, suite, newTop>>

Die ==
  /\ \/ Crash
     \/ pc = "calls" /\ CrashMidAutoVerify
  /\ Halt
  /\ UNCHANGED belief

(* Claims or hypotheses written through the context server by others.       *)
BeliefWrite ==
  /\ SharedBelief
  /\ pc = "head"
  /\ \/ /\ \E o \in {"none", "likely", "unsure"}, x \in BOOLEAN :
             belief' = [belief EXCEPT !.open = o, !.blocked = x]
        /\ UNCHANGED newTop
     \/ /\ \E t \in {"none", "contradicted", "weak", "strong"} :
             belief' = [belief EXCEPT !.top = t]
        /\ newTop' \in BOOLEAN
  /\ UNCHANGED <<gateVars, pc, counters, stage, canComplete, suite>>

-----------------------------------------------------------------------------
(* One iteration up to the choice of its stage *)

Iterate ==
  /\ pc = "head"
  /\ iteration < MaxIterations
  /\ iteration' = iteration + 1
  /\ canComplete' = Ready
  /\ probes' = IF newTop THEN 0 ELSE probes
  /\ stage' = IF iteration = 0 THEN "LOCALIZE"
              ELSE NextStage(canComplete', probes', belief)
  /\ newTop' = FALSE
  /\ pc' = "stage"
  /\ UNCHANGED <<gateVars, errors, quiet, suite, belief>>

(* The iterations are used up, or at any earlier one the wall clock is.     *)
OutOfBudget ==
  /\ pc = "head"
  /\ outcome' = "paused" /\ phase' = "ended"
  /\ \/ status' = "paused" /\ UNCHANGED unsaved
     \/ unsaved' = TRUE /\ UNCHANGED status
  /\ UNCHANGED <<contract, filesTouched, executed, reported, belief>>
  /\ Halt

-----------------------------------------------------------------------------
(* The stages *)

InStage(S) == pc = "stage" /\ stage \in S
NextIteration == pc' = "head" /\ UNCHANGED <<gateVars, iteration, stage, canComplete, suite>>

(* The loop returns s; unlike a terminal signal this writes no status.      *)
Return(s) ==
  /\ outcome' = s /\ phase' = "ended"
  /\ UNCHANGED <<contract, filesTouched, status, history, belief>>
  /\ Halt

Probe ==
  /\ InStage({"PROBE"})
  /\ probes' = probes + 1
  /\ NextIteration
  /\ UNCHANGED <<errors, quiet, beliefs>>

(* The top hypothesis is disproven and the diagnostic ones are added.       *)
Repair ==
  /\ InStage({"REPAIR"})
  /\ \E t \in {"contradicted", "weak", "strong"} :
       belief' = [belief EXCEPT !.top = t]
  /\ probes' = 0
  /\ NextIteration
  /\ UNCHANGED <<errors, quiet, newTop>>

\* Mutant: the run completes and writes no status.
FinalizeUnwritten ==
  /\ InStage({"FINALIZE"})
  /\ outcome' = "completed" /\ phase' = "ended"
  /\ UNCHANGED <<contract, filesTouched, status, history, belief>>
  /\ Halt

FinalizeStage ==
  /\ InStage({"FINALIZE"})
  /\ status' = "completed" /\ outcome' = "completed" /\ phase' = "ended"
  /\ UNCHANGED <<contract, filesTouched, history, belief>>
  /\ Halt

(* handleCompletion, by what the model's completion is.                     *)
ModelStages == {"LOCALIZE", "EDIT"}

(* Both attempts of runCompletion failed.                                   *)
ModelError ==
  /\ InStage(ModelStages)
  /\ IF errors + 1 >= MaxErrors
       THEN Return("blocked")
       ELSE /\ errors' = errors + 1
            /\ NextIteration
            /\ UNCHANGED <<probes, quiet, beliefs>>

(* Mutant: a truncated turn is not charged to the budget.                  *)
TruncatedForFree ==
  /\ InStage(ModelStages)
  /\ errors' = 0
  /\ pc' = "head" /\ iteration' = iteration - 1
  /\ UNCHANGED <<gateVars, stage, canComplete, suite, probes, quiet, beliefs>>

(* Cut off at the token limit with no usable tool call.                     *)
ModelTruncated ==
  /\ InStage(ModelStages)
  /\ errors' = 0
  /\ NextIteration
  /\ UNCHANGED <<probes, quiet, beliefs>>

ModelQuiet ==
  /\ InStage(ModelStages)
  /\ CASE canComplete -> Return("completed")
       [] ~canComplete /\ quiet + 1 >= MaxQuiet -> Return("blocked")
       [] OTHER -> /\ quiet' = quiet + 1
                   /\ errors' = 0
                   /\ NextIteration
                   /\ UNCHANGED <<probes, beliefs>>

ModelCallsTools ==
  /\ InStage(ModelStages)
  /\ errors' = 0 /\ quiet' = 0
  /\ pc' = "calls"
  /\ UNCHANGED <<gateVars, iteration, probes, stage, canComplete, suite, beliefs>>

-----------------------------------------------------------------------------
(* The tool calls of one turn *)

(* A terminal signal breaks out of the calls; otherwise the next one is due. *)
CallReturns ==
  /\ UNCHANGED belief
  /\ IF phase' = "open"
       THEN UNCHANGED <<pc, counters, stage, canComplete, newTop>>
       ELSE Halt

EditCall(f) ==
  /\ WriteFile(f)
  /\ ranTests' = FALSE /\ dirty' = TRUE

(* edit_file whose old_string is not found: a path was named, so the guard  *)
(* reopens although nothing was written.                                    *)
FailedEditCall ==
  /\ UNCHANGED <<gateVars, dirty>>
  /\ ranTests' = FALSE

(* Any other command may change the tree, whether it looks like it or not. *)
ShellCall ==
  /\ \E E \in SUBSET Checks, F \in SUBSET Files : RunCommand({}, FALSE, E, F)
  /\ dirty' \in {dirty, TRUE} /\ UNCHANGED ranTests

(* rollback_checkpoint rewrites the tree and tells the gate nothing.       *)
RollbackCall ==
  /\ UNCHANGED <<gateVars, ranTests>>
  /\ dirty' = TRUE

(* The redundant-test guard: in EDIT a second run since the last edit is    *)
(* answered without being executed.                                         *)
Redundant == stage = "EDIT" /\ ranTests

(* run_tests, or a command isBuildOrTestCommand recognises, all of which    *)
(* commandCheckKind does but the linters.  It may touch files as well;     *)
(* `dirty` counts only what changes after it.                              *)
SuiteCall ==
  /\ ~Redundant
  /\ \E ok \in BOOLEAN, E \in SUBSET Checks :
       \/ \E K \in AtMostOne(CommandChecks), F \in SUBSET Files : RunCommand(K, ok, E, F)
       \/ \E K \in AtMostOne(Checks) : RunTests(K, ok, E)
  /\ IF phase' = "open" THEN ranTests' = TRUE /\ dirty' = FALSE ELSE TRUE

OtherCall ==
  /\ \/ \E K \in SUBSET Checks, P \in SUBSET Checks : RunVerification(K, P)
     \/ \E k \in Checks, s \in EntryStatus : VerifyCheck(k, s)
     \/ ContractStep
  /\ IF phase' = "open" THEN UNCHANGED suite ELSE TRUE

ToolCall ==
  /\ pc = "calls"
  /\ \/ \E f \in Files : EditCall(f)
     \/ FailedEditCall
     \/ ShellCall
     \/ RollbackCall
     \/ SuiteCall
     \/ OtherCall
  /\ CallReturns

(* All calls of the completion were handled and none was terminal; a turn   *)
(* whose calls were all denied or read-only is just this step.              *)
EndCalls ==
  /\ pc = "calls"
  /\ NextIteration
  /\ UNCHANGED <<probes, errors, quiet, beliefs>>

(* Mutant: only the completed signal is written.                           *)
CloseCompleted == outcome = "completed" /\ CloseTurn /\ UNCHANGED loopVars

Close == CloseTurn /\ UNCHANGED loopVars

-----------------------------------------------------------------------------
(* What the process does by itself, as opposed to the model's tool calls,   *)
(* the other writers and crashes.                                           *)
Progress ==
  \/ Boot \/ Iterate \/ OutOfBudget \/ Probe \/ Repair \/ FinalizeStage
  \/ ModelError \/ ModelTruncated \/ ModelQuiet \/ ModelCallsTools
  \/ EndCalls \/ Close

LoopNext == Progress \/ ToolCall \/ BeliefWrite \/ ResumeRun \/ Die

LoopSpec == LoopInit /\ [][LoopNext]_vars

(* A model call returns or fails, a completion has finitely many tool       *)
(* calls, and the process is scheduled until it exits.                      *)
FairLoopSpec == LoopSpec /\ WF_vars(Progress)

-----------------------------------------------------------------------------
(* Properties *)

(* The loop keeps to the done-gate: every way it ends a run and every tool  *)
(* call it executes is a step the gate allows; in particular the            *)
(* completion verdict cached at the head of the iteration still holds when  *)
(* FINALIZE or a quiet model uses it.                                       *)
LoopKeepsToGate == Spec

(* A model that goes quiet never completes a run: the gate opens only      *)
(* between iterations, the first one starts from an unexamined contract,   *)
(* and every later one that finds it open finalizes without asking the     *)
(* model (agent-loop.ts runWithId, handleCompletion; stages.ts).           *)
QuietNeverCompletes == InStage(ModelStages) => ~canComplete

(* A run reported as completed or failed is on disk as that: the one way   *)
(* to complete that writes nothing is the quiet model's                    *)
(* (agent-loop.ts runFinalizeStage, handleCompletion).                     *)
CompletedIsDurable == phase = "ended" /\ outcome \in {"completed", "failed"} => status = outcome

(* A run never goes on for ever: the model may err, truncate, go quiet,     *)
(* loop over its tools or probe as it likes, and others may keep changing   *)
(* the beliefs; the loop leaves the open phase.                             *)
RunsEnd == phase = "open" ~> phase # "open"

(* Every terminal signal reaches the disk unless the process dies first.    *)
SignalsAreWritten == phase = "closing" ~> phase \in {"ended", "down"}
=============================================================================
