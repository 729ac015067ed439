-------------------------- MODULE AgentLoopProofs --------------------------
(***************************************************************************)
(* The agent loop implements the done-gate for every set of criteria,      *)
(* checks and files and for every threshold; what is proved of the gate    *)
(* therefore holds of the loop.                                            *)
(***************************************************************************)
EXTENDS AgentLoop, DoneGateProofs

(* The verdict and the stage chosen at the head of an iteration are still  *)
(* right when the stage runs.                                              *)
Snapshot ==
  pc = "stage" =>
    /\ canComplete => AllVerified(criteria)
    /\ stage = "FINALIZE" => canComplete
    /\ stage = "PROBE" => probes < MaxProbes

LoopIInv == LoopTypeOK /\ Snapshot

-----------------------------------------------------------------------------
(* Lemmas *)

(* nextStage finalizes only on the gate's verdict and probes only within   *)
(* the budget of the pass.                                                 *)
LEMMA NextStageSound ==
  ASSUME NEW ready \in BOOLEAN, NEW probed \in Nat, NEW b \in Beliefs
  PROVE  /\ NextStage(ready, probed, b) \in Stages
         /\ NextStage(ready, probed, b) = "FINALIZE" => ready
         /\ NextStage(ready, probed, b) = "PROBE" => probed < MaxProbes
  BY DEF NextStage, Stages

LEMMA InitialBeliefType == InitialBelief \in Beliefs
  BY DEF InitialBelief, Beliefs

(* Zero is within every threshold.                                         *)
LEMMA ZeroIsBounded ==
  /\ 0 \in 0..MaxIterations
  /\ 0 \in 0..MaxProbes
  /\ 0 \in 0..(MaxErrors - 1)
  /\ 0 \in 0..(MaxQuiet - 1)
  BY LoopAssumption

(* A run that stopped leaves the state a run starts from.                  *)
LEMMA HaltInv ==
  ASSUME LoopTypeOK, Halt, phase' # "open", belief' \in Beliefs
  PROVE  LoopIInv'
  BY ZeroIsBounded DEF LoopTypeOK, Halt, LoopIInv, Snapshot, Stages

(* Going back to the head of the loop keeps the invariant when the         *)
(* counters of the stage do.                                               *)
LEMMA HeadInv ==
  ASSUME LoopTypeOK, phase = "open", NextIteration,
         probes' \in 0..MaxProbes, errors' \in 0..(MaxErrors - 1),
         quiet' \in 0..(MaxQuiet - 1), belief' \in Beliefs, newTop' \in BOOLEAN
  PROVE  LoopIInv'
  BY DEF LoopTypeOK, NextIteration, LoopIInv, Snapshot, gateVars, suite

LEMMA InitInv == LoopInit => LoopIInv
  BY ZeroIsBounded, InitialBeliefType
     DEF LoopInit, Init, LoopIInv, LoopTypeOK, Snapshot, Stages

-----------------------------------------------------------------------------
(* The invariant *)

LEMMA HeadSteps ==
  ASSUME LoopIInv, Boot \/ Iterate \/ OutOfBudget \/ BeliefWrite
  PROVE  LoopIInv'
<1>1. CASE Boot
  BY <1>1 DEF Boot, Start, LoopIInv, LoopTypeOK, Snapshot, counters, suite, beliefs
<1>2. CASE Iterate
  <2>1. canComplete' \in BOOLEAN /\ (canComplete' => AllVerified(criteria'))
    BY <1>2 DEF Iterate, Ready, gateVars, LoopIInv, LoopTypeOK, AllVerified
  <2>2. probes' \in 0..MaxProbes
    BY <1>2, LoopAssumption DEF Iterate, LoopIInv, LoopTypeOK
  <2>3. probes' \in Nat /\ belief \in Beliefs
    BY <2>2 DEF LoopIInv, LoopTypeOK
  <2>4. /\ stage' \in Stages
        /\ stage' = "FINALIZE" => canComplete'
        /\ stage' = "PROBE" => probes' < MaxProbes
    <3>1. CASE iteration = 0
      BY <1>2, <3>1 DEF Iterate, Stages
    <3>2. CASE iteration # 0
      <4>1. stage' = NextStage(canComplete', probes', belief)
        BY <1>2, <3>2 DEF Iterate
      <4>2. QED
        BY <4>1, <2>1, <2>3, NextStageSound
    <3>3. QED
      BY <3>1, <3>2
  <2>5. iteration' \in 0..MaxIterations
    BY <1>2, LoopAssumption DEF Iterate, LoopIInv, LoopTypeOK
  <2>6. QED
    BY <1>2, <2>1, <2>2, <2>4, <2>5
       DEF Iterate, LoopIInv, LoopTypeOK, Snapshot, gateVars, suite
<1>3. CASE OutOfBudget
  BY <1>3, HaltInv DEF OutOfBudget, LoopIInv, LoopTypeOK
<1>4. CASE BeliefWrite
  <2>1. belief' \in Beliefs /\ newTop' \in BOOLEAN
    BY <1>4 DEF BeliefWrite, LoopIInv, LoopTypeOK, Beliefs
  <2>2. QED
    BY <1>4, <2>1 DEF BeliefWrite, LoopIInv, LoopTypeOK, Snapshot, gateVars,
       counters, suite
<1>5. QED
  BY <1>1, <1>2, <1>3, <1>4

(* A stage runs only while the run is open.                                *)
LEMMA StageIsOpen ==
  ASSUME LoopIInv, pc \in {"stage", "calls"}
  PROVE  phase = "open"
  BY DEF LoopIInv, LoopTypeOK

LEMMA StageSteps ==
  ASSUME LoopIInv, Probe \/ Repair \/ FinalizeStage
  PROVE  LoopIInv'
<1>1. CASE Probe
  BY <1>1, StageIsOpen, HeadInv, LoopAssumption
     DEF Probe, InStage, LoopIInv, LoopTypeOK, Snapshot, beliefs
<1>2. CASE Repair
  <2>1. belief' \in Beliefs
    BY <1>2 DEF Repair, LoopIInv, LoopTypeOK, Beliefs
  <2>2. QED
    BY <1>2, <2>1, StageIsOpen, HeadInv, LoopAssumption
       DEF Repair, InStage, LoopIInv, LoopTypeOK
<1>3. CASE FinalizeStage
  BY <1>3, HaltInv DEF FinalizeStage, LoopIInv, LoopTypeOK
<1>4. QED
  BY <1>1, <1>2, <1>3

LEMMA ReturnInv ==
  ASSUME LoopIInv, NEW s, Return(s)
  PROVE  LoopIInv'
  BY HaltInv DEF Return, LoopIInv, LoopTypeOK

LEMMA ModelSteps ==
  ASSUME LoopIInv, ModelError \/ ModelTruncated \/ ModelQuiet \/ ModelCallsTools
  PROVE  LoopIInv'
<1>1. CASE ModelError
  <2>1. CASE errors + 1 >= MaxErrors
    BY <1>1, <2>1, ReturnInv DEF ModelError
  <2>2. CASE ~(errors + 1 >= MaxErrors)
    <3>1. errors' \in 0..(MaxErrors - 1)
      BY <1>1, <2>2, LoopAssumption DEF ModelError, LoopIInv, LoopTypeOK
    <3>2. QED
      BY <1>1, <2>2, <3>1, StageIsOpen, HeadInv
         DEF ModelError, InStage, LoopIInv, LoopTypeOK, beliefs
  <2>3. QED
    BY <2>1, <2>2
<1>2. CASE ModelTruncated
  BY <1>2, StageIsOpen, HeadInv, LoopAssumption
     DEF ModelTruncated, InStage, LoopIInv, LoopTypeOK, beliefs
<1>3. CASE ModelQuiet
  <2>1. CASE canComplete
    BY <1>3, <2>1, ReturnInv DEF ModelQuiet
  <2>2. CASE ~canComplete /\ quiet + 1 >= MaxQuiet
    BY <1>3, <2>2, ReturnInv DEF ModelQuiet
  <2>3. CASE ~canComplete /\ ~(quiet + 1 >= MaxQuiet)
    <3>1. quiet' \in 0..(MaxQuiet - 1)
      BY <1>3, <2>3, LoopAssumption DEF ModelQuiet, LoopIInv, LoopTypeOK
    <3>2. QED
      BY <1>3, <2>3, <3>1, StageIsOpen, HeadInv, LoopAssumption
         DEF ModelQuiet, InStage, LoopIInv, LoopTypeOK, beliefs
  <2>4. QED
    BY <2>1, <2>2, <2>3
<1>4. CASE ModelCallsTools
  BY <1>4, StageIsOpen, LoopAssumption
     DEF ModelCallsTools, InStage, LoopIInv, LoopTypeOK, Snapshot, gateVars,
         suite, beliefs
<1>5. QED
  BY <1>1, <1>2, <1>3, <1>4

LEMMA CallSteps ==
  ASSUME LoopIInv, ToolCall \/ EndCalls \/ Close
  PROVE  LoopIInv'
<1>1. CASE ToolCall
  <2>1. belief' \in Beliefs
    BY <1>1 DEF ToolCall, CallReturns, LoopIInv, LoopTypeOK
  <2>2. CASE phase' = "open"
    <3>1. ranTests' \in BOOLEAN /\ dirty' \in BOOLEAN
      BY <1>1, <2>2
         DEF ToolCall, EditCall, FailedEditCall, ShellCall, RollbackCall,
             SuiteCall, OtherCall, LoopIInv, LoopTypeOK, suite
    <3>2. QED
      BY <1>1, <2>1, <2>2, <3>1
         DEF ToolCall, CallReturns, LoopIInv, LoopTypeOK, Snapshot, counters
  <2>3. CASE phase' # "open"
    BY <1>1, <2>1, <2>3, HaltInv DEF ToolCall, CallReturns, LoopIInv
  <2>4. QED
    BY <2>2, <2>3
<1>2. CASE EndCalls
  BY <1>2, StageIsOpen, HeadInv DEF EndCalls, LoopIInv, LoopTypeOK, beliefs
<1>3. CASE Close
  BY <1>3 DEF Close, CloseTurn, LoopIInv, LoopTypeOK, Snapshot, loopVars,
     counters, suite, beliefs
<1>4. QED
  BY <1>1, <1>2, <1>3

LEMMA OutsideSteps ==
  ASSUME LoopIInv, ResumeRun \/ Die
  PROVE  LoopIInv'
<1>1. CASE ResumeRun
  <2>1. belief' \in Beliefs
    BY <1>1, InitialBeliefType DEF ResumeRun, LoopIInv, LoopTypeOK
  <2>2. pc = "off" /\ phase' # "open"
    BY <1>1 DEF ResumeRun, Resume, LoopIInv, LoopTypeOK
  <2>3. QED
    BY <1>1, <2>1, <2>2
       DEF ResumeRun, LoopIInv, LoopTypeOK, Snapshot, counters, suite
<1>2. CASE Die
  BY <1>2, HaltInv DEF Die, Crash, CrashMidAutoVerify, LoopIInv, LoopTypeOK
<1>3. QED
  BY <1>1, <1>2

LEMMA InvStep == LoopIInv /\ [LoopNext]_vars => LoopIInv'
<1> SUFFICES ASSUME LoopIInv, [LoopNext]_vars
             PROVE  LoopIInv'
  OBVIOUS
<1>1. CASE LoopNext
  BY <1>1, HeadSteps, StageSteps, ModelSteps, CallSteps, OutsideSteps
     DEF LoopNext, Progress
<1>2. CASE UNCHANGED vars
  BY <1>2 DEF vars, gateVars, loopVars, counters, suite, beliefs, LoopIInv,
     LoopTypeOK, Snapshot, AllVerified, Contract
<1>3. QED
  BY <1>1, <1>2

LEMMA LoopInvariant == LoopSpec => []LoopIInv
  BY InitInv, InvStep, PTL DEF LoopSpec

(* The counters of the loop stay within their thresholds, and the loop is  *)
(* running exactly while the run is open (agent-loop.ts runWithId,         *)
(* handleCompletion).                                                      *)
THEOREM LoopTypeCorrect == LoopSpec => []LoopTypeOK
<1>1. LoopIInv => LoopTypeOK
  BY DEF LoopIInv
<1>2. QED
  BY <1>1, LoopInvariant, PTL

-----------------------------------------------------------------------------
(* The refinement *)

(* Every way the loop's own control ends a run is one the gate allows.     *)
LEMMA EndsRefine ==
  ASSUME LoopIInv,
         OutOfBudget \/ FinalizeStage \/ ModelError \/ ModelQuiet
  PROVE  [Next]_gateVars
<1>1. CASE OutOfBudget
  BY <1>1 DEF OutOfBudget, LoopIInv, LoopTypeOK, Next, EndStep, Pause, End
<1>2. CASE FinalizeStage
  <2>1. AllVerified(criteria) /\ phase = "open"
    BY <1>2, StageIsOpen DEF FinalizeStage, InStage, LoopIInv, Snapshot
  <2>2. QED
    BY <1>2, <2>1 DEF FinalizeStage, Next, EndStep, Finalize, End, history
<1>3. ASSUME Return("blocked"), phase = "open"
      PROVE  Next
  BY <1>3 DEF Return, Next, EndStep, GiveUp, End, history
<1>4. CASE ModelError
  BY <1>4, <1>3, StageIsOpen DEF ModelError, InStage, NextIteration
<1>5. CASE ModelQuiet
  <2>1. CASE canComplete
    <3>1. AllVerified(criteria) /\ phase = "open"
      BY <1>5, <2>1, StageIsOpen DEF ModelQuiet, InStage, LoopIInv, Snapshot
    <3>2. Return("completed")
      BY <1>5, <2>1 DEF ModelQuiet
    <3>3. QED
      BY <3>1, <3>2 DEF Return, Next, EndStep, QuietCompletion, End, history
  <2>2. CASE ~canComplete
    BY <1>5, <2>2, <1>3, StageIsOpen DEF ModelQuiet, InStage, NextIteration
  <2>3. QED
    BY <2>1, <2>2
<1>6. QED
  BY <1>1, <1>2, <1>4, <1>5

(* Every tool call the loop executes is a tool call of the gate.           *)
LEMMA CallIsAToolStep ==
  ASSUME ToolCall
  PROVE  TreeStep \/ EvidenceStep \/ ContractStep \/ UNCHANGED gateVars
<1>1. ASSUME NEW f \in Files, EditCall(f)
      PROVE  TreeStep
  BY <1>1 DEF EditCall, TreeStep
<1>2. CASE FailedEditCall \/ RollbackCall
  BY <1>2 DEF FailedEditCall, RollbackCall
<1>3. CASE ShellCall
  BY <1>3 DEF ShellCall, EvidenceStep, AtMostOne
<1>4. CASE SuiteCall
  BY <1>4 DEF SuiteCall, EvidenceStep
<1>5. CASE OtherCall
  BY <1>5 DEF OtherCall, EvidenceStep
<1>6. QED
  BY <1>1, <1>2, <1>3, <1>4, <1>5 DEF ToolCall

LEMMA CallsRefine ==
  ASSUME ToolCall
  PROVE  [Next]_gateVars
  BY CallIsAToolStep DEF Next

LEMMA LoopStepRefines == LoopIInv /\ [LoopNext]_vars => [Next]_gateVars
<1> SUFFICES ASSUME LoopIInv, [LoopNext]_vars
             PROVE  [Next]_gateVars
  OBVIOUS
<1>1. CASE Boot \/ ResumeRun \/ Die \/ Close
  BY <1>1 DEF Boot, ResumeRun, Die, Close, Next, RunStep, EndStep
<1>2. CASE Iterate \/ Probe \/ Repair \/ ModelTruncated \/ ModelCallsTools
           \/ EndCalls \/ BeliefWrite
  BY <1>2 DEF Iterate, Probe, Repair, ModelTruncated, ModelCallsTools,
     EndCalls, BeliefWrite, NextIteration
<1>3. CASE UNCHANGED vars
  BY <1>3 DEF vars
<1>4. QED
  BY <1>1, <1>2, <1>3, EndsRefine, CallsRefine DEF LoopNext, Progress

(* The agent loop implements the done-gate: every way its stages, budgets  *)
(* and tolerances end a run, and every tool call it executes, is a step of *)
(* the gate or leaves it alone (agent-loop.ts).                            *)
THEOREM LoopImplementsGate == LoopSpec => LoopKeepsToGate
<1>1. LoopInit => Init
  BY DEF LoopInit
<1>2. QED
  BY <1>1, LoopInvariant, LoopStepRefines, PTL
     DEF LoopSpec, LoopKeepsToGate, Spec

(* A run the loop reports as completed has examined every criterion, and   *)
(* one that leaves a criterion failed or blocked had a command reported as *)
(* a passing test since its last edit, and nothing on record as failing    *)
(* (agent-loop.ts, tools.ts handleFinishTask).                             *)
THEOREM LoopCompletionsAreSound == LoopSpec => []CompletionSound
  BY LoopImplementsGate, CompletedRunsAreSound DEF LoopKeepsToGate
-----------------------------------------------------------------------------
(* The quiet model *)

(* A run starts from a contract nobody verified, and stays there until its *)
(* first iteration is charged.                                             *)
Unexamined ==
  /\ pc = "off" => iteration = 0
  /\ pc \in {"stage", "calls"} => iteration # 0
  /\ phase = "starting" \/ (pc = "head" /\ iteration = 0) => ~AllVerified(criteria)

QuietIInv == LoopIInv /\ Unexamined /\ QuietNeverCompletes

(* The generated contract has a criterion, and it is not verified.         *)
LEMMA InitialIsUnverified == ~AllVerified(InitialContract)
<1>1. PICK c \in Generated : TRUE
  BY GateAssumption
<1>2. c \in Criteria /\ InitialContract[c] = "needs_review"
  BY <1>1, GateAssumption DEF InitialContract
<1>3. QED
  BY <1>2 DEF AllVerified, Contract

(* Only resuming starts a run again.                                       *)
LEMMA OpenNeverStarts ==
  ASSUME [Next]_gateVars, phase \in {"open", "closing"}
  PROVE  phase' # "starting"
<1>1. CASE TreeStep
  BY <1>1 DEF TreeStep, WriteFile
<1>2. CASE EvidenceStep
  BY <1>2 DEF EvidenceStep, RunVerification, RunCommand, RunTests, VerifyCheck,
     RecordEvidence
<1>3. CASE ContractStep
  BY <1>3 DEF ContractStep, AddCriterion, UpdateAcceptance, UpdateTaskStatus,
     FinishRejected, FinishAccepted, FinishUnsuccessful, Escalate
<1>4. CASE EndStep
  BY <1>4 DEF EndStep, CloseTurn, Finalize, QuietCompletion, GiveUp, Pause, End
<1>5. CASE RunStep
  BY <1>5 DEF RunStep, Start, Resume, Crash, CrashMidAutoVerify
<1>6. CASE UNCHANGED gateVars
  BY <1>6 DEF gateVars
<1>7. QED
  BY <1>1, <1>2, <1>3, <1>4, <1>5, <1>6 DEF Next

LEMMA QuietHead ==
  ASSUME QuietIInv, Boot \/ Iterate \/ BeliefWrite \/ ResumeRun
  PROVE  (Unexamined /\ QuietNeverCompletes)'
<1> USE DEF QuietIInv, Unexamined, QuietNeverCompletes, InStage
<1>1. CASE Boot
  BY <1>1 DEF Boot, Start, contract, counters, LoopIInv, LoopTypeOK,
     AllVerified, Contract
<1>2. CASE Iterate
  <2>1. phase' # "starting" /\ pc' = "stage"
    BY <1>2 DEF Iterate, gateVars, LoopIInv, LoopTypeOK
  <2>2. iteration' # 0
    BY <1>2, LoopAssumption DEF Iterate, LoopIInv, LoopTypeOK
  <2>3. CASE iteration = 0
    BY <1>2, <2>1, <2>2, <2>3 DEF Iterate, Ready
  <2>4. CASE iteration # 0 /\ canComplete'
    BY <1>2, <2>1, <2>2, <2>4 DEF Iterate, NextStage, ModelStages
  <2>5. CASE ~canComplete'
    BY <2>1, <2>2, <2>5
  <2>6. QED
    BY <2>3, <2>4, <2>5
<1>3. CASE BeliefWrite
  BY <1>3 DEF BeliefWrite, gateVars, counters, AllVerified, Contract
<1>4. CASE ResumeRun
  <2>1. pc' = "off" /\ iteration' = 0
    BY <1>4 DEF ResumeRun, Resume, counters, LoopIInv, LoopTypeOK
  <2>2. criteria' = InitialContract
    BY <1>4 DEF ResumeRun, Resume
  <2>3. QED
    BY <2>1, <2>2, InitialIsUnverified DEF AllVerified, Contract
<1>5. QED
  BY <1>1, <1>2, <1>3, <1>4

(* Every other step goes back to the head with its iteration charged, or   *)
(* into the tool calls, or stops the run.                                  *)
LEMMA QuietRest ==
  ASSUME QuietIInv, phase' # "starting",
         \/ NextIteration /\ pc \in {"stage", "calls"}
         \/ Halt
         \/ ModelCallsTools
         \/ UNCHANGED <<pc, iteration>> /\ pc \in {"calls", "off"}
  PROVE  (Unexamined /\ QuietNeverCompletes)'
  BY DEF QuietIInv, Unexamined, QuietNeverCompletes, InStage, NextIteration,
     Halt, ModelCallsTools

LEMMA QuietStep == QuietIInv /\ [LoopNext]_vars => QuietIInv'
<1> SUFFICES ASSUME QuietIInv, [LoopNext]_vars
             PROVE  (Unexamined /\ QuietNeverCompletes)'
  BY InvStep DEF QuietIInv
<1>1. LoopIInv /\ [Next]_gateVars
  BY LoopStepRefines DEF QuietIInv
<1>2. pc # "off" => phase' # "starting"
  BY <1>1, OpenNeverStarts DEF LoopIInv, LoopTypeOK
<1>3. CASE Probe \/ Repair \/ ModelTruncated \/ EndCalls
  BY <1>2, <1>3, QuietRest
     DEF Probe, Repair, ModelTruncated, EndCalls, InStage
<1>4. CASE OutOfBudget \/ FinalizeStage
  BY <1>2, <1>4, QuietRest DEF OutOfBudget, FinalizeStage, InStage
<1>5. CASE Die
  BY <1>5, QuietRest DEF Die, Crash, CrashMidAutoVerify
<1>6. CASE ModelError \/ ModelQuiet
  <2>1. pc = "stage"
    BY <1>6 DEF ModelError, ModelQuiet, InStage
  <2>2. NextIteration \/ Halt
    BY <1>6 DEF ModelError, ModelQuiet, Return
  <2>3. QED
    BY <1>2, <2>1, <2>2, QuietRest
<1>7. CASE ModelCallsTools
  BY <1>2, <1>7, QuietRest DEF ModelCallsTools, InStage
<1>8. CASE ToolCall
  BY <1>2, <1>8, QuietRest DEF ToolCall, CallReturns, counters
<1>9. CASE Close
  BY <1>1, <1>9, OpenNeverStarts, QuietRest
     DEF Close, CloseTurn, loopVars, counters, LoopIInv, LoopTypeOK
<1>10. CASE Boot \/ Iterate \/ BeliefWrite \/ ResumeRun
  BY <1>10, QuietHead
<1>11. CASE UNCHANGED vars
  BY <1>11 DEF vars, gateVars, loopVars, counters, QuietIInv, Unexamined,
     QuietNeverCompletes, InStage, AllVerified, Contract
<1>12. QED
  BY <1>3, <1>4, <1>5, <1>6, <1>7, <1>8, <1>9, <1>10, <1>11
     DEF LoopNext, Progress

(* A model that stops calling tools never completes a run: the branch of   *)
(* handleCompletion that returns "completed" for it is unreachable, since  *)
(* the first iteration starts from an unexamined contract and a later one  *)
(* that finds the gate open finalizes before the model is asked.           *)
THEOREM QuietModelNeverCompletes == LoopSpec => []QuietNeverCompletes
<1>1. LoopInit => QuietIInv
  BY InitInv, InitialIsUnverified
     DEF LoopInit, Init, QuietIInv, Unexamined, QuietNeverCompletes, InStage
<1>2. QuietIInv => QuietNeverCompletes
  BY DEF QuietIInv
<1>3. QED
  BY <1>1, <1>2, QuietStep, PTL DEF LoopSpec

(* A completed run writes its status: FINALIZE and CloseTurn do so as they *)
(* end it, and nobody else ends it as completed.                           *)
LEMMA DurableLoopStep ==
  ASSUME QuietIInv, CompletedIsDurable, [LoopNext]_vars
  PROVE  CompletedIsDurable'
<1>1. CASE OutOfBudget \/ FinalizeStage \/ Close
  BY <1>1 DEF OutOfBudget, FinalizeStage, Close, CloseTurn, CompletedIsDurable
<1>2. ASSUME Return("blocked")
      PROVE  CompletedIsDurable'
  BY <1>2 DEF Return, CompletedIsDurable
<1>3. CASE Probe \/ Repair \/ ModelTruncated \/ ModelCallsTools \/ EndCalls \/ Iterate \/ BeliefWrite
  BY <1>3 DEF Probe, Repair, ModelTruncated, ModelCallsTools, EndCalls, Iterate, BeliefWrite,
     NextIteration, gateVars, CompletedIsDurable
<1>4. CASE ModelError
  BY <1>2, <1>4 DEF ModelError, NextIteration, gateVars, CompletedIsDurable
<1>5. CASE ModelQuiet
  <2>1. ~canComplete
    BY <1>5 DEF ModelQuiet, QuietIInv, QuietNeverCompletes
  <2> QED BY <1>2, <1>5, <2>1 DEF ModelQuiet, NextIteration, gateVars, CompletedIsDurable
<1>6. CASE ToolCall
  <2>1. phase = "open"
    BY <1>6 DEF ToolCall, QuietIInv, LoopIInv, LoopTypeOK
  <2>2. phase' # "ended"
    <3>1. CASE UNCHANGED gateVars
      BY <2>1, <3>1 DEF gateVars
    <3>2. CASE TreeStep \/ EvidenceStep \/ ContractStep
      BY <2>1, <3>2 DEF TreeStep, WriteFile, EvidenceStep, RunVerification, RunCommand, RunTests,
         VerifyCheck, RecordEvidence, ContractStep, AddCriterion, UpdateAcceptance,
         UpdateTaskStatus, FinishRejected, FinishAccepted, FinishUnsuccessful, Escalate
    <3> QED BY <1>6, <3>1, <3>2, CallIsAToolStep
  <2> QED BY <2>2 DEF CompletedIsDurable
<1>7. CASE Boot \/ ResumeRun \/ Die
  BY <1>7 DEF Boot, Start, ResumeRun, Resume, Die, Crash, CrashMidAutoVerify, CompletedIsDurable
<1>8. CASE UNCHANGED vars
  BY <1>8 DEF vars, gateVars, CompletedIsDurable
<1> QED BY <1>1, <1>3, <1>4, <1>5, <1>6, <1>7, <1>8 DEF LoopNext, Progress

(* What a run reports as completed or failed is on disk, for any           *)
(* thresholds and any behaviour of the model.                              *)
THEOREM CompletionsAreDurable == LoopSpec => []CompletedIsDurable
<1>1. LoopInit => QuietIInv /\ CompletedIsDurable
  BY InitInv, InitialIsUnverified
     DEF LoopInit, Init, QuietIInv, Unexamined, QuietNeverCompletes, InStage, CompletedIsDurable
<1>2. QuietIInv /\ CompletedIsDurable /\ [LoopNext]_vars => (QuietIInv /\ CompletedIsDurable)'
  BY QuietStep, DurableLoopStep
<1> QED BY <1>1, <1>2, PTL DEF LoopSpec
=============================================================================
