--------------------------- MODULE DoneGateProofs ---------------------------
(***************************************************************************)
(* What holds of the done-gate for every set of criteria, checks, required *)
(* checks and files.                                                       *)
(***************************************************************************)
EXTENDS DoneGate, TLAPS

-----------------------------------------------------------------------------
(* Facts about the operators the gate is built from *)

(* Verifying a set of criteria changes nothing outside of it.              *)
LEMMA VerifyType ==
  ASSUME NEW cs \in [Criteria -> CriterionStatus \cup {"absent"}], NEW S
  PROVE  Verify(cs, S) \in [Criteria -> CriterionStatus \cup {"absent"}]
  BY DEF Verify, CriterionStatus

(* A contract the automatic paths went over has nothing left to review.    *)
LEMMA AutoVerifyExamines ==
  ASSUME NEW cs \in [Criteria -> CriterionStatus \cup {"absent"}],
         NEW c \in Criteria
  PROVE  AutoVerify(cs)[c] # "needs_review"
  BY DEF AutoVerify, Verify, Pending, Contract, CriterionStatus

(* A resolved contract has nothing left to review.                         *)
LEMMA ResolvedIsExamined ==
  ASSUME NEW cs, AllResolved(cs), NEW c \in Criteria
  PROVE  cs[c] # "needs_review"
  BY DEF AllResolved, Contract

(* All criteria verified is a way of being resolved.                       *)
LEMMA VerifiedIsResolved ==
  ASSUME NEW cs, AllVerified(cs)
  PROVE  AllResolved(cs)
  BY DEF AllVerified, AllResolved

(* Recording results keeps the matrix a matrix.                            *)
LEMMA RecordedType ==
  ASSUME TypeOK, NEW K, NEW P
  PROVE  Recorded(K, P) \in [Checks -> EntryStatus \cup {"none"}]
  BY DEF Recorded, TypeOK, EntryStatus

(* The automatic paths turn a criterion verified only when it was pending. *)
LEMMA AutoVerifyOnlyPending ==
  ASSUME NEW cs, NEW S, S \subseteq Pending(cs), NEW c \in Criteria,
         Verify(cs, S)[c] = "verified", cs[c] # "verified"
  PROVE  cs[c] \in {"needs_review", "skipped"}
  BY DEF Verify, Pending

-----------------------------------------------------------------------------
(* Type correctness *)

LEMMA TypeInit == Init => TypeOK
  BY GateAssumption DEF Init, TypeOK, InitialContract, TaskStatus, Phases,
     CriterionStatus

LEMMA TypeTree ==
  ASSUME TypeOK, TreeStep
  PROVE  TypeOK'
  BY DEF TypeOK, TreeStep, WriteFile, contract

LEMMA AtMostOneType ==
  ASSUME NEW S, NEW K \in AtMostOne(S)
  PROVE  K \subseteq S
  BY DEF AtMostOne

LEMMA TypeEvidence ==
  ASSUME TypeOK, EvidenceStep
  PROVE  TypeOK'
<1>1. ASSUME NEW K \in SUBSET Checks, NEW P \in SUBSET Checks, NEW F \in SUBSET Files,
             RecordEvidence(K, P, F), executed' \subseteq Checks
      PROVE  TypeOK'
  <2>1. matrix' \in [Checks -> EntryStatus \cup {"none"}]
    BY <1>1, RecordedType DEF RecordEvidence
  <2>2. criteria' \in [Criteria -> CriterionStatus \cup {"absent"}]
    BY <1>1, VerifyType DEF RecordEvidence, AutoVerify, TypeOK
  <2>3. QED
    BY <1>1, <2>1, <2>2 DEF RecordEvidence, TypeOK, TaskStatus, Phases
<1>2. ASSUME NEW K \in SUBSET Checks, NEW P \in SUBSET Checks,
             RunVerification(K, P)
      PROVE  TypeOK'
  BY <1>1, <1>2 DEF RunVerification, TypeOK
<1>3. ASSUME NEW K \in AtMostOne(CommandChecks), NEW ok \in BOOLEAN,
             NEW E \in SUBSET Checks, NEW F \in SUBSET Files, RunCommand(K, ok, E, F)
      PROVE  TypeOK'
  <2>1. K \in SUBSET Checks /\ (IF ok THEN K ELSE {}) \in SUBSET Checks
    BY AtMostOneType, GateAssumption
  <2> QED BY <1>1, <1>3, <2>1 DEF RunCommand, TypeOK
<1>4. ASSUME NEW K \in AtMostOne(Checks), NEW ok \in BOOLEAN,
             NEW E \in SUBSET Checks, RunTests(K, ok, E)
      PROVE  TypeOK'
  <2> DEFINE known == {k \in K : matrix[k] # "none"}
             passed == IF ok THEN known ELSE {}
  <2>1. known \subseteq Checks /\ passed \subseteq Checks
    BY AtMostOneType
  <2>2. matrix' = Recorded(known, passed) /\ reported' = (reported \ known) \cup passed
    BY <1>4 DEF RunTests
  <2>3. matrix' \in [Checks -> EntryStatus \cup {"none"}]
    BY <2>2, RecordedType
  <2> QED BY <1>4, <2>1, <2>2, <2>3 DEF RunTests, TypeOK
<1>5. ASSUME NEW k \in Checks, NEW s \in EntryStatus, VerifyCheck(k, s)
      PROVE  TypeOK'
  BY <1>5 DEF VerifyCheck, TypeOK, history
<1>6. QED
  BY <1>2, <1>3, <1>4, <1>5 DEF EvidenceStep

LEMMA NormalisedType ==
  ASSUME NEW word \in ToolWords
  PROVE  Normalised(word) \in CriterionStatus
  BY DEF Normalised, ToolWords, CriterionStatus

LEMMA FinishType ==
  ASSUME TypeOK
  PROVE  ContractAtFinish \in [Criteria -> CriterionStatus \cup {"absent"}]
  BY VerifyType DEF ContractAtFinish, AutoVerify, TypeOK

LEMMA TypeContract ==
  ASSUME TypeOK, ContractStep
  PROVE  TypeOK'
<1>1. ASSUME NEW c \in Criteria, AddCriterion(c)
      PROVE  TypeOK'
  BY <1>1 DEF AddCriterion, TypeOK, CriterionStatus, history
<1>2. ASSUME NEW c \in Criteria, NEW word \in ToolWords,
             UpdateAcceptance(c, word)
      PROVE  TypeOK'
  BY <1>2, NormalisedType DEF UpdateAcceptance, TypeOK, history
<1>3. ASSUME NEW s \in ToolStatuses, UpdateTaskStatus(s)
      PROVE  TypeOK'
  BY <1>3, GateAssumption DEF UpdateTaskStatus, TypeOK, contract, history
<1>4. CASE FinishRejected
  BY <1>4, FinishType DEF FinishRejected, TypeOK, history
<1>5. ASSUME NEW ok \in BOOLEAN, FinishAccepted(ok)
      PROVE  TypeOK'
  BY <1>5, FinishType DEF FinishAccepted, TypeOK, history, TaskStatus, Phases
<1>6. ASSUME NEW s \in {"blocked", "failed"}, FinishUnsuccessful(s)
      PROVE  TypeOK'
  BY <1>6 DEF FinishUnsuccessful, TypeOK, contract, history, TaskStatus, Phases
<1>7. CASE Escalate
  BY <1>7 DEF Escalate, TypeOK, contract, history, TaskStatus, Phases
<1>8. QED
  BY <1>1, <1>2, <1>3, <1>4, <1>5, <1>6, <1>7 DEF ContractStep

LEMMA TypeEnd ==
  ASSUME TypeOK, EndStep
  PROVE  TypeOK'
<1>1. CASE CloseTurn
  BY <1>1 DEF CloseTurn, TypeOK, contract, history, Phases
<1>2. CASE Finalize
  BY <1>2 DEF Finalize, End, TypeOK, contract, history, TaskStatus, Phases
<1>3. CASE QuietCompletion
  BY <1>3 DEF QuietCompletion, End, TypeOK, contract, history, TaskStatus, Phases
<1>4. CASE GiveUp
  BY <1>4 DEF GiveUp, End, TypeOK, contract, history, TaskStatus, Phases
<1>5. CASE Pause
  BY <1>5 DEF Pause, End, TypeOK, contract, history, TaskStatus, Phases
<1>6. QED
  BY <1>1, <1>2, <1>3, <1>4, <1>5 DEF EndStep

LEMMA TypeRun ==
  ASSUME TypeOK, RunStep
  PROVE  TypeOK'
<1>1. CASE Start
  BY <1>1 DEF Start, TypeOK, contract, history, TaskStatus, Phases
<1>2. CASE Resume
  BY <1>2 DEF Resume, TypeOK, InitialContract, history, CriterionStatus, Phases
<1>3. CASE Crash
  BY <1>3 DEF Crash, TypeOK, contract, history, Phases
<1>4. CASE CrashMidAutoVerify
  <2>1. criteria' \in [Criteria -> CriterionStatus \cup {"absent"}]
    BY <1>4, VerifyType DEF CrashMidAutoVerify, TypeOK
  <2>2. matrix' \in [Checks -> EntryStatus \cup {"none"}]
    BY <1>4, RecordedType DEF CrashMidAutoVerify, TypeOK
  <2>3. /\ reported' \subseteq Checks /\ executed' \subseteq Checks
        /\ filesTouched' \subseteq Files /\ unsaved' \in BOOLEAN
    BY <1>4, GateAssumption DEF CrashMidAutoVerify, TypeOK, history
  <2>4. QED
    BY <1>4, <2>1, <2>2, <2>3 DEF CrashMidAutoVerify, TypeOK, Phases
<1>5. QED
  BY <1>1, <1>2, <1>3, <1>4 DEF RunStep

LEMMA TypeStep == TypeOK /\ [Next]_gateVars => TypeOK'
<1>1. TypeOK /\ UNCHANGED gateVars => TypeOK'
  BY DEF TypeOK, gateVars
<1>2. QED
  BY <1>1, TypeTree, TypeEvidence, TypeContract, TypeEnd, TypeRun DEF Next

(* Every reachable state of the gate is well formed, and a run has an      *)
(* outcome exactly when it is closing or has ended.                        *)
THEOREM TypeCorrect == Spec => []TypeOK
  BY TypeInit, TypeStep, PTL DEF Spec

-----------------------------------------------------------------------------
(* A completed run is sound *)

IInv == TypeOK /\ CompletionSound

(* While the run is open nothing is claimed; only the steps below raise    *)
(* the outcome "completed", and none touches the contract, the matrix or   *)
(* the tree once it is raised.                                             *)
LEMMA SoundEvidence ==
  ASSUME IInv, EvidenceStep
  PROVE  CompletionSound'
<1>1. ASSUME NEW K, NEW P, NEW F, RecordEvidence(K, P, F)
      PROVE  CompletionSound'
  <2>1. CASE TestsEndRun(K, P)
    <3>1. criteria' = AutoVerify(criteria)
      BY <1>1, <2>1 DEF RecordEvidence
    <3>2. \A c \in Criteria : criteria'[c] # "needs_review"
      BY <3>1, AutoVerifyExamines DEF IInv, TypeOK
    <3>3. TestCheck \in reported'
      BY <1>1, <2>1 DEF RecordEvidence, TestsEndRun
    <3>4. filesTouched' # {} /\ CleanMatrix(matrix)'
      BY <1>1, <2>1 DEF RecordEvidence, TestsEndRun, CleanMatrix, Passed, Failed
    <3>5. QED
      BY <3>2, <3>3, <3>4 DEF CompletionSound
  <2>2. CASE ~TestsEndRun(K, P)
    BY <1>1, <2>2 DEF RecordEvidence, CompletionSound, Completing
  <2>3. QED
    BY <2>1, <2>2
<1>2. ASSUME NEW K, NEW ok, NEW E, RunTests(K, ok, E)
      PROVE  CompletionSound'
  BY <1>2 DEF RunTests, CompletionSound, Completing
<1>3. ASSUME NEW k \in Checks, NEW s \in EntryStatus, VerifyCheck(k, s)
      PROVE  CompletionSound'
  BY <1>3 DEF VerifyCheck, CompletionSound, Completing
<1>4. QED
  BY <1>1, <1>2, <1>3 DEF EvidenceStep, RunVerification, RunCommand

LEMMA SoundContract ==
  ASSUME IInv, ContractStep
  PROVE  CompletionSound'
<1>1. ASSUME NEW ok \in BOOLEAN, FinishAccepted(ok)
      PROVE  CompletionSound'
  <2>1. AllResolved(criteria')
    BY <1>1 DEF FinishAccepted
  <2>2. QED
    BY <2>1, ResolvedIsExamined DEF CompletionSound, AllResolved, Contract
<1>2. ASSUME NEW s \in {"blocked", "failed"}, FinishUnsuccessful(s)
      PROVE  CompletionSound'
  BY <1>2 DEF FinishUnsuccessful, CompletionSound, Completing
<1>3. CASE Escalate
  BY <1>3 DEF Escalate, CompletionSound, Completing
<1>4. CASE FinishRejected
  BY <1>4 DEF FinishRejected, CompletionSound, Completing
<1>5. CASE \/ \E c \in Criteria : AddCriterion(c)
           \/ \E c \in Criteria, word \in ToolWords : UpdateAcceptance(c, word)
           \/ \E s \in ToolStatuses : UpdateTaskStatus(s)
  BY <1>5 DEF AddCriterion, UpdateAcceptance, UpdateTaskStatus,
              CompletionSound, Completing
<1>6. QED
  BY <1>1, <1>2, <1>3, <1>4, <1>5 DEF ContractStep

LEMMA SoundEnd ==
  ASSUME IInv, EndStep
  PROVE  CompletionSound'
<1>1. CASE CloseTurn
  BY <1>1 DEF CloseTurn, IInv, CompletionSound, Completing, contract, history,
              AllResolved, Contract, CleanMatrix, Passed, Failed
<1>2. CASE Finalize \/ QuietCompletion
  <2>1. AllResolved(criteria) /\ criteria' = criteria
    BY <1>2, VerifiedIsResolved DEF Finalize, QuietCompletion, End, contract
  <2>2. QED
    BY <2>1, ResolvedIsExamined DEF CompletionSound, AllResolved, Contract
<1>3. CASE GiveUp \/ Pause
  BY <1>3 DEF GiveUp, Pause, End, CompletionSound, Completing
<1>4. QED
  BY <1>1, <1>2, <1>3 DEF EndStep

LEMMA SoundStep == IInv /\ [Next]_gateVars => CompletionSound'
<1> SUFFICES ASSUME IInv, [Next]_gateVars
             PROVE  CompletionSound'
  OBVIOUS
<1>1. CASE TreeStep
  BY <1>1 DEF TreeStep, WriteFile, CompletionSound, Completing
<1>2. CASE RunStep
  BY <1>2 DEF RunStep, Start, Resume, Crash, CrashMidAutoVerify,
              CompletionSound, Completing
<1>3. CASE UNCHANGED gateVars
  BY <1>3 DEF gateVars, IInv, CompletionSound, Completing, AllResolved,
              Contract, CleanMatrix, Passed, Failed
<1>4. QED
  BY <1>1, <1>2, <1>3, SoundEvidence, SoundContract, SoundEnd DEF Next

LEMMA SoundInit == Init => CompletionSound
  BY DEF Init, CompletionSound, Completing

(* A run reported as completed left no criterion unexamined, and one that  *)
(* is still failed or blocked was overruled only by a command reported as  *)
(* a passing test since the last edit, with no check failing.              *)
THEOREM CompletedRunsAreSound == Spec => []CompletionSound
<1>1. Init => IInv
  BY TypeInit, SoundInit DEF IInv
<1>2. IInv /\ [Next]_gateVars => IInv'
  BY TypeStep, SoundStep DEF IInv
<1>3. IInv => CompletionSound
  BY DEF IInv
<1>4. QED
  BY <1>1, <1>2, <1>3, PTL DEF Spec

-----------------------------------------------------------------------------
(* A criterion is verified on evidence *)

(* The steps that can make a criterion verified: an automatic path under a *)
(* clean matrix, or update_acceptance with the evidence it asks for.       *)
Automatic ==
  CleanMatrix(matrix') /\ \E S \in SUBSET Pending(criteria) : criteria' = Verify(criteria, S)
Explicit ==
  UNCHANGED matrix /\ \A c \in NewlyVerified : HasEvidence(c, matrix)

LEMMA AutomaticIsEvidenced ==
  ASSUME Automatic
  PROVE  EvidencedStep /\ OverrulingStep
<1>1. PICK S \in SUBSET Pending(criteria) : criteria' = Verify(criteria, S)
  BY DEF Automatic
<1>2. \A c \in NewlyVerified : criteria[c] \in {"needs_review", "skipped"}
  BY <1>1, AutoVerifyOnlyPending DEF NewlyVerified
<1>3. Passed(matrix') # {} /\ Failed(matrix') = {}
  BY DEF Automatic, CleanMatrix
<1>4. QED
  BY <1>2, <1>3 DEF EvidencedStep, OverrulingStep

LEMMA ExplicitIsEvidenced ==
  ASSUME Explicit
  PROVE  EvidencedStep /\ OverrulingStep
<1>1. \A c \in NewlyVerified : HasEvidence(c, matrix')
  BY DEF Explicit
<1>2. \A c \in NewlyVerified : Passed(matrix') # {}
  BY <1>1 DEF HasEvidence
<1>3. QED
  BY <1>1, <1>2 DEF EvidencedStep, OverrulingStep

LEMMA UnchangedIsEvidenced ==
  ASSUME NewlyVerified = {}
  PROVE  EvidencedStep /\ OverrulingStep
  BY DEF EvidencedStep, OverrulingStep

LEMMA EvidenceTools ==
  ASSUME TypeOK, EvidenceStep
  PROVE  Automatic \/ NewlyVerified = {}
<1>1. ASSUME NEW K, NEW P, NEW F, RecordEvidence(K, P, F)
      PROVE  Automatic \/ NewlyVerified = {}
  <2>1. CASE TestsEndRun(K, P)
    BY <1>1, <2>1 DEF RecordEvidence, TestsEndRun, Automatic, AutoVerify
  <2>2. CASE ~TestsEndRun(K, P)
    BY <1>1, <2>2 DEF RecordEvidence, NewlyVerified
  <2>3. QED
    BY <2>1, <2>2
<1>2. ASSUME NEW K, NEW ok, NEW E, RunTests(K, ok, E)
      PROVE  NewlyVerified = {}
  BY <1>2 DEF RunTests, NewlyVerified
<1>3. ASSUME NEW k \in Checks, NEW s \in EntryStatus, VerifyCheck(k, s)
      PROVE  NewlyVerified = {}
  BY <1>3 DEF VerifyCheck, NewlyVerified
<1>4. QED
  BY <1>1, <1>2, <1>3 DEF EvidenceStep, RunVerification, RunCommand

LEMMA ContractTools ==
  ASSUME TypeOK, ContractStep
  PROVE  Automatic \/ Explicit \/ NewlyVerified = {}
<1>1. ASSUME NEW c \in Criteria, AddCriterion(c)
      PROVE  NewlyVerified = {}
  BY <1>1 DEF AddCriterion, NewlyVerified, TypeOK
<1>2. ASSUME NEW c \in Criteria, NEW word \in ToolWords,
             UpdateAcceptance(c, word)
      PROVE  Explicit
  <2>1. \A d \in NewlyVerified : d = c /\ Normalised(word) = "verified"
    BY <1>2 DEF UpdateAcceptance, NewlyVerified, TypeOK
  <2>2. QED
    BY <1>2, <2>1 DEF UpdateAcceptance, Explicit
<1>3. CASE criteria' = ContractAtFinish /\ UNCHANGED matrix
  <2>1. CASE ~AllResolved(criteria) /\ CleanMatrix(matrix)
    BY <1>3, <2>1 DEF ContractAtFinish, Automatic, AutoVerify
  <2>2. CASE ~(~AllResolved(criteria) /\ CleanMatrix(matrix))
    BY <1>3, <2>2 DEF ContractAtFinish, NewlyVerified
  <2>3. QED
    BY <2>1, <2>2
<1>4. CASE UNCHANGED criteria
  BY <1>4 DEF NewlyVerified
<1>5. QED
  BY <1>1, <1>2, <1>3, <1>4
     DEF ContractStep, UpdateTaskStatus, FinishRejected, FinishAccepted,
         FinishUnsuccessful, Escalate, contract

LEMMA EvidencedNext ==
  TypeOK /\ [Next]_gateVars => EvidencedStep /\ OverrulingStep
<1> SUFFICES ASSUME TypeOK, [Next]_gateVars
             PROVE  Automatic \/ Explicit \/ NewlyVerified = {}
  BY AutomaticIsEvidenced, ExplicitIsEvidenced, UnchangedIsEvidenced
<1>1. CASE UNCHANGED criteria
  BY <1>1 DEF NewlyVerified
<1>2. CASE Resume
  BY <1>2 DEF Resume, InitialContract, NewlyVerified
<1>3. CASE CrashMidAutoVerify
  BY <1>3 DEF CrashMidAutoVerify, Automatic
<1>4. CASE EvidenceStep
  BY <1>4, EvidenceTools
<1>5. CASE ContractStep
  BY <1>5, ContractTools
<1>6. QED
  BY <1>1, <1>2, <1>3, <1>4, <1>5
     DEF Next, TreeStep, WriteFile, EndStep, CloseTurn, Finalize, QuietCompletion, GiveUp, Pause, End,
         RunStep, Start, Crash, gateVars, contract

(* Whatever the model calls and wherever the process dies, no criterion    *)
(* becomes verified without a passing check on record.                     *)
THEOREM VerificationIsEvidenced == Spec => VerifiedOnEvidence
  BY TypeCorrect, EvidencedNext, PTL DEF Spec, VerifiedOnEvidence

(* Nothing but the criterion's own evidence overrules a criterion that was *)
(* marked failed or blocked.                                               *)
THEOREM OverrulingIsEvidenced == Spec => FailedNeedsOwnEvidence
  BY TypeCorrect, EvidencedNext, PTL DEF Spec, FailedNeedsOwnEvidence

-----------------------------------------------------------------------------
(* A paused and a failed run are on disk as what they are *)

(* A run ends by the signal of its turn, which is written as it ends, or   *)
(* by one of the four ways of the loop; once it has ended no tool runs and *)
(* only a resumed run writes the status again.                             *)
LEMMA DurableStep ==
  ASSUME PauseAndFailureDurable, [Next]_gateVars
  PROVE  PauseAndFailureDurable'
<1>1. CASE TreeStep \/ EvidenceStep
  BY <1>1 DEF TreeStep, WriteFile, EvidenceStep, RunVerification, RunCommand, RecordEvidence,
              RunTests, VerifyCheck, PauseAndFailureDurable
<1>2. CASE ContractStep
  BY <1>2 DEF ContractStep, AddCriterion, UpdateAcceptance, UpdateTaskStatus,
              FinishRejected, FinishAccepted, FinishUnsuccessful, Escalate,
              PauseAndFailureDurable
<1>3. CASE EndStep
  BY <1>3 DEF EndStep, CloseTurn, Finalize, QuietCompletion, GiveUp, Pause, End,
              PauseAndFailureDurable
<1>4. CASE RunStep
  BY <1>4 DEF RunStep, Start, Resume, Crash, CrashMidAutoVerify,
              PauseAndFailureDurable
<1>5. CASE UNCHANGED gateVars
  BY <1>5 DEF gateVars, PauseAndFailureDurable
<1>6. QED
  BY <1>1, <1>2, <1>3, <1>4, <1>5 DEF Next

(* What a run reports as paused or failed is what resume and the status    *)
(* views find on disk, whatever way it ended by, but for a pause whose     *)
(* write failed.                                                           *)
THEOREM PausesAndFailuresAreDurable == Spec => []PauseAndFailureDurable
<1>1. Init => PauseAndFailureDurable
  BY DEF Init, PauseAndFailureDurable
<1>2. QED
  BY <1>1, DurableStep, PTL DEF Spec
=============================================================================
