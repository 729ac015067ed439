------------------------------ MODULE DoneGate ------------------------------
(***************************************************************************)
(* The evidence-backed done-gate of Forge: the acceptance contract, the    *)
(* verification matrix, the task status on disk and every tool of the      *)
(* agent that reads or writes them (forge-agent/src/tools.ts), together    *)
(* with the part of the loop that ends a run (agent-loop.ts).              *)
(*                                                                         *)
(* The model may call the tools in any order with any arguments, a run may *)
(* end in each of the ways the loop ends it, and the process may crash     *)
(* and be resumed at any point.  AgentLoop refines this specification with *)
(* the loop's own control; nothing here depends on it.                     *)
(***************************************************************************)
EXTENDS FiniteSets

CONSTANTS
  Criteria,     \* the criteria a task may have, a criterion being its text
                \* and its required checks together
  Generated,    \* those synthesizeCriteria makes of the request
  Checks,       \* the kinds of check: test, typecheck, build, boot, e2e
  TestCheck,    \* the kind 'test', whose success may end a run
  CommandChecks,  \* the kinds commandCheckKind recognises in a shell command
  Required,     \* requiredChecks of each criterion
  Files,        \* paths of the working tree
  ToolStatuses  \* the statuses the model passes to update_task_status

TaskStatus == {"pending", "exploring", "implementing", "verifying",
               "completed", "failed", "blocked", "needs_review", "paused"}
CriterionStatus == {"verified", "failed", "skipped", "needs_review", "blocked"}

(* "other" stands for skipped, not_applicable, blocked and                 *)
(* needs_human_review: the gate counts them neither as passed nor failed.  *)
EntryStatus == {"passed", "failed", "other"}

ASSUME GateAssumption ==
  /\ Generated \subseteq Criteria
  /\ Generated # {}
  /\ TestCheck \in CommandChecks
  /\ CommandChecks \subseteq Checks
  /\ Required \in [Criteria -> SUBSET Checks]
  /\ ToolStatuses \subseteq TaskStatus

VARIABLES
  criteria,      \* acceptance-<task>.json; "absent" is not in the contract
  matrix,        \* verification/<task>.json; "none" is no entry
  filesTouched,  \* TaskState.filesTouched
  status,        \* TaskState.status, the durable status
  phase,         \* where the run is, see Phases
  outcome,       \* the status the run will report or has reported
  executed,      \* history: checks whose own tool ran and passed at some time
  reported,      \* history: checks that a command, and not the model's word,
                 \* put down as passed, with no write_file or edit_file since
  unsaved        \* history: the run's last status was not written, silently

contract == <<criteria, matrix>>
history == <<executed, reported, unsaved>>
gateVars == <<criteria, matrix, filesTouched, status, phase, outcome,
              executed, reported, unsaved>>

(* "starting": the phases of runWithId before the loop; "open": the loop   *)
(* is running; "closing": a terminal signal was raised and is not on disk  *)
(* yet; "ended": the result was returned; "down": the process died.        *)
Phases == {"starting", "open", "closing", "ended", "down"}

TypeOK ==
  /\ criteria \in [Criteria -> CriterionStatus \cup {"absent"}]
  /\ matrix \in [Checks -> EntryStatus \cup {"none"}]
  /\ filesTouched \subseteq Files
  /\ status \in TaskStatus
  /\ phase \in Phases
  /\ outcome \in TaskStatus \cup {"none"}
  /\ outcome # "none" <=> phase \in {"closing", "ended"}
  /\ executed \subseteq Checks /\ reported \subseteq Checks
  /\ unsaved \in BOOLEAN

-----------------------------------------------------------------------------
(* What the gate reads *)

Passed(m) == {k \in Checks : m[k] = "passed"}
Failed(m) == {k \in Checks : m[k] = "failed"}

(* Mutant: passing evidence on record, whatever else fails.                *)
SomePassed(m) == Passed(m) # {}

(* "If there is real passing verification on record and ZERO failures":    *)
(* the condition under which both automatic paths verify criteria.         *)
CleanMatrix(m) == Passed(m) # {} /\ Failed(m) = {}

Contract(cs) == {c \in Criteria : cs[c] # "absent"}

(* getCompletionStatus().allVerified *)
AllResolved(cs) ==
  /\ Contract(cs) # {}
  /\ \A c \in Contract(cs) : cs[c] \in {"verified", "skipped"}

(* What evaluateCompletion asks of the contract: verified = total > 0.     *)
AllVerified(cs) ==
  /\ Contract(cs) # {}
  /\ \A c \in Contract(cs) : cs[c] = "verified"

(* The evidence update_acceptance demands before it accepts "verified".    *)
HasEvidence(c, m) ==
  IF Required[c] = {} THEN Passed(m) # {} ELSE Required[c] \subseteq Passed(m)

(* Mutant: the automatic paths overrule failed and blocked.                *)
NotVerified(cs) == {c \in Contract(cs) : cs[c] # "verified"}

(* The criteria the automatic paths mark, and the contract they leave.     *)
Pending(cs) == {c \in Contract(cs) : cs[c] \in {"needs_review", "skipped"}}
Verify(cs, S) == [c \in Criteria |-> IF c \in S THEN "verified" ELSE cs[c]]
AutoVerify(cs) == Verify(cs, Pending(cs))

InitialContract ==
  [c \in Criteria |-> IF c \in Generated THEN "needs_review" ELSE "absent"]

-----------------------------------------------------------------------------
(* Starting a run *)

(* createTask, then generateContract on the request of a new task.         *)
Init ==
  /\ criteria = InitialContract
  /\ matrix = [k \in Checks |-> "none"]
  /\ filesTouched = {}
  /\ status = "pending"
  /\ phase = "starting"
  /\ outcome = "none"
  /\ executed = {} /\ reported = {} /\ unsaved = FALSE

(* Phase 9: the status is set just before the loop is entered.             *)
Start ==
  /\ phase = "starting"
  /\ status' = "exploring"
  /\ phase' = "open"
  /\ UNCHANGED <<contract, filesTouched, outcome, history>>

(* forge resume: runWithId on an existing task generates the contract      *)
(* again and persists it over the old one; the matrix and the touched      *)
(* files are the ones on disk.                                             *)
Resume ==
  /\ phase \in {"ended", "down"}
  /\ criteria' = InitialContract
  /\ phase' = "starting"
  /\ outcome' = "none"
  /\ unsaved' = FALSE
  /\ UNCHANGED <<matrix, filesTouched, status, executed, reported>>

(* The process dies; what the engines persisted stays.                     *)
Crash ==
  /\ phase \in {"starting", "open", "closing"}
  /\ phase' = "down"
  /\ outcome' = "none"
  /\ UNCHANGED <<contract, filesTouched, status, history>>

-----------------------------------------------------------------------------
(* Tools that change the tree and tools that record evidence *)

(* write_file, and edit_file when its old_string is found.                 *)
WriteFile(f) ==
  /\ phase = "open"
  /\ filesTouched' = filesTouched \cup {f}
  /\ reported' = {}
  /\ UNCHANGED <<contract, status, phase, outcome, executed, unsaved>>

(* updateStatus, or addEntry when the check had no entry: the checks K,    *)
(* of which those in P are put down as passed.                             *)
Recorded(K, P) ==
  [k \in Checks |-> IF k \in P THEN "passed"
                    ELSE IF k \in K THEN "failed" ELSE matrix[k]]

(* Mutant: a run that touched nothing completes on an old suite.           *)
TestsEndAnyRun(K, P) ==
  /\ K = {TestCheck} /\ P = K
  /\ CleanMatrix(matrix')

(* A tool reported that exactly the test check ran and passed: if the run  *)
(* touched a file, be it by this very command, and the matrix is clean,    *)
(* every pending criterion is verified and the run completes.              *)
TestsEndRun(K, P) ==
  /\ K = {TestCheck} /\ P = K
  /\ filesTouched' # {}
  /\ CleanMatrix(matrix')

(* A tool call that touched the files F and put down the checks K.         *)
RecordEvidence(K, P, F) ==
  /\ phase = "open"
  /\ matrix' = Recorded(K, P)
  /\ reported' = (reported \ K) \cup P
  /\ filesTouched' = filesTouched \cup F
  /\ IF TestsEndRun(K, P)
       THEN /\ criteria' = AutoVerify(criteria)
            /\ outcome' = "completed"
            /\ phase' = "closing"
       ELSE UNCHANGED <<criteria, outcome, phase>>
  /\ UNCHANGED <<status, unsaved>>

(* run_verification of the detected checks among those asked for, judged   *)
(* by their exit codes.                                                    *)
RunVerification(K, P) ==
  /\ K # {} /\ P \subseteq K
  /\ RecordEvidence(K, P, {})
  /\ executed' = executed \cup P

(* run_command.  commandCheckKind reads from the command which check it is *)
(* (K has that check, or none) and commandOutputLooksPassed from the words *)
(* of its output whether it passed; the checks E that it really ran and    *)
(* passed are another matter, `echo vitest ok` being a passing test.  When *)
(* the command also looks as if it changed files, the paths git reports    *)
(* are touched: none when the working directory is not a git root.         *)
RunCommand(K, ok, E, F) ==
  /\ RecordEvidence(K, IF ok THEN K ELSE {}, F)
  /\ executed' = executed \cup E

(* run_tests runs any command, which may be the checks E, and updates the  *)
(* entry its check_name names, K; it never adds an entry.                  *)
RunTests(K, ok, E) ==
  LET known == {k \in K : matrix[k] # "none"}
      passed == IF ok THEN known ELSE {} IN
  /\ phase = "open"
  /\ matrix' = Recorded(known, passed)
  /\ reported' = (reported \ known) \cup passed
  /\ executed' = executed \cup E
  /\ UNCHANGED <<criteria, filesTouched, status, phase, outcome, unsaved>>

(* verify_check: the model writes the entry itself, nothing is run.        *)
VerifyCheck(k, s) ==
  /\ phase = "open"
  /\ matrix' = [matrix EXCEPT ![k] = s]
  /\ reported' = reported \ {k}
  /\ UNCHANGED <<criteria, filesTouched, status, phase, outcome, executed, unsaved>>

-----------------------------------------------------------------------------
(* Tools on the contract and on the status *)

(* STATUS_ALIASES: the words the model may use; any other is needs_review. *)
ToolWords == CriterionStatus \cup
  {"passed", "not_applicable", "needs_human_review", "unknown"}

(* Mutant: the model's word is stored as it is.                            *)
AsWritten(word) == word

Normalised(word) ==
  CASE word = "passed" -> "verified"
    [] word = "not_applicable" -> "skipped"
    [] word \in {"needs_human_review", "unknown"} -> "needs_review"
    [] OTHER -> word

(* update_acceptance on a criterion of the contract, when it is accepted.  *)
UpdateAcceptance(c, word) ==
  /\ phase = "open"
  /\ criteria[c] # "absent"
  /\ Normalised(word) = "verified" => HasEvidence(c, matrix)
  /\ criteria' = [criteria EXCEPT ![c] = Normalised(word)]
  /\ UNCHANGED <<matrix, filesTouched, status, phase, outcome, history>>

AddCriterion(c) ==
  /\ phase = "open"
  /\ criteria[c] = "absent"
  /\ criteria' = [criteria EXCEPT ![c] = "needs_review"]
  /\ UNCHANGED <<matrix, filesTouched, status, phase, outcome, history>>

UpdateTaskStatus(s) ==
  /\ phase = "open"
  /\ status' = s
  /\ UNCHANGED <<contract, filesTouched, phase, outcome, history>>

(* The contract finish_task("completed") leaves before it decides.         *)
ContractAtFinish ==
  IF ~AllResolved(criteria) /\ CleanMatrix(matrix)
    THEN AutoVerify(criteria) ELSE criteria

(* finish_task("completed") refused: what was verified on the way stays.   *)
FinishRejected ==
  /\ phase = "open"
  /\ ~AllResolved(ContractAtFinish)
  /\ criteria' = ContractAtFinish
  /\ UNCHANGED <<matrix, filesTouched, status, phase, outcome, history>>

(* finish_task("completed") accepted: the status is written, then the loop *)
(* checks a web app in a browser and goes on when that check fails.        *)
FinishAccepted(e2eOk) ==
  /\ phase = "open"
  /\ AllResolved(ContractAtFinish)
  /\ criteria' = ContractAtFinish
  /\ status' = "completed"
  /\ IF e2eOk THEN outcome' = "completed" /\ phase' = "closing"
              ELSE UNCHANGED <<outcome, phase>>
  /\ UNCHANGED <<matrix, filesTouched, history>>

(* finish_task("blocked" or "failed") is always allowed.                   *)
FinishUnsuccessful(s) ==
  /\ phase = "open"
  /\ s \in {"blocked", "failed"}
  /\ status' = s
  /\ outcome' = s
  /\ phase' = "closing"
  /\ UNCHANGED <<contract, filesTouched, history>>

(* A question only a human may answer, or a tool that needs approval.      *)
Escalate ==
  /\ phase = "open"
  /\ outcome' = "blocked"
  /\ phase' = "closing"
  /\ UNCHANGED <<contract, filesTouched, status, history>>

(* Both automatic paths persist the criteria one by one: the process dies  *)
(* among them, inside finish_task or after a passing test was recorded.    *)
CrashMidAutoVerify ==
  /\ phase = "open"
  /\ \/ ~AllResolved(criteria) /\ UNCHANGED <<matrix, filesTouched, history>>
     \/ /\ matrix' = Recorded({TestCheck}, {TestCheck})
        /\ reported' = reported \cup {TestCheck}
        /\ \E E \in SUBSET Checks, F \in SUBSET Files :
             executed' = executed \cup E /\ filesTouched' = filesTouched \cup F
        /\ filesTouched' # {}
        /\ UNCHANGED unsaved
  /\ CleanMatrix(matrix')
  /\ \E S \in SUBSET Pending(criteria) : criteria' = Verify(criteria, S)
  /\ phase' = "down"
  /\ UNCHANGED <<status, outcome>>

-----------------------------------------------------------------------------
(* The ways a run ends *)

(* The terminal signal of a turn is written to disk after its tool calls.  *)
CloseTurn ==
  /\ phase = "closing"
  /\ status' = outcome
  /\ phase' = "ended"
  /\ UNCHANGED <<contract, filesTouched, outcome, history>>

End(s) ==
  /\ phase = "open"
  /\ outcome' = s
  /\ phase' = "ended"
  /\ UNCHANGED <<contract, filesTouched, executed, reported>>

(* The FINALIZE stage.                                                     *)
Finalize ==
  AllVerified(criteria) /\ End("completed") /\ status' = "completed" /\ UNCHANGED unsaved

(* The model went quiet when the completion gate holds: the loop returns   *)
(* "completed" and leaves the status on disk alone.                        *)
QuietCompletion ==
  AllVerified(criteria) /\ End("completed") /\ UNCHANGED <<status, unsaved>>

(* Repeated provider errors, or a model that stopped calling tools.        *)
GiveUp == End("blocked") /\ UNCHANGED <<status, unsaved>>

(* Mutant: the pause is reported and not written.                          *)
PauseUnwritten == End("paused") /\ UNCHANGED <<status, unsaved>>

(* The iteration or the time budget is exhausted.  When the write of the   *)
(* status fails the error is swallowed and the pause is reported all the   *)
(* same; any other write that fails ends the run with an error.            *)
Pause ==
  /\ End("paused")
  /\ \/ status' = "paused" /\ UNCHANGED unsaved
     \/ unsaved' = TRUE /\ UNCHANGED status

-----------------------------------------------------------------------------
TreeStep == \E f \in Files : WriteFile(f)

AtMostOne(S) == {{}} \cup {{k} : k \in S}

EvidenceStep ==
  \/ \E K \in SUBSET Checks, P \in SUBSET Checks : RunVerification(K, P)
  \/ \E ok \in BOOLEAN, E \in SUBSET Checks :
       \/ \E K \in AtMostOne(CommandChecks), F \in SUBSET Files : RunCommand(K, ok, E, F)
       \/ \E K \in AtMostOne(Checks) : RunTests(K, ok, E)
  \/ \E k \in Checks, s \in EntryStatus : VerifyCheck(k, s)

ContractStep ==
  \/ \E c \in Criteria : AddCriterion(c)
  \/ \E c \in Criteria, word \in ToolWords : UpdateAcceptance(c, word)
  \/ \E s \in ToolStatuses : UpdateTaskStatus(s)
  \/ FinishRejected
  \/ \E e2eOk \in BOOLEAN : FinishAccepted(e2eOk)
  \/ \E s \in {"blocked", "failed"} : FinishUnsuccessful(s)
  \/ Escalate

EndStep == CloseTurn \/ Finalize \/ QuietCompletion \/ GiveUp \/ Pause

RunStep == Start \/ Resume \/ Crash \/ CrashMidAutoVerify

Next == TreeStep \/ EvidenceStep \/ ContractStep \/ EndStep \/ RunStep

Spec == Init /\ [][Next]_gateVars

-----------------------------------------------------------------------------
(* Properties *)

Completing == phase \in {"closing", "ended"} /\ outcome = "completed"

(* A run reported as completed leaves no criterion unexamined, whichever   *)
(* of the four ways it completed by.  A criterion still failed or blocked  *)
(* is possible only when the run touched a file, no check is on record as  *)
(* failing and the last word on the test check is a command's, since the   *)
(* last edit with the edit tools (tools.ts handleFinishTask, agent-loop.ts *)
(* handleCompletion).  That command is known by its output alone, and may  *)
(* itself have changed the tree.                                           *)
CompletionSound ==
  Completing =>
    /\ \A c \in Criteria : criteria[c] # "needs_review"
    /\ \/ AllResolved(criteria)
       \/ /\ TestCheck \in reported
          /\ filesTouched # {}
          /\ CleanMatrix(matrix)

(* No tool, and no automatic path, turns a criterion verified without a    *)
(* passing entry in the matrix, and when the criterion's own checks are    *)
(* not all passing then at least no check is failing.                      *)
NewlyVerified == {c \in Criteria : criteria'[c] = "verified" /\ criteria[c] # "verified"}

EvidencedStep ==
  \A c \in NewlyVerified :
    /\ Passed(matrix') # {}
    /\ HasEvidence(c, matrix') \/ Failed(matrix') = {}

VerifiedOnEvidence == [][EvidencedStep]_gateVars

(* A criterion somebody marked failed or blocked is out of reach of the    *)
(* automatic paths: only update_acceptance with the criterion's own checks *)
(* passing may verify it, or a resumed run may forget it.                  *)
OverrulingStep ==
  \A c \in NewlyVerified :
    criteria[c] \in {"failed", "blocked"} => HasEvidence(c, matrix')

FailedNeedsOwnEvidence == [][OverrulingStep]_gateVars

(* The status on disk is the one that was returned when a run failed, and  *)
(* when it paused unless that very write failed, so that resume and the    *)
(* status views find it.                                                   *)
PauseAndFailureDurable ==
  phase = "ended" /\ outcome \in {"paused", "failed"} /\ status # outcome
    => outcome = "paused" /\ unsaved
=============================================================================
