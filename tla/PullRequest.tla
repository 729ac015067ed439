----------------------------- MODULE PullRequest -----------------------------
(***************************************************************************)
(* What a run does with git and how it reports: the branch at its start,    *)
(* the commit, the report and the pull request at its end (agent-loop.ts,   *)
(* git.ts), and the summary a report is made of (pr-generator.ts, and the   *)
(* older form of index.ts that the loop uses).  The user works in the same  *)
(* tree.  A commit is the snapshot of the files it leaves on its branch.    *)
(***************************************************************************)
EXTENDS Naturals, FiniteSets

CONSTANTS
  GitFiles, GitTasks,
  MainBranch,     \* the branch there is at first
  NoBranch,       \* no such branch; no branch made by this run
  MaxUserSteps,   \* bound: what the user does
  MaxGitRuns      \* bound: runs begun

Snapshots == [GitFiles -> {"old", "new", "gone"}]
ASSUME PrAssumption == NoBranch \notin Snapshots

VARIABLES
  onDisk, index,    \* file -> text: on disk, staged
  head,           \* branch checked out
  branches,       \* branch -> snapshot, or NoBranch
  remote,         \* the same at origin
  work,           \* task -> [status, touched]: on disk
  gitRun,         \* the run in progress
  reports,        \* tasks that have a PR.md
  requests,       \* pull requests opened: [task, head, base]
  summary,        \* the summary made for a caller, if any: [of, is]
  userSteps, gitRuns

prVars == <<onDisk, index, head, branches, remote, work, gitRun, reports, requests, summary, userSteps, gitRuns>>
diskVars == <<onDisk, index, head, branches, remote>>

Branches == {MainBranch} \cup GitTasks     \* a task's branch has its name
Idle == [pc |-> "idle", task |-> MainBranch, working |-> NoBranch, base |-> NoBranch, landed |-> NoBranch,
         needs |-> {}, asks |-> {}]

-----------------------------------------------------------------------------
(* generatePRSummary.  An input has, of each ledger, the statuses that      *)
(* occur; the claims are given by the lists of the assurance case they are  *)
(* on.                                                                      *)
ActionStatus == {"candidate", "selected", "running", "passed", "failed", "blocked", "skipped", "stale", "needs_human_review"}
ClaimLists == {"verifiedClaims", "contradictedClaims", "staleClaims", "needsHumanReview", "disprovenHypotheses"}
EmptyInput == [actions |-> {}, claims |-> {}, reviews |-> {}, checks |-> {}, evidence |-> {},
               approval |-> FALSE, moreVerification |-> FALSE, promoted |-> FALSE, uncertain |-> FALSE]

(* buildHumanReviewSection: a box for everything that waits for a human.    *)
HumanReviewBoxes(in) ==
  (in.claims \cap {"needsHumanReview"}) \cup {h \in in.reviews : h = "open"}
    \cup {c \in in.checks : c = "needs_human_review"}
    \cup {e \in in.evidence : e = "needs_review"} \cup {x \in {"approval"} : in.approval}

(* buildActiveVerificationSection: the four lists of actions.               *)
ActionLists(in) ==
  [planned |-> in.actions \cap {"candidate", "selected", "running"},
   completed |-> in.actions \cap {"passed", "failed", "blocked", "skipped"},
   review |-> in.actions \cap {"needs_human_review"},
   deferred |-> in.actions \cap {"stale"}]

(* buildReviewerGuideSection: the numbers in front of its steps.            *)
GuideSteps(in) ==
  <<{1}, {n \in {2} : in.uncertain}, {n \in {3} : in.moreVerification}, {n \in {4} : in.approval},
    {IF in.promoted \/ in.approval THEN 5 ELSE 4}>>

(* buildMeta *)
Meta(in) ==
  [hasHumanReviewItems |->
     \/ "needsHumanReview" \in in.claims \/ "open" \in in.reviews \/ "needs_human_review" \in in.checks
     \/ "needs_review" \in in.evidence \/ in.approval,
   hasStaleClaims |-> "staleClaims" \in in.claims,
   hasContradictedClaims |-> "contradictedClaims" \in in.claims]

PRSummary(in) ==
  [claims |-> in.claims \cap ClaimLists, actions |-> ActionLists(in), boxes |-> HumanReviewBoxes(in),
   guide |-> GuideSteps(in), meta |-> Meta(in)]

(* PRGenerator.generate: no beliefs, no plan; a check that failed or needs  *)
(* a human asks for more verification.                                      *)
LegacyInput(found) ==
  LET checks == found \cap {"failed", "needs_human_review"}
  IN [EmptyInput EXCEPT !.checks = checks, !.evidence = found \cap {"needs_review"}, !.moreVerification = checks # {}]

(* collectBullet over that section keeps the line that says there is none;  *)
(* the loop puts the approval a critical task needs in front.               *)
ReportOf(found) ==
  LET boxes == PRSummary(LegacyInput(found)).boxes
  IN (IF boxes = {} THEN {"none flagged"} ELSE boxes) \cup (found \cap {"approval"})

-----------------------------------------------------------------------------
PrInit ==
  /\ onDisk = [f \in GitFiles |-> "old"] /\ index = onDisk
  /\ head = MainBranch
  /\ branches = [b \in Branches |-> IF b = MainBranch THEN onDisk ELSE NoBranch]
  /\ remote = branches
  /\ work = [t \in GitTasks |-> [status |-> "new", touched |-> {}]]
  /\ gitRun = Idle
  /\ reports = {}
  /\ requests = {} /\ summary = {}
  /\ userSteps = 0 /\ gitRuns = 0

Changed == {f \in GitFiles : onDisk[f] # branches[head][f] \/ index[f] # branches[head][f]}

(* The user: edits and stages at any time, commits and changes the branch   *)
(* while no run is on.                                                      *)
UserStep == userSteps < MaxUserSteps /\ userSteps' = userSteps + 1 /\ UNCHANGED <<work, gitRun, reports, requests, summary, gitRuns>>
UserEdits(f) ==
  /\ UserStep
  /\ onDisk' = [onDisk EXCEPT ![f] = "new"]
  /\ UNCHANGED <<index, head, branches, remote>>
UserStages(f) ==
  /\ UserStep /\ index[f] # onDisk[f]
  /\ index' = [index EXCEPT ![f] = onDisk[f]]
  /\ UNCHANGED <<onDisk, head, branches, remote>>
UserCommits ==
  /\ UserStep /\ gitRun.pc = "idle" /\ index # branches[head]
  /\ branches' = [branches EXCEPT ![head] = index]
  /\ UNCHANGED <<onDisk, index, head, remote>>
(* git switches when it has nothing to overwrite.                           *)
UserSwitches(b) ==
  LET differ == {f \in GitFiles : branches[b][f] # branches[head][f]}
  IN /\ UserStep /\ gitRun.pc = "idle" /\ b # head
     /\ branches[b] # NoBranch /\ differ \cap Changed = {}
     /\ head' = b
     /\ onDisk' = [f \in GitFiles |-> IF f \in differ THEN branches[b][f] ELSE onDisk[f]]
     /\ index' = [f \in GitFiles |-> IF f \in differ THEN branches[b][f] ELSE index[f]]
     /\ UNCHANGED <<branches, remote>>

(* A run begins, of a new task or one that is resumed, be it completed:     *)
(* startGitBranch.                                                          *)
(* "checkout -b" fails when the branch is there.                            *)
BeginRun(t, autoBranch, created, working) ==
  /\ gitRun.pc = "idle" /\ gitRuns < MaxGitRuns /\ gitRuns' = gitRuns + 1
  /\ work' = [work EXCEPT ![t].status = "working"]
  /\ head' = IF created THEN t ELSE head
  /\ branches' = IF created THEN [branches EXCEPT ![t] = branches[head]] ELSE branches
  /\ \E base \in {head, MainBranch} :             \* the current branch or a configured one
       gitRun' = [Idle EXCEPT !.pc = "working", !.task = t, !.working = working,
                              !.base = IF autoBranch THEN base ELSE NoBranch]
  /\ UNCHANGED <<onDisk, index, remote, reports, requests, summary, userSteps>>

(* Variant: the answer of createBranch is not looked at.                    *)
StartGitBranchUnchecked(t) ==
  \E autoBranch \in BOOLEAN :
    LET created == autoBranch /\ branches[t] = NoBranch
    IN BeginRun(t, autoBranch, created, IF autoBranch THEN t ELSE NoBranch)
StartGitBranch(t) ==
  \E autoBranch \in BOOLEAN :
    LET created == autoBranch /\ branches[t] = NoBranch
    IN BeginRun(t, autoBranch, created, IF created THEN t ELSE NoBranch)

Working == gitRun.pc = "working"
Touch(files) == work' = [work EXCEPT ![gitRun.task].touched = @ \cup files]

ToolWrites(f) ==
  /\ Working
  /\ onDisk' = [onDisk EXCEPT ![f] = "new"] /\ Touch({f})
  /\ UNCHANGED <<index, head, branches, remote, gitRun, reports, requests, summary, userSteps, gitRuns>>

(* A shell command taken for a mutating one has all that git status lists   *)
(* recorded as touched, the user's changes with it.                         *)
ShellChanges(f) ==
  /\ Working
  /\ \E text \in {"new", "gone"} : onDisk' = [onDisk EXCEPT ![f] = text]
  /\ \E recognised \in BOOLEAN :
       Touch({g \in GitFiles : recognised /\ (onDisk'[g] # branches[head][g] \/ index[g] # branches[head][g])})
  /\ UNCHANGED <<index, head, branches, remote, gitRun, reports, requests, summary, userSteps, gitRuns>>

(* The run pauses, or the process dies, also between the steps at its end.  *)
RunStops ==
  /\ gitRun.pc # "idle" /\ gitRun' = Idle
  /\ UNCHANGED <<diskVars, work, reports, requests, summary, userSteps, gitRuns>>

Completes ==
  /\ Working
  /\ work' = [work EXCEPT ![gitRun.task].status = "completed"]
  /\ gitRun' = [gitRun EXCEPT !.pc = "commit"]
  /\ UNCHANGED <<diskVars, reports, requests, summary, userSteps, gitRuns>>

-----------------------------------------------------------------------------
(* finalizeGit.  "git add" of a file git never saw and that is gone fails,  *)
(* and then adds none of the files; nobody looks at its answer.             *)
Staged(touched) ==
  IF touched = {} THEN onDisk
  ELSE IF \E f \in touched : onDisk[f] = "gone" /\ index[f] = "gone" THEN index
  ELSE [f \in GitFiles |-> IF f \in touched THEN onDisk[f] ELSE index[f]]

(* The settings git.autoCommit and git.pr are picked where they are read.   *)
AfterCommit(landed) ==
  gitRun' \in {Idle, [gitRun EXCEPT !.pc = "report", !.landed = landed]}

Commit ==
  /\ gitRun.pc = "commit" /\ Changed # {}
  /\ index' = Staged(work[gitRun.task].touched)
  /\ \/ /\ index' # branches[head]
        /\ branches' = [branches EXCEPT ![head] = index'] /\ AfterCommit(head)
     \/ branches' = branches /\ AfterCommit(NoBranch)       \* nothing staged, a hook, no identity
  /\ UNCHANGED <<onDisk, head, remote, work, reports, requests, summary, userSteps, gitRuns>>

NoCommit ==
  /\ gitRun.pc = "commit" /\ AfterCommit(NoBranch)
  /\ UNCHANGED <<diskVars, work, reports, requests, summary, userSteps, gitRuns>>

(* PR.md, from what the ledgers and the risk of the task leave to a human;  *)
(* then the push, if the run has a branch, a remote and an authenticated gh.*)
WriteReport ==
  /\ gitRun.pc = "report"
  /\ reports' = reports \cup {gitRun.task}
  /\ \/ /\ gitRun.working # NoBranch
        /\ \E found \in SUBSET {"failed", "needs_human_review", "needs_review", "approval"} :
             gitRun' = [gitRun EXCEPT !.pc = "push", !.needs = found \ {"failed"}, !.asks = ReportOf(found)]
     \/ gitRun' = Idle
  /\ UNCHANGED <<diskVars, work, requests, summary, userSteps, gitRuns>>

Push ==
  /\ gitRun.pc = "push"
  /\ \/ /\ remote' = [remote EXCEPT ![gitRun.working] = branches[gitRun.working]]
        /\ gitRun' = [gitRun EXCEPT !.pc = "open"]
     \/ remote' = remote /\ gitRun' = Idle
  /\ UNCHANGED <<onDisk, index, head, branches, work, reports, requests, summary, userSteps, gitRuns>>

OpenRequest ==
  /\ gitRun.pc = "open" /\ gitRun' = Idle
  /\ requests' \in {requests, requests \cup {[task |-> gitRun.task, head |-> gitRun.working, base |-> gitRun.base]}}
  /\ UNCHANGED <<diskVars, work, reports, summary, userSteps, gitRuns>>

(* generatePRSummary for /pr, which brings ledgers only, and for a caller   *)
(* that brings a plan, an assurance case and a risk.                        *)
Inputs ==
  {in \in [actions : {{}} \cup {{a, b} : a, b \in ActionStatus}, claims : SUBSET (ClaimLists \ {"verifiedClaims"}),
           reviews : SUBSET {"open", "approved"}, checks : SUBSET {"failed", "needs_human_review"}, evidence : SUBSET {"needs_review"},
           approval : BOOLEAN, moreVerification : BOOLEAN, promoted : BOOLEAN, uncertain : BOOLEAN] :
     in.uncertain = (in.approval # in.promoted) /\ in.moreVerification = in.promoted}
Summarise(in) ==
  /\ summary' = {[of |-> in, is |-> PRSummary(in)]}
  /\ UNCHANGED <<diskVars, work, gitRun, reports, requests, userSteps, gitRuns>>

PrNext ==
  \/ \E f \in GitFiles : UserEdits(f) \/ UserStages(f) \/ ToolWrites(f) \/ ShellChanges(f)
  \/ UserCommits \/ \E b \in Branches : UserSwitches(b)
  \/ \E t \in GitTasks : StartGitBranch(t)
  \/ RunStops \/ Completes \/ Commit \/ NoCommit \/ WriteReport \/ Push \/ OpenRequest
SummaryNext ==
  /\ summary = {}                       \* bound: one summary a behaviour
  /\ \E in \in Inputs : Summarise(in)

PrSpec == PrInit /\ [][PrNext \/ SummaryNext]_prVars
-----------------------------------------------------------------------------
(* What a run commits and what it asks to have merged go together: its      *)
(* commit is on the branch it pushes, which is not the branch it wants it   *)
(* merged into, whatever was resumed, switched, staged or left lying about. *)
WorkIsInTheRequest ==
  gitRun.working # NoBranch => gitRun.landed \in {NoBranch, gitRun.working} /\ gitRun.working # gitRun.base

(* What is committed, reported, pushed and asked to be merged is a task     *)
(* whose completion is on disk, resumed or not, and nothing touches it      *)
(* before the request is out; a request is for a branch that was pushed and *)
(* with a report; and a report asks for every review still owed.            *)
RequestsAreOfFinishedWork ==
  /\ gitRun.pc \in {"commit", "report", "push", "open"} => work[gitRun.task].status = "completed"
  /\ \A r \in requests : remote[r.head] # NoBranch /\ r.task \in reports
ReportsAskForWhatIsOwed == gitRun.pc \in {"push", "open"} => gitRun.needs \subseteq gitRun.asks

(* A summary puts every action on one list, keeps every claim that failed,  *)
(* went stale or waits, numbers its steps in order, and its flag for a      *)
(* human's attention is up exactly when it has a box to tick.               *)
SummaryLeavesNothingOut ==
  \A s \in summary :
    LET in == s.of   is == s.is
        lists == {is.actions[l] : l \in DOMAIN is.actions}
    IN /\ UNION lists = in.actions /\ \A a, b \in lists : a = b \/ a \cap b = {}
       /\ is.claims = in.claims
       /\ \A i, j \in DOMAIN is.guide : i < j => \A m \in is.guide[i], n \in is.guide[j] : m < n
       /\ is.meta.hasHumanReviewItems = (is.boxes # {})

PullRequestsSound ==
  /\ WorkIsInTheRequest /\ RequestsAreOfFinishedWork
  /\ ReportsAskForWhatIsOwed /\ SummaryLeavesNothingOut
=============================================================================
