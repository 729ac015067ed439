# Forge: a TLA+ model

Forge (`src/`) is a coding agent in TypeScript. A run generates an acceptance
contract for the request, lets a language model call tools in a loop, and ends
when an evidence-backed *done-gate* lets it. This project models what decides in it
and what keeps its state: the gate, the loop and stage machine around it, the
checkpoints that undo failed attempts, the durable store and the files beside it,
the beliefs and the planner, the services a run talks to, its Git end and its front
ends. It states what they must keep, checks it with TLC on small instances, and
proves the main results with TLAPS for every value of the constants. Paths below are
relative to `src/packages/`.

## 1. Inventory

The packages of the repository, the state each keeps and what makes it correct.
`PROJECT.json` lists the same components with their sources, their modelling status
and what is left out of each.

| component | state | operations | correct when | module |
|---|---|---|---|---|
| Done-gate (`forge-agent/src/tools.ts`, `forge-state/src/acceptance.ts`, `task-engine.ts`, `forge-verification/src/verification-matrix.ts`) | contract (criteria), matrix of checks, touched files, status of the task, each one JSON file | some fifteen tools of the model, the automatic verification paths, `finish_task` | a completed run was examined; verified needs evidence; the durable status is the reported one, but for a pause whose write failed | `DoneGate` |
| Agent loop (`forge-agent/src/agent-loop.ts`, `stages.ts`) | iteration, stage, probe budget, error and quiet counters, redundant-test guard, cached belief snapshot | stages LOCALIZE, PROBE, EDIT, REPAIR, FINALIZE; tool calls of a turn; crash, resume | every run ends; cached verdicts still hold when used; all ways out keep to the gate | `AgentLoop` |
| Checkpoints (`forge-verification/src/checkpoint.ts`) | list and snapshot files on disk, cache in memory | create, restore, promote, reject; patch candidates | a rollback brings back what was there; no restart loses a checkpoint | `Checkpoints` |
| Pull requests and Git (`forge-pr`, `startGitBranch` and `finalizeGit` of the loop) | branches, index, remote, report | branch, commit, report, push, request | only finished work is asked to be merged, and the request holds it | `PullRequest` |
| Durable side of a run (`agent-loop.ts`, `forge-trace`) | rows for task, criteria, claims | set-up, resume | what a dead run leaves is completed once | `DurableRun` |
| Message history (`compactMessages`, provider mapping) | messages with tool calls and results | append, compact, translate | every tool call has its result in the next turn | `MessageHistory` |
| Tool output (`tool-output.ts`) | stored output, digest | compact by kind and length, retrieve | what the kind promises is in view, all of it retrievable | `ToolOutput` |
| Permissions (`permissions.ts`) | ordered rules | deny wins, then first match | read-only runs do no more than read and what a rule was added for; only `run_tests` gets a destructive command to a shell | `PermissionGate` |
| Ledgers (`forge-state`: evidence, failure, decision, task, trace) | JSON files, cached by each engine | append, update, create, reset | nothing acknowledged is lost | `FileLedgers` |
| Belief state (`forge-belief`) | claims, links, evidence, graph, hypotheses | record, support, contradict, truth pass, diagnose, recommend a probe | promotion only on evidence; the audit trail tells the row | `BeliefStore`, `BeliefEngine` |
| Verification planner (`forge-verification-planner`) | plan, claims, gating verdict | enumerate, score, results, staleness, gate | risk first, every weak claim covered, the gate opens on fresh checks | `VerificationPlan` |
| State store (`forge-state-store`) | Postgres tables, migrations, artifacts by hash | statements, transactions with trace event, import, migrations, artifact files | no row names a missing one; no row without its event; a migration runs once; bytes match their row | `StateSchema`, `StateStore`, `StoreLifecycle`, `ArtifactStore` |
| Repository graph, affected tests (`forge-repo-graph`, `affected-tests.ts`) | snapshot of a walk, nodes, edges | scan, query, select | answers are about what was read; more changes never select fewer tests | `RepoGraph` |
| Providers (`forge-provider`) | stream in progress, half-received calls, catalog | complete, stream, retry, choose, probe | executed calls are of this response; the choice meets the policy | `ModelCalls`, `ProviderChoice` |
| Local model (`forge-local-model`) | cached probe, timer, provenance rows | advisory calls with timeouts and fallbacks | a late answer is never used; every call returns | `LocalModel` |
| Integrations (`forge-integrations`: MCP client and server, router, plugins) | pending requests, handlers, registry | request, response, timeout, close, register, dispatch, route | an answer goes to its own request, once; a dispatch reaches all | `Requests`, `McpServer`, `McpStdio`, `PluginRegistry`, `CapabilityRouter` |
| Terminal UI and command line (`forge-tui`, `forge-cli`) | settings, config files, loops in flight, panels | commands, prompts, wizard, resume, keys, refreshes | they show and save the state there is | `ReplSession`, `Dashboard` |
| Context server, probe handlers and manifests, harness and maps, evaluation, editor extension | none of their own | reads, tables, text analysis | section 7 | none |

**How they interact.** The CLI or the REPL creates a task and calls `runWithId`. It
generates the contract, seeds rows and claims in the durable store, takes a Git branch,
writes `exploring`, and enters the loop. Each iteration reads the belief store and the
contract (`refreshBeliefSnapshot`, `evaluateCompletion`), picks a stage (`nextStage`)
and either probes, repairs, finalizes or calls the model through a provider; the
history is compacted before a call that would not fit. The model's tool calls are
executed in turn, behind the permission rules; each goes to an engine that persists its
own JSON file or to a transaction of the store, and its output is cut down for the
model. A tool's result may raise a terminal signal, which is written after the turn. A
completed run commits, reports and asks for a merge. `forge resume` runs `runWithId`
again on what is on disk. Other processes share the store (context server, MCP
server) and the JSON files (dashboard, commands).

**What is hard.** The model picks the order of the tools and their arguments, so
every legal sequence counts. The gate is read at the head of an iteration and used
after a model call. State is spread over files and rows written one at a time, and the
process may die between any two. Resuming regenerates part of the state and keeps the
rest. Two processes migrate one database, rewrite one file, read one task. Timers race
with answers, crashes and close. Streams fail with calls half received by an object
that is used again. Handlers change the registry that walks them. Several counters are
reset by different answers and must together end the loop. The hazards of
`PROJECT.json` name each at its line, with the properties that watch it.

## 2. Plan

The order was: the gate and its abstract promise; the loop that implements it;
checkpoints; then the families around them, most consequential first. All of it is in
place. The modules of a family are independent of each other unless the table of
section 3 says otherwise, and one MC module runs them side by side: a variable `part`,
chosen at the start and never changed, says which one moves while the others rest in
their initial states. This is the same as running each alone, in one check.

1. `DoneGate`, `AgentLoop` (a refinement of it), `Checkpoints`, with their proofs.
2. Storage: `StateSchema`, `StateStore`, `StoreLifecycle`, `ArtifactStore`,
   `FileLedgers`, `DurableRun`, `BeliefStore`, `BeliefEngine`, `RepoGraph`.
3. Services: `Requests` (abstract), `McpServer` and `McpStdio` (which implements it),
   `ModelCalls`, `MessageHistory`, `LocalModel`, `PluginRegistry`, `CapabilityRouter`,
   `ProviderChoice`, `PermissionGate`, `ToolOutput`, `VerificationPlan`, `Dashboard`,
   `ReplSession`.
4. `PullRequest`, on the same tree as the checkpoints.

The proofs follow the same order: gate, loop, checkpoints, then every family (section
6). Every safety property of a passing run has its theorem; what has none is liveness.

## 3. Modules

| module | what it is | in |
|---|---|---|
| `DoneGate`, `DoneGateProofs`, `DoneGateClaims` | state and tools of the gate, its properties; its theorems; what documents say of it and the code contradicts | `MCDoneGate`, `MCDoneGateClaims` |
| `AgentLoop`, `AgentLoopProofs`, `AgentLoopClaims` | the loop over the gate, `LoopSpec`, `FairLoopSpec`; its theorems, the refinement among them; comments the code contradicts | `MCAgentLoop`, `MCAgentLoopClaims` |
| `Checkpoints` | the checkpoint manager | `MCCheckpoints` |
| `PullRequest` | Git branches of runs, report, request, summary | `MCCheckpoints` |
| `CheckpointsProofs` | theorems of both | |
| `StateSchema` | tables, columns and references; what a statement may do | `MCStorage` |
| `StateStore` | statements, `tx()`, import, over `StateSchema` | `MCStorage` |
| `StoreLifecycle` | init, migrations, close, over `StateSchema` | `MCStorage` |
| `ArtifactStore`, `FileLedgers`, `DurableRun`, `BeliefStore`, `BeliefEngine`, `RepoGraph` | one component each | `MCStorage` |
| `StoreProofs`, `JournalProofs`, `BeliefProofs` | theorems of `StateStore` and `StoreLifecycle`; of `ArtifactStore`, `FileLedgers` and `DurableRun`; of `BeliefStore`, `BeliefEngine`, `RepoGraph` and `VerificationPlan` | |
| `McpServer`, `McpStdio`, `Requests` | the server's dispatcher; the client over it; what a caller is promised | `MCServices` |
| `ModelCalls`, `MessageHistory`, `LocalModel`, `PluginRegistry`, `CapabilityRouter`, `ProviderChoice`, `PermissionGate`, `ToolOutput`, `VerificationPlan`, `Dashboard`, `ReplSession` | one component each | `MCServices` |
| `WireProofs`, `ServiceProofs` | theorems of what goes to other processes (client, server and promise; `ModelCalls`, `MessageHistory`); of the other services, but for `Dashboard` | |

### DoneGate

`criteria` is `acceptance-<task>.json`, `matrix` is `verification/<task>.json`,
`filesTouched` and `status` are fields of the task file. `phase` says where the run is
and `outcome` what it reports. Two history variables keep apart what the tools believe
and what happened: `reported` has the checks whose last command had an output that looks
passed (`commandCheckKind`, `commandOutputLooksPassed`), `executed` those that were
really run. `echo vitest ok` adds to the first and not to the second. `unsaved` is set
when the write of a pause failed.

One action per tool (`WriteFile`, `RunVerification`, `RunCommand`, `RunTests`,
`VerifyCheck`, `UpdateAcceptance`, `AddCriterion`, `UpdateTaskStatus`, the three ends of
`finish_task`, `Escalate`), one per way a run
ends (`CloseTurn`, `Finalize`, `QuietCompletion`, `GiveUp`, `Pause`), and `Start`,
`Resume`, `Crash`, `CrashMidAutoVerify`. A tool's automatic consequences (a passing
suite that completes the run) are part of the tool's action. The automatic paths
persist criteria one after another; `CrashMidAutoVerify` is the process dying among
them. `QuietCompletion` allows what the code of `handleCompletion` allows;
`QuietModelNeverCompletes` proves that the loop never gets there.

One `RunCommand` may do everything one call of `run_command` may: really run checks,
change files, count as a check by its text and end the run. The gate therefore does not
promise that the suite passed on the tree that is delivered, and `CompletionSound` does
not say so. `run_tests` is modelled as it is: the command it runs and the `check_name`
it updates are independent arguments, and an entry is only updated, never added. `Pause`
has two outcomes, since the write of the status is followed by `.catch(() => undefined)`.

### AgentLoop

`pc` is the place in the loop: its head, a stage, the tool calls, or off. `Iterate` is
one pass from the head to the choice of the stage; each stage is an action or, for the
two that call the model, one action per kind of completion (`ModelError`,
`ModelTruncated`, `ModelQuiet`, `ModelCallsTools`). `ToolCall` conjoins the gate's
action with the loop's bookkeeping: the redundant-test guard and the break at a
terminal signal; a command the loop takes for a suite (`SuiteCall`) may change the tree
as any other (`ShellCall`), and `RollbackCall` changes it behind the guard's back. How the loop ends (`Return`, `FinalizeStage`, `OutOfBudget`) is written
from the loop's own guards, without the gate's, so that the refinement is a statement
about the cached verdict `canComplete` and not a definition.

The belief store appears as what `nextStage` and `evaluateCompletion` tell apart: the
top hypothesis, the open claims, whether a claim blocks. With `SharedBelief`, others
may change it between iterations. `runVerifyStage` is left out because `nextStage`
never answers VERIFY. `canComplete` and the counters are memory and are reset by
`Halt`; the belief store is either kept (Postgres) or reset (memory) by `ResumeRun`.

### Checkpoints

One action per file operation: a call (`Create`, `Restore`, `Promote`,
`RejectRestored`) changes the cache and is followed by `PersistList`, `SnapshotFile` or
`RestoreFile`, one file at a time. The tools run one at a time, so nothing but a
fault comes between. `SnapshotFails` is the swallowed `catch`; `CallThrows` is an error
that reaches the tool; `Crash` may leave the operation half done and `Restart` begins
with an empty cache. `Load` takes every failing read for an empty list, as the `catch`
of `getCheckpoints` does, whether the file is torn or only could not be read that time:
such a process is `blind`, and `lost` records that a write was cut short or that a blind
process wrote its own list over an intact one. Contents are told apart by what the code's UTF-8 round trip and
missing snapshots do to them: text survives, `"binary"` comes back `"garbled"`,
`"locked"` cannot be copied. Parent links and patch candidates carry no decision.

### PullRequest

Files have texts on disk, in the index and in the commits of branches; a commit is the
snapshot it leaves. One run at a time (`gitRun`) goes through `startGitBranch`, tools
and shell commands that record touched files (`Touch`), and `finalizeGit`: stage,
commit, report, push, request. A task may be run, stopped and resumed, one that is
completed as well: the code has no guard against it. Between any two
steps the user edits and stages files, between runs also commits and switches branches
(`UserStep`, external); that nobody switches the branch under a running agent is assumed.
`SummaryNext` is the summary of `pr-generator.ts` on its own: which list each action,
claim and check ends up on, and everything that gets a box for a human
(`HumanReviewBoxes`); `LegacyInput` is what the loop feeds it.

### Storage

`StateSchema` has every table with its references and what happens to them on delete,
and every repository with the columns it writes. `Unkeyed` holds the one id column without a
foreign key, `active_patch_candidate_id` of a task: its value is any id, and `RowsSound`
excepts it by name. `StateStore` follows one table at a
time (`focus`) and its neighbours. A transaction is one step, because Postgres shows
none of it earlier. `StoreLifecycle` is two processes whose migrations interleave
statement by statement, with crashes, lost connections and `close()`.
`ArtifactStore` interleaves writers, a reader and the pruner at every await; bytes go
first, rows second. `FileLedgers` is the pattern all JSON engines share: load once,
change the cached object, rewrite the file in place; a write is torn while it is under
way and may be rejected, any read may fail and counts as no file, and two engines hold
copies of their own. `DurableRun` is two runs of one task, possibly at once, that may die
between any two statements of the set-up. The rows of commands are no part of it: the
loop's id for one (`cmd-` and a time) is not the uuid the column wants (`schema.ts`), so
the database rejects every insert, the loop drops the error, and the sweep of a resume
finds nothing. `BeliefStore` interleaves evidence, manual decisions and truth
maintenance, which reads with separate statements, writes at its end, and reports the
update once more in a transaction of its own (`TmTrace`); a claim may be added with any
status and confidence, which its event does not tell. `BeliefEngine` is the in-memory
graph, the reading of a failed check and the probe it recommends; the ranking of probes
by `ProbePlanner` is left out.
`RepoGraph` reads one file after another while files change, in any order the directory
may list them, then stitches nodes and edges and answers queries and test selections.
Edges of imports and calls end at names no node has, as the scanner writes them; a line
that defines a name is no call of it, and affected tests are matched by substring.
Confidences are integers in percent: the code rounds to two decimals.

### Services

`McpServer` reads lines; each is handled by a handler of its own that ends in any order
or fails at the database. `McpStdio` puts the client before it: a timer per call, answers
that arrive in any order or not at all, noise on the pipe (a line `null` may take the
host down), a child that exits or crashes,
`close()`, and the host's own end. `ModelCalls` keeps the map of half-received calls
over failed attempts and turns; in the OpenAI format the calls of a response that ends
with another reason than `tool_calls` are dropped, as `openai.ts` does. `MessageHistory` appends turns, compacts and
translates, with `KeepStart` and `KeepEnd` for the constants 4 and 30 of the code. A
message is with or without text; in the translation a turn keeps the place of the first
message it is made of, so that merging and dropping empties need no recursion.
`LocalModel` races two calls against timers and shares one cached probe.
`PluginRegistry` gives the Map's iterator its JavaScript meaning. `PermissionGate` has
the chains of both modes and any configured rule appended, over every tool of the model
that writes, runs or rolls back; the classifier looks at `run_command` alone.
`ToolOutput` gives every line a kind, a file where it parses as a search result and a
place; the files of a search interleave in any way a layout says. `VerificationPlan` scores in
hundredths; the command checks, the doubts and the placing of a plan are sets of entries
with the place at which the code's loops and its stable sort put each. `Dashboard` follows, for every panel, the set of tasks its text is about;
`ReplSession` the flag, the settings, the files and the loops of a session, the wizard
and the commands beside it.

## 4. Runs

| run | bounds | shows |
|---|---|---|
| `done_gate` | 3 criteria, 2 checks, 1 file, 2 statuses | completion sound, evidence for every verified criterion, failed marks only overruled by own checks, paused and failed written unless the write of a pause fails |
| `agent_loop` | 3 iterations, 1 error, 2 quiet turns, 1 probe | the loop implements the gate; counters in range; a quiet model never completes; whatever is reported completed or failed is on disk |
| `agent_loop_live` | 2 iterations, 2 errors, 2 quiet turns, no files | every run leaves the loop, every terminal signal is written |
| `checkpoints` | 2 checkpoints, 2 files, 1 text, 1 edit, 1 fault; 2 tasks, 2 git runs, 1 step of the user | a finished rollback is exact; neither restarts nor failed calls lose what returned, short of a torn or unread list; what is asked to be merged is finished and in the request |
| `storage` | 2 ids per table; 2 processes, 2 crashes; 2 paths, 2 contents, 2 writers; 1 claim, 2 pieces of evidence, 2 passes; 2 engines, 2 entries; 2 runs, 2 criteria; 3 files, 2 edits, 1 scan; 4 observations | the state properties of the nine storage modules |
| `services` | 2 calls, 2 lines, 1 noise; 2 attempts, 2 completions of 2 calls; 3 turns; 2 local calls; 2 plugins, 3 registrations; 3 domains; 2 tool calls under any one configured rule; outputs of up to 8 lines in seven layouts; 3 keys, 2 file changes; 4 inputs; 2 claims, 3 events | the properties of the service modules; `McpStdio` implements `Requests`; local calls return; the dashboard settles |

**Why the bounds are enough.** Criteria with no, one and another required check give
every branch of `HasEvidence`; two checks let one pass while the other fails; one file
separates touched from untouched. The loop's thresholds are compared with counters
that step by one, so the smallest thresholds at which "below" and "at" both occur show
every branch. `MaxErrors = 1` in `agent_loop` makes the first failed call block; the
live run has 2 so that the counter counts. A tool may be called any number of times.
Two checkpoints that overlap, with an edit between them, let one be rolled back across
the other; two files let a call stop between them; a fault is one interrupted operation;
the theorems cover every number. For the families two of each actor is what their races need: two
processes in one migration, two engines on one file, two runs of one task, two calls on
one probe, two refreshes of one panel. Two attempts show what a failed stream leaves to
the next; two completions what a finished one leaves. `MessageHistory` shrinks 4, 30, 12
and 30 to 2, 4, 2 and 4, which keeps their order, so that histories shorter than, equal to and
longer than the two ends occur within three turns. Three planner events are two passes
and a change of file.

**Deadlock** is checked in `done_gate` and the loop runs. The other runs switch it off:
a service that is not called, a store that has used up its bound or a task that is over
may stop.

**Fairness.** `FairLoopSpec` has weak fairness of `Progress`: what the process does by
itself. The code justifies it: a provider call returns or fails (`runCompletion`
catches and retries once), a completion has finitely many tool calls, and the loop is
one `async` function with no lock to wait for. No fairness is assumed of the model's
choice of tools, of other writers, of resuming, or of crashes. `RunsEnd` holds without
fairness of any particular stage because every iteration is charged. `StdioFairness` is
weak fairness of the timers alone: `setTimeout` fires, whereas no child owes an answer.
`LocalFairness` is of the service's own steps and its timer; that the model ever answers
is not assumed. `DashFairness` is of the five-second timer and of a refresh once begun;
the reader owes no key.

**Abstract specifications.** `LoopKeepsToGate` (`AgentLoop` implements `DoneGate`) and
`RequestsImplemented` (`McpStdio` implements `Requests`, `INSTANCE ... WITH call <-
settled, alive <- host`): a call settles once, by its own answer or an error, and every
open call settles while the host lives.

## 5. What the code does not keep

Runs named `claim_...` check one property each that a comment or a document states and
the code contradicts; TLC shows the shortest behaviour.

- `NoFailingCheckAtCompletion`: `docs/run-lifecycle.md` has failed verification lead to
  repair; `finish_task` accepts a resolved contract without looking at the matrix.
- `EvidenceWasRun`: `docs/autonomy.md` has checks pass via `run_verification`;
  `verify_check` lets the model write the entry itself.
- `ContractSurvives`: added criteria are said to be durable; resuming generates the
  contract again over the file.
- `GuardBlocksOnlyIdleReruns`: the comment says the guard refuses a suite only when
  nothing changed; edits by shell and rollbacks do not reopen it.
- `SkippedIsLeftAlone`: the comment says a file that could not be copied is not
  restored; the rollback removes it.
- `SystemProperIsPassed`: requests have a `system` field that no provider reads.

Met while modelling, stated here and not run. Each is modelled as the code does it; a
property that would say otherwise is worded so that it excludes the case by name.

*Gate and loop.* A command passes as a suite by its text and the words of its output, so
one call may count as the test, change the tree after it and end the run: a completed
run's last test need not have run, nor on the tree delivered. A pause whose write fails
is reported all the same. All criteria may be resolved as not applicable and `finish_task` then
needs no check at all; the automatic paths ignore `requiredChecks`; a run blocked by
errors or silence leaves `exploring` on disk; `update_task_status` writes `completed`
unasked, and a failing browser check leaves it there; `run_tests` adds no entry though a
refusal tells the model to use it; a skipped criterion satisfies `finish_task` and not
FINALIZE, although `docs/autonomy.md` speaks of one gate; the probe fallback names a
capability no tool has; `request_domain_expansion` never takes effect, because the list
it would extend is never created; the break at a terminal tool leaves later calls of the same
message without results.

*Checkpoints and Git.* A checkpoint that is listed before its files are copied deletes
the missing ones on rollback, which is why `RestoreExact` speaks of sound creations. A
list that cannot be read once is taken for empty and overwritten. A completed task that
is resumed is run, committed and offered for merging again. A
resumed run finds its branch existing: `checkout -b` fails, it works and commits on
whatever is checked out and never opens a request. The task's branch stays checked out,
so the next task branches from it. All of `git status` after a mutating shell command,
the user's own changes included, counts as touched and is committed. `hasRemote` accepts
any remote, push uses `origin`. The report's belief and plan sections are always empty
and failed checks are listed nowhere.

*Storage.* The pruner may take a file whose row was written after it listed the rows,
and takes tool outputs the model was told to retrieve. An import of more than
one task file throws at the second, whose transaction inserts the repository again. No command is ever journalled (section 3); a
task's row stays `pending` for ever, and its active patch candidate may be no row's id. A
ledger that is torn, or cannot be read once, loads as none and the next entry replaces
it; after a rejected write the next operation of
the same engine is acknowledged from the cache; a resumed run resets its trace file. A
truth pass overwrites a manual decision and leaves `verified` a claim with only
contradicting evidence; a claim without evidence is given 50 %. Its second report of an
update comes in a transaction of its own, so the last event about a claim may be older
news than the row, and a claim added as verified has an event that does not say so. The context server's
link and score writes name neither task nor repository, so their co-transactional trace
row has no `repo_id`, the transaction rolls back and the caller swallows the error: the
pass over a plan stops at the first new action that has a claim or a score, with the
action recorded and neither of those. Of the definitions of
one name only the first walked is linked in the repository graph, so the graph depends
on the walk; `tests` edges are followed from the suite, so a changed source never
reaches one.

*Services.* An OpenAI response that ends with `stop` or `length` loses all its
calls without a sign. `run_tests` hands any command to a shell unclassified and is
allowed by default, where the comment at `permissions.ts:117` speaks of shell commands in
general. A search result loses every line that does not parse, a log with three
timestamps is taken for one, and matches of files beyond the cap are only counted. A
compaction of 13 to 33 messages repeats some, and a second one drops the
references of the first. The stream timeout ends at the headers. A call with arguments
cut at the token limit is repaired and executed, an unparsable one is executed with
`{}` (OpenAI). The catalog claims tools for Ollama, whose adapter never sends any. `forge
mcp serve` exits with handlers in flight, and a failing notification is not answered. A
probe that ends after `resetProbe` writes its stale verdict. A dispatch stops at the
first handler that throws. Read-only mode denies `finish_task` by default-deny; a
destructive command asks even under an explicit deny. The log digest slices from the
front, so the last failures may be lost while its summary says otherwise. The planner
may recommend a human review of a verified serious claim before the check of a weak
small one, and a contradicted high-risk claim before a critical one that two checks have
raised, since low confidence outweighs risk; that is why `RiskFirst` speaks of claims in
doubt, at 50 % or less; its staleness looks at the first of parallel edges only, and its
results have no caller outside the tests.

*Front ends.* An answer typed at the blocked prompt starts a new task; `/resume` leaves
the session free to start a second loop on the same task; a config file cut by a kill
reads as defaults and the next command saves them; `/init` and the wizard write to
`cwd/.forge` whatever `FORGE_STATE_DIR` says; the dashboard inside the REPL returns at
once and its quit key ends the whole process; its engines cache, so refreshes never show
what other processes did.

## 6. Proofs

TLAPS checks the 38 theorems listed in `PROJECT.json` for all values of the constants,
with no bound on the length of a behaviour. They rest on the named assumptions on
constants, which TLC evaluates in the runs. Each says what the code has: thresholds are
positive (`LoopAssumption`, `AttemptsArePositive`, `LengthsAreNumbers`, a budget that
leaves a share to each part in `ToolOutputAssumption`), a value that stands for "none"
is none of the values (`IdsAreDistinct`, `NullIsNoValue`, `AbsentIsNoContent`,
`PrAssumption`, `SessionAssumption`), a table is a table of what it says
(`RouterAssumption`, `GraphAssumption`, `PlanAssumption`: claims are numbered, seeded with
at most 50 %). A bound such as `MaxTurns` is any number there.

All arguments have one shape: an inductive invariant, named `...Inv` in the proof
modules, which says what is known at every intermediate place of an operation; each action
keeps it; and it implies the property.

- **Gate** (`DoneGateProofs`). `IInv == TypeOK /\ CompletionSound` is inductive: what the
  verdict rests on cannot change between the signal and its writing, since the tools
  need an open run. The two action properties are proved action by action from the
  typing. `PausesAndFailuresAreDurable` is inductive by itself: once a run has ended no
  tool runs, and each way of ending it as paused or failed writes the status in the same
  step or in the step that closes the turn, or notes that the write of a pause failed.
- **Loop** (`AgentLoopProofs`). `LoopTypeCorrect`: the counters stay below their
  thresholds and the loop runs exactly while the run is open. `LoopImplementsGate`:
  `LoopSpec => Spec`, where the only hard steps are FINALIZE and the quiet completion.
  They need `Snapshot`: the cached verdict, when true at a stage, is still true of the
  criteria, because no tool runs between the head of the loop and the stage.
  `LoopCompletionsAreSound` is the gate's theorem carried over.
  `QuietModelNeverCompletes` adds `Unexamined`: when the first stage is chosen the
  contract is as generated, and later a true verdict always leads to FINALIZE.
  `CompletionsAreDurable` rests on it: the quiet completion is the one that writes
  nothing, and it never happens.
- **Checkpoints** (`CheckpointsProofs`). `RollbackRestores` needs three facts together:
  what is still to be copied is as it was when the call began (`TreeStill`), what is
  copied is the copy of what was there, for every sound checkpoint (`CopiesTaken`), and
  what the running rollback has restored equals its snapshot (`RestoredSoFar`).
  `CheckpointsAreKept` adds that, unless the list was lost, the disk lists what returned
  and so does the cache of a process that could read it (`ListsAgree`).
- **Pull requests** (`CheckpointsProofs`). `PrInv` follows `gitRun` through its steps: from
  the commit on, the branch it landed on is its working branch; from the report on, the
  task is completed and its reviews are asked for; a branch once pushed stays pushed.
  The working branch is the one checked out, since only a run between its start and its
  end has one, and never the base.
- **Store** (`StoreProofs`). `StoreInv` says of every table that its rows are typed, one per
  id, and whole: each column the schema makes it check names a row that is there. The column
  without a foreign key is excepted, and only it.
  `InsertKeeps`, `UpdateKeeps`, `DeleteKeeps` and `TxKeeps` show it of each statement on
  any table; `ReposDescribed` and `ReferencesTyped` go through the schema itself. `LifeInv` adds to the
  lifecycle's properties what a migrating process has read (`Progress`: what it skips or
  has passed is recorded) and that the repositories of an open object are of its
  connection.
- **Files of a run** (`JournalProofs`). `ArtInv`: a writer between file and row knows both,
  and the pruner's list never meets what it saw indexed. `LedgerInv` needs
  `CachesFollow`: an engine nobody overtook has in its cache what the file has, and more
  only when its own write was rejected; this is what lets a later rewrite of the whole file
  keep earlier entries. `DurableInv` ties each run's place in the set-up to the rows that
  are then there (`SetUpSoFar`) and a run that is alone to its own reads (`Alone`).
- **Beliefs, graph, planner** (`BeliefProofs`). `BeliefInv` keeps, between the reads and the
  write of a truth pass, that the links it has read are links of the claim it writes,
  and that a promotion has two of them; links are never withdrawn. What the last update
  event told agrees with the row at every write, the separate report of the pass aside. `EngineInv` is typing
  and the statuses' thresholds, re-established by each clamp. `ScanInv` says the graph was
  built from the snapshot; the queries are then facts about any such graph, the shortest
  paths among them by minima of the levels' numbers, not by recursion on the search. `PlanInv` has two parts.
  For the gate: the confidence of a claim is bounded by its passes since the last
  failure (`Earned`), and every claim reached over edges of certain evidence is in the
  files that make claims stale. For the plan: the entries are ranked by a total order,
  the first of which is found with `SomeoneIsFirst`, and every weak claim has an entry
  that ranks at least as high as its own. Trying to prove `RiskFirst` for all confidences
  showed that it held only within three events (section 5); it is now stated of the
  claims in doubt.
- **Client and server** (`WireProofs`). `ServerInv`: a line has a handler or an answer and
  never two of either. `StdioInv` adds that the pipes carry requests of the client and
  answers of handlers; with it `ClientImplementsPromise` maps each step of the client to
  a step of `Requests` or a stutter, the safety half of `RequestsImplemented`.
- **Model calls and the history** (`WireProofs`). `ModelInv`: while a stream is read, the
  calls gathered are those sent, part by part, and a new attempt starts with none. From
  it `ResponsesAreNotHalved`: a response keeps all its calls, loses all (OpenAI), or says
  that it was cut.
  `HistoryInv`: messages are well formed, the calls of a coming turn are new, and a tool
  result comes after the call it answers with no assistant message between the two
  (`AnswersFollow`). Appending keeps this, and so does a compaction that drops the middle,
  unless its two ends overlap; a call or an answer may then be left alone. From such a history `TranslationIsValid` follows: merging makes roles
  alternate and loses no block (`MergeAlternates`, `MergeKeepsBlocks`), dropping the blocks
  without a partner leaves pairs in adjacent turns (`ScrubPairs`), and the second merge
  keeps them adjacent (`MergeAdjoins`).
- **Services** (`ServiceProofs`). `LocalInv`: a call cites what is stored for it and has a row
  only when done. `PluginInv`: what a dispatch has called so far is below its place in the
  Map and covers what stood throughout. `ChoiceInv`,
  `RouterInv` and `GateInv` carry one decision each; the work is in lemmas on it (the
  first of a preferred order, what a rank within a cap implies, the first rule that
  matches). `SessionInv`: the settings shown are those on disk or, while a
  write of the session is under way, those it will leave there (`SettingsAreSaved`). `OutputInv` has a lemma for each strategy of the digest.

Only model-checked, and why:
- the liveness properties `RunsEnd`, `SignalsAreWritten`, the second half of
  `RequestsImplemented`, `LocalCallsReturn`, `DashboardConverges`: fairness is beyond the
  prover;
- the properties of the violated claims, which are counterexamples.

The theorems are about the component modules. The MC modules run components side by
side by letting one move and the rest stutter, which every `[][Next]_vars` here allows.

## 7. Not modelled

- **Context server**: named reads and writes handed to the store, one statement each.
  Its writers appear as the other writers of `AgentLoop` and `StateStore`.
- **Probe handlers, domain manifests, harness, repository maps**: stateless searches of
  source text for patterns, and tables. What a probe answers appears as its outcome.
- **Prompt assembly, embedding search, rendering, argument parsing, wording of reports**:
  formatting with no decision of its own.
- **Patch candidates, parent links of checkpoints, durable hypotheses, metrics and
  messages of a run**: written and listed, never read into a decision.
- **`runVerifyStage`**: unreachable, `nextStage` never answers VERIFY.
- **Evaluation, benchmarks, editor extension**: fixtures and scripts around the agent.
- **Test doubles** (in-memory store, in-process MCP client).

Within the modelled components, `PROJECT.json` names for each what is left out.
