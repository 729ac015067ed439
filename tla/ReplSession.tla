------------------------------ MODULE ReplSession ------------------------------
(***************************************************************************)
(* The interactive session, the setup wizard inside it and the one-shot     *)
(* commands beside it: the settings each holds, the config file they share, *)
(* the agent loops they start and the tasks those loops leave behind.       *)
(***************************************************************************)
EXTENDS Naturals, FiniteSets

CONSTANTS
  ProviderNames,   \* providers a setting can name
  DefaultName,     \* the provider of the built-in configuration
  ModeNames,       \* modes the /mode command accepts; contains "implement"
  SessionTasks,    \* task identifiers
  NoSessionTask,   \* no task
  LoopIds,         \* agent loops that can be in flight at a time
  MaxInputs        \* bound: inputs of the user in all terminals

ASSUME SessionAssumption ==
  /\ DefaultName \in ProviderNames /\ "implement" \in ModeNames
  /\ NoSessionTask \notin SessionTasks

VARIABLES
  envDir,      \* FORGE_STATE_DIR: "unset" before launch, then "same" or "elsewhere"
  configs,     \* directory -> content of its config.json
  writes,      \* config writes between truncation and content
  up,          \* "off", "starting", "repl", "wizard", "stuck"
  memory,      \* the session's settings
  running,     \* the flag that makes Enter deaf
  activeTask,  \* activeTaskId
  board,       \* a dashboard was opened from the session
  loops,       \* loop id -> loop in flight
  taskStatus,  \* task -> status in its file
  reported,    \* what the last report was about
  drifted,     \* ghost: file and session were set apart by something named below
  inputs

sessionVars == <<envDir, configs, writes, up, memory, running, activeTask, board, loops,
                 taskStatus, reported, drifted, inputs>>

Settings == [provider : ProviderNames, mode : ModeNames]
NoConfig == [provider |-> "none", mode |-> "none"]
TornConfig == [provider |-> "torn", mode |-> "torn"]
DefaultConfig == [provider |-> DefaultName, mode |-> "implement"]

Dirs == {"here", "env"}
StateDir == IF envDir = "elsewhere" THEN "env" ELSE "here"

NoLoop == [kind |-> "none", task |-> NoSessionTask, with |-> NoConfig]
Fresh == {i \in LoopIds : loops[i].kind = "run"}
NoReport == [about |-> NoSessionTask, outcome |-> "none"]

SessionInit ==
  /\ envDir = "unset"
  /\ configs = [d \in Dirs |-> NoConfig]
  /\ writes = {} /\ up = "off" /\ memory = NoConfig
  /\ running = FALSE /\ activeTask = NoSessionTask /\ board = FALSE
  /\ loops = [i \in LoopIds |-> NoLoop]
  /\ taskStatus = [t \in SessionTasks |-> "absent"]
  /\ reported = NoReport /\ drifted = FALSE /\ inputs = 0

Chooses == envDir = "unset" /\ \E e \in {"same", "elsewhere"} : envDir' = e
           /\ UNCHANGED <<configs, writes, up, memory, running, activeTask, board, loops, taskStatus, reported, drifted, inputs>>

Input == envDir # "unset" /\ inputs < MaxInputs /\ inputs' = inputs + 1 /\ UNCHANGED envDir

(* A config file is truncated and then filled: one write per directory.     *)
BeginsWrite(d, c, by) ==
  /\ \A w \in writes : w.dir # d
  /\ writes' = writes \cup {[dir |-> d, what |-> c, by |-> by]}
  /\ configs' = [configs EXCEPT ![d] = TornConfig]
WritesNothing == UNCHANGED <<writes, configs>>

(* loadConfig, and initConfig where there is nothing to read.               *)
Loaded == configs[StateDir]
LoadsOrResets(by) ==
  IF Loaded \in Settings THEN WritesNothing ELSE BeginsWrite(StateDir, DefaultConfig, by)

Launch ==
  /\ up = "off" /\ Input
  /\ LoadsOrResets("launch")
  /\ up' = IF Loaded \in Settings THEN "repl" ELSE "starting"
  /\ memory' = IF Loaded \in Settings THEN Loaded ELSE DefaultConfig
  /\ drifted' = FALSE
  /\ UNCHANGED <<running, activeTask, board, loops, taskStatus, reported>>

(* Enter is heard in the session's screen while no task runs.               *)
Enter == up = "repl" /\ ~running /\ Input

StartsLoop(k, t, c) ==
  \E i \in LoopIds : loops[i] = NoLoop /\ loops' = [loops EXCEPT ![i] = [kind |-> k, task |-> t, with |-> c]]

RunTask(t) ==
  /\ Enter /\ taskStatus[t] = "absent"
  /\ running' = TRUE
  /\ StartsLoop("run", t, memory)
  /\ taskStatus' = [taskStatus EXCEPT ![t] = "working"]
  /\ WritesNothing
  /\ UNCHANGED <<up, memory, activeTask, board, reported, drifted>>

(* /resume: a loop of its own, without the flag and without the active task.*)
CmdResume(t) ==
  /\ Enter
  /\ StartsLoop("resume", t, memory)
  /\ taskStatus' = IF taskStatus[t] = "absent" THEN taskStatus ELSE [taskStatus EXCEPT ![t] = "pending"]
  /\ WritesNothing
  /\ UNCHANGED <<up, memory, running, activeTask, board, reported, drifted>>

LoopEnds(i) ==
  /\ loops[i] # NoLoop
  /\ \E s \in {"completed", "failed", "blocked", "paused", "thrown"} :
       /\ taskStatus' = IF s = "thrown" \/ taskStatus[loops[i].task] = "absent" THEN taskStatus
                        ELSE [taskStatus EXCEPT ![loops[i].task] = s]
       /\ activeTask' = IF loops[i].kind = "run" /\ s \in {"blocked", "paused"} THEN loops[i].task ELSE activeTask
  /\ running' = IF loops[i].kind = "run" THEN FALSE ELSE running
  /\ loops' = [loops EXCEPT ![i] = NoLoop]
  /\ UNCHANGED <<envDir, configs, writes, up, memory, board, reported, drifted, inputs>>

(* persistConfig: the write may be refused, and the refusal is swallowed.   *)
PersistConfig(c) ==
  \/ BeginsWrite(StateDir, c, "session") /\ drifted' = FALSE
  \/ WritesNothing /\ drifted' = TRUE

(* Variant: persisting what the session held before the command. *)
CmdSetOld(c) ==
  /\ Enter
  /\ c.provider = memory.provider \/ c.mode = memory.mode
  /\ memory' = c
  /\ PersistConfig(memory)
  /\ UNCHANGED <<up, running, activeTask, board, loops, taskStatus, reported>>

CmdSet(c) ==
  /\ Enter
  /\ c.provider = memory.provider \/ c.mode = memory.mode
  /\ memory' = c
  /\ PersistConfig(memory')
  /\ UNCHANGED <<up, running, activeTask, board, loops, taskStatus, reported>>
(* /init and the wizard write below the working directory, wherever the     *)
(* state directory is.                                                      *)
CmdInit ==
  /\ Enter
  /\ \/ BeginsWrite("here", memory, "session") /\ drifted' = (drifted /\ StateDir # "here")
     \/ WritesNothing /\ UNCHANGED drifted
  /\ UNCHANGED <<up, memory, running, activeTask, board, loops, taskStatus, reported>>

CmdSetup ==
  /\ Enter /\ up' = "wizard" /\ WritesNothing
  /\ UNCHANGED <<memory, running, activeTask, board, loops, taskStatus, reported, drifted>>

WizardCancels ==
  /\ up = "wizard" /\ Input /\ up' = "repl" /\ WritesNothing
  /\ \A w \in writes : w.by # "wizard"
  /\ UNCHANGED <<memory, running, activeTask, board, loops, taskStatus, reported, drifted>>

(* Saving: the session takes the provider over when the write is done; an   *)
(* error leaves a screen that never answers.                                *)
WizardSaves(p) ==
  /\ up = "wizard" /\ Input
  /\ \/ BeginsWrite("here", [provider |-> p, mode |-> "implement"], "wizard") /\ UNCHANGED up
     \/ up' = "stuck" /\ WritesNothing
  /\ UNCHANGED <<memory, running, activeTask, board, loops, taskStatus, reported, drifted>>

EndsWrite(w) ==
  /\ configs' = [configs EXCEPT ![w.dir] = w.what]
  /\ writes' = writes \ {w}
  /\ up' = CASE w.by = "launch" -> "repl" [] w.by = "wizard" -> "repl" [] OTHER -> up
  /\ memory' = IF w.by = "wizard" THEN [memory EXCEPT !.provider = w.what.provider] ELSE memory
  /\ drifted' = CASE w.by = "wizard" -> w.dir # StateDir
                   [] w.by = "cli" -> TRUE
                   [] OTHER -> drifted
  /\ UNCHANGED <<envDir, running, activeTask, board, loops, taskStatus, reported, inputs>>

CmdDashboard ==
  /\ Enter /\ board' = TRUE /\ WritesNothing
  /\ UNCHANGED <<up, memory, running, activeTask, loops, taskStatus, reported, drifted>>

(* Quitting, from the session, a dashboard it opened or by a kill: the      *)
(* process goes with its loops, and a file it was writing stays cut.        *)
Quit ==
  /\ up # "off" /\ Input
  /\ up' = "off" /\ running' = FALSE /\ activeTask' = NoSessionTask /\ board' = FALSE
  /\ loops' = [i \in LoopIds |-> IF loops[i].kind = "cli" THEN loops[i] ELSE NoLoop]
  /\ writes' = {w \in writes : w.by = "cli"}
  /\ UNCHANGED <<configs, memory, taskStatus, reported, drifted>>

(* runPreflight: the errors that stop a one-shot run.                       *)
Preflight == [file : BOOLEAN, database : {"unset", "down", "old", "ready"}, local : BOOLEAN, allowed : BOOLEAN]
StateErrors(p) == ~p.file /\ p.database # "ready"
Fatal(p) ==
  \/ StateErrors(p)
  \/ ~p.local /\ ~p.allowed

(* forge run and forge resume in another terminal: settings first, then the *)
(* preflight, then the loop.                                                *)
CliLoop(t, p) ==
  /\ Input /\ LoadsOrResets("cli")
  /\ IF Fatal(p) THEN UNCHANGED <<loops, taskStatus>>
     ELSE /\ StartsLoop("cli", t, IF Loaded \in Settings THEN Loaded ELSE DefaultConfig)
          /\ taskStatus' = IF taskStatus[t] = "absent" THEN [taskStatus EXCEPT ![t] = "working"] ELSE taskStatus
  /\ UNCHANGED <<up, memory, running, activeTask, board, reported, drifted>>

(* The task a command without an argument is about.                         *)
Resolved(arg) ==
  LET present == {t \in SessionTasks : taskStatus[t] # "absent"}
  IN CASE arg # NoSessionTask -> arg
       [] activeTask # NoSessionTask -> activeTask
       [] Cardinality(present) = 1 -> CHOOSE t \in present : TRUE
       [] OTHER -> NoSessionTask

(* Commands that need their argument, that ask resolveTaskId and load the   *)
(* task, and that only read the ledgers of the name they are given.         *)
Outcome(c, t) ==
  CASE t = NoSessionTask -> IF c = "explicit" THEN "usage" ELSE "no active task"
    [] c = "task" /\ taskStatus[t] = "absent" -> "not found"
    [] OTHER -> "shown"
Report(c, arg) ==
  /\ Enter /\ WritesNothing
  /\ LET t == IF c = "explicit" THEN arg ELSE Resolved(arg)
     IN reported' = [about |-> t, outcome |-> Outcome(c, t)]
  /\ UNCHANGED <<up, memory, running, activeTask, board, loops, taskStatus, drifted>>

SessionNext ==
  \/ Chooses \/ Launch \/ CmdInit \/ CmdSetup \/ WizardCancels \/ CmdDashboard \/ Quit
  \/ \E c \in Settings : CmdSet(c)
  \/ \E p \in ProviderNames : WizardSaves(p)
  \/ \E w \in writes : EndsWrite(w)
  \/ \E i \in LoopIds : LoopEnds(i)
  \/ \E t \in SessionTasks : RunTask(t) \/ CmdResume(t)
  \/ \E t \in SessionTasks, p \in Preflight : CliLoop(t, p)
  \/ \E c \in {"explicit", "task", "ledger"}, arg \in SessionTasks \cup {NoSessionTask} : Report(c, arg)

SessionSpec == SessionInit /\ [][SessionNext]_sessionVars
-----------------------------------------------------------------------------
(* At most one task typed into the session runs, the flag says so exactly,  *)
(* and it keeps running under the settings the session shows.               *)
OneRunAtATime ==
  /\ Cardinality(Fresh) <= 1
  /\ running <=> Fresh # {}
  /\ \A i \in Fresh : loops[i].with = memory

(* What the next session will start from is the provider this one shows,    *)
(* unless a write was refused, went to the other directory or was another   *)
(* process's reset of a file it found cut.                                  *)
SavedIsShown ==
  (up = "repl" /\ ~drifted /\ writes = {} /\ configs[StateDir] # TornConfig)
     => configs[StateDir].provider = memory.provider

(* A report names a task, and the active task is one with a file.           *)
ReportsAreOfTasks ==
  /\ reported.outcome = "shown" => reported.about # NoSessionTask
  /\ activeTask # NoSessionTask => taskStatus[activeTask] # "absent"

SessionHolds == OneRunAtATime /\ SavedIsShown /\ ReportsAreOfTasks
=============================================================================
