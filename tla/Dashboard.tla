------------------------------- MODULE Dashboard -------------------------------
(***************************************************************************)
(* The terminal dashboard: one current task, a refresh every five seconds   *)
(* and one per key, each of which reads for a while and re-reads the        *)
(* current task between its reads.  A panel is modelled by the set of tasks *)
(* its text is about.                                                       *)
(***************************************************************************)
EXTENDS Naturals, Sequences

CONSTANTS
  DashTasks,      \* task identifiers
  NoTask,         \* no task is current
  ClassicPanels,  \* sequence of panels drawn in the classic mode
  BeliefPanels,   \* sequence of panels drawn in the belief mode
  Refreshes,      \* refreshes that can be under way at a time
  MaxKeys,        \* bound: keys the reader presses
  MaxChanges      \* bound: changes of the task files by other processes

VARIABLES
  dashUp,     \* the screen is open
  current,    \* currentTaskId
  dashMode,   \* "classic" or "belief"
  shows,       \* "list" or "panels"
  drawn,      \* panel -> tasks its text is about
  refreshes,  \* Refreshes -> what each is doing
  taskFiles,  \* task -> "none", "torn" or "whole"
  known,      \* tasks the dashboard's own engine holds in its cache
  presses, changes

dashVars == <<dashUp, current, dashMode, shows, drawn, refreshes, taskFiles, known, presses, changes>>

Elements(s) == {s[i] : i \in DOMAIN s}
PanelsOf(m) == IF m = "classic" THEN ClassicPanels ELSE BeliefPanels
Panels == {"header"} \cup Elements(ClassicPanels) \cup Elements(BeliefPanels)

(* Panels that use the task object the refresh loaded at its start, panels  *)
(* drawn without waiting, and the panel that builds a path from the id.     *)
UsesTask == {"task", "belief", "files"}
Immediate == {"task"}
NeedsPath == {"files"}

Resting == [phase |-> "idle", task |-> NoTask, panels |-> <<>>, first |-> NoTask]
Loading(t) == [Resting EXCEPT !.phase = "load", !.task = t]

DashInit ==
  /\ dashUp = FALSE /\ current = NoTask /\ dashMode = "classic" /\ shows = "list"
  /\ drawn = [p \in Panels |-> {}]
  /\ refreshes = [r \in Refreshes |-> Resting]
  /\ taskFiles = [t \in DashTasks |-> "none"]
  /\ known = {} /\ presses = 0 /\ changes = 0

(* Start one more refresh of task t, if any is current. *)
StartRefresh(t) ==
  IF t = NoTask THEN UNCHANGED refreshes
  ELSE \E r \in Refreshes : refreshes[r] = Resting /\ refreshes' = [refreshes EXCEPT ![r] = Loading(t)]

Open(t) ==
  /\ ~dashUp /\ presses = 0
  /\ dashUp' = TRUE /\ current' = t
  /\ shows' = IF t = NoTask THEN "list" ELSE "panels"
  /\ StartRefresh(t)
  /\ UNCHANGED <<dashMode, drawn, taskFiles, known, presses, changes>>

(* Variant: the timer was set up for the classic panels only. *)
TickClassicOnly ==
  /\ dashUp /\ current # NoTask /\ dashMode = "classic"
  /\ StartRefresh(current)
  /\ UNCHANGED <<dashUp, current, dashMode, shows, drawn, taskFiles, known, presses, changes>>

Tick ==
  /\ dashUp /\ current # NoTask
  /\ StartRefresh(current)
  /\ UNCHANGED <<dashUp, current, dashMode, shows, drawn, taskFiles, known, presses, changes>>

Key == dashUp /\ presses < MaxKeys /\ presses' = presses + 1 /\ UNCHANGED <<taskFiles, known, changes>>

PressR == Key /\ StartRefresh(current) /\ UNCHANGED <<dashUp, current, dashMode, shows, drawn>>

PressT ==
  /\ Key /\ current' = NoTask /\ shows' = "list"
  /\ drawn' = [drawn EXCEPT !["header"] = {}]
  /\ UNCHANGED <<dashUp, dashMode, refreshes>>

PressB ==
  /\ Key /\ dashMode' = IF dashMode = "classic" THEN "belief" ELSE "classic"
  /\ shows' = IF current = NoTask THEN "list" ELSE "panels"
  /\ drawn' = IF current = NoTask THEN [drawn EXCEPT !["header"] = {}] ELSE drawn
  /\ StartRefresh(current)
  /\ UNCHANGED <<dashUp, current>>

(* The chosen row is an index into a listing read again: any file there is. *)
(* The panels are shown, and nothing refreshes them.                        *)
SelectTask(t) ==
  /\ shows = "list" /\ taskFiles[t] # "none"
  /\ Key /\ current' = t /\ shows' = "panels"
  /\ UNCHANGED <<dashUp, dashMode, drawn, refreshes>>

CloseAll == dashUp' = FALSE /\ refreshes' = [r \in Refreshes |-> Resting]

PressQ == Key /\ CloseAll /\ UNCHANGED <<current, dashMode, shows, drawn>>

Readable(t) == t \in known \/ taskFiles[t] = "whole"

(* The rest of a refresh, entered with the current task of that moment:     *)
(* every panel returns at once when there is none.                          *)
Continue(task, panels) ==
  IF panels = <<>> \/ current = NoTask THEN Resting
  ELSE [phase |-> "panel", task |-> task, panels |-> panels, first |-> current]

Load(r) ==
  LET t == refreshes[r].task
      all == PanelsOf(dashMode)
      now == {p \in Elements(all) : p \in Immediate}
      rest == SelectSeq(all, LAMBDA p : p \notin Immediate)
  IN /\ refreshes[r].phase = "load"
     /\ IF Readable(t)
        THEN /\ known' = known \cup {t}
             /\ drawn' = [p \in Panels |-> IF p \in now \cup {"header"} THEN {t} ELSE drawn[p]]
             /\ refreshes' = [refreshes EXCEPT ![r] = Continue(t, rest)]
        ELSE /\ drawn' = [drawn EXCEPT !["header"] = {t}]
             /\ refreshes' = [refreshes EXCEPT ![r] = Resting]
             /\ UNCHANGED known
     /\ UNCHANGED <<dashUp, current, dashMode, shows, taskFiles, presses, changes>>

(* What a panel's text is about: the loaded task where it uses it, the task *)
(* its reading began with and the one current when it ends.                 *)
About(p, r) ==
  {r.first, current} \cup (IF p \in UsesTask THEN {r.task} ELSE {})

DrawPanel(r) ==
  LET p == Head(refreshes[r].panels)
      broken == p \in NeedsPath /\ current = NoTask
  IN /\ refreshes[r].phase = "panel"
     /\ IF broken
        THEN CloseAll /\ UNCHANGED drawn          \* join(dir, undefined) throws, and nobody catches
        ELSE /\ drawn' = [drawn EXCEPT ![p] = About(p, refreshes[r])]
             /\ refreshes' = [refreshes EXCEPT ![r] = Continue(refreshes[r].task, Tail(refreshes[r].panels))]
             /\ UNCHANGED dashUp
     /\ UNCHANGED <<current, dashMode, shows, taskFiles, known, presses, changes>>

FileChanges(t) ==
  /\ dashUp /\ changes < MaxChanges /\ changes' = changes + 1
  /\ \E s \in {"torn", "whole"} : s # taskFiles[t] /\ taskFiles' = [taskFiles EXCEPT ![t] = s]
  /\ UNCHANGED <<dashUp, current, dashMode, shows, drawn, refreshes, known, presses>>

DashNext ==
  \/ Tick \/ PressR \/ PressT \/ PressB \/ PressQ
  \/ \E t \in DashTasks \cup {NoTask} : Open(t)
  \/ \E t \in DashTasks : SelectTask(t) \/ FileChanges(t)
  \/ \E r \in Refreshes : Load(r) \/ DrawPanel(r)

DashFairness == WF_dashVars(Tick) /\ \A r \in Refreshes : WF_dashVars(Load(r)) /\ WF_dashVars(DrawPanel(r))

-----------------------------------------------------------------------------
(* Refreshes of different tasks overlap and one panel can mix two tasks,    *)
(* but not for good: once the reader leaves the keys alone, every panel in  *)
(* view is wholly about the current task, unless its file cannot be read or *)
(* the dashboard is gone.                                                   *)
Settled ==
  \/ ~dashUp \/ current = NoTask \/ ~Readable(current)
  \/ \A p \in Elements(PanelsOf(dashMode)) \cup {"header"} : drawn[p] = {current}
DashboardConverges == <>[]Settled
=============================================================================
