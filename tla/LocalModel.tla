----------------------------- MODULE LocalModel -----------------------------
(***************************************************************************)
(* LocalModelService and LocalModelRouter of forge-local-model: advisory   *)
(* calls to a small model.  Each call keeps its exact input, asks whether  *)
(* the layer is usable, races the model against a timer and, whatever goes *)
(* wrong, answers with a deterministic fallback.  Two calls may run at     *)
(* once on the same service; they share the router's cached probe.         *)
(***************************************************************************)
EXTENDS Naturals, FiniteSets, Sequences

CONSTANTS LocalCalls, MaxResets   \* bound: resetProbe() calls

VARIABLES enabled,    \* "off", "on", "remote" (auto, an API model), "ollama" (auto, probed)
          reachable,  \* the router's cached probe: "undefined", "yes", "no"
          lm,         \* per call: [kind, at, fallback, refs]
          inFlight,   \* calls whose model request is still unanswered
          kept,       \* artifacts stored: <<call, "input" | "output">>
          runs,       \* per call, the rows of local_model_runs
          resets

localVars == <<enabled, reachable, lm, inFlight, kept, runs, resets>>

Move(c, at) == lm' = [lm EXCEPT ![c].at = at]

(* persistInput, persistOutput: store() may throw, then nothing is cited.  *)
Persist(c, what, at) ==
  \/ /\ kept' = kept \cup {<<c, what>>}
     /\ lm' = [lm EXCEPT ![c].at = at, ![c].refs = @ \cup {what}]
  \/ kept' = kept /\ Move(c, at)

(* summarize, classify, extract and draft ("instruct") keep their input;   *)
(* rerank and embed do not, and answer at once when given nothing.         *)
BeginLocal(c) ==
  /\ lm[c].at = "new"
  /\ lm' \in {[lm EXCEPT ![c].kind = "instruct", ![c].at = "input"]}
             \cup {[lm EXCEPT ![c].kind = k, ![c].at = at] :
                     k \in {"rerank", "embed"}, at \in {"asking", "fallback"}}
  /\ UNCHANGED <<enabled, reachable, inFlight, kept, runs, resets>>

PersistInput(c) ==
  /\ lm[c].at = "input" /\ Persist(c, "input", "asking")
  /\ UNCHANGED <<enabled, reachable, inFlight, runs, resets>>

(* router.available().                                                     *)
Available(c) ==
  /\ lm[c].at = "asking"
  /\ Move(c, IF enabled \in {"on", "remote"} THEN "ready"
             ELSE IF enabled = "off" THEN "fallback"
             ELSE [undefined |-> "probing", yes |-> "ready", no |-> "fallback"][reachable])
  /\ UNCHANGED <<enabled, reachable, inFlight, kept, runs, resets>>

ProbeEnds(c) ==
  /\ lm[c].at = "probing"
  /\ reachable' \in {"yes", "no"}
  /\ Move(c, IF reachable' = "yes" THEN "ready" ELSE "fallback")
  /\ UNCHANGED <<enabled, inFlight, kept, runs, resets>>

ResetProbe ==
  /\ resets < MaxResets /\ resets' = resets + 1
  /\ reachable' = "undefined"
  /\ UNCHANGED <<enabled, lm, inFlight, kept, runs>>

(* instructProvider()/embedProvider() give no provider, or the request     *)
(* goes out under the timer.                                               *)
Invoke(c) ==
  /\ lm[c].at = "ready"
  /\ \/ Move(c, "fallback") /\ UNCHANGED inFlight
     \/ Move(c, "invoking") /\ inFlight' = inFlight \cup {c}
  /\ UNCHANGED <<enabled, reachable, kept, runs, resets>>

(* The answer in time: text that parses, text that does not, an error.     *)
\* Mutant: an answer after the timeout is taken up as well.
AnswersAnytime(c) ==
  /\ c \in inFlight /\ inFlight' = inFlight \ {c}
  /\ \E at \in {"answered", "fallback"} : Move(c, at)
  /\ UNCHANGED <<enabled, reachable, kept, runs, resets>>

Answers(c) ==
  /\ c \in inFlight /\ inFlight' = inFlight \ {c}
  /\ IF lm[c].at = "invoking" THEN \E at \in {"answered", "fallback"} : Move(c, at)
     ELSE UNCHANGED lm          \* the promise has settled: nothing happens
  /\ UNCHANGED <<enabled, reachable, kept, runs, resets>>

\* Mutant: no timer when the probe said the model is there.
TimesOutUnprobed(c) ==
  /\ lm[c].at = "invoking" /\ reachable # "yes" /\ Move(c, "fallback")
  /\ UNCHANGED <<enabled, reachable, inFlight, kept, runs, resets>>

TimesOut(c) ==
  /\ lm[c].at = "invoking" /\ Move(c, "fallback")
  /\ UNCHANGED <<enabled, reachable, inFlight, kept, runs, resets>>

PersistOutput(c) ==
  /\ lm[c].at = "answered"
  /\ IF lm[c].kind = "instruct" THEN Persist(c, "output", "recording")
     ELSE Move(c, "recording") /\ UNCHANGED kept
  /\ UNCHANGED <<enabled, reachable, inFlight, runs, resets>>

(* record, finalizeFallback: one row, or none when the sink throws.  A     *)
(* fallback cites the input only.                                          *)
Row(c, fallback) ==
  [fallbackUsed |-> fallback, cites |-> IF fallback THEN lm[c].refs \ {"output"} ELSE lm[c].refs]

Record(c) ==
  /\ lm[c].at = "recording"
  /\ lm' = [lm EXCEPT ![c].at = "done", ![c].fallback = FALSE]
  /\ runs' \in {runs, [runs EXCEPT ![c] = @ \o <<Row(c, FALSE)>>]}
  /\ UNCHANGED <<enabled, reachable, inFlight, kept, resets>>

FinalizeFallback(c) ==
  /\ lm[c].at = "fallback"
  /\ lm' = [lm EXCEPT ![c].at = "done", ![c].fallback = TRUE]
  /\ runs' \in {runs, [runs EXCEPT ![c] = @ \o <<Row(c, TRUE)>>]}
  /\ UNCHANGED <<enabled, reachable, inFlight, kept, resets>>

LocalInit ==
  /\ enabled \in {"off", "on", "remote", "ollama"}
  /\ reachable = "undefined" /\ inFlight = {} /\ kept = {} /\ resets = 0
  /\ lm = [c \in LocalCalls |-> [kind |-> "none", at |-> "new", fallback |-> FALSE, refs |-> {}]]
  /\ runs = [c \in LocalCalls |-> <<>>]

(* What the process does by itself once a call has begun: its own timers   *)
(* and its writes; that the model ever answers is not assumed.             *)
OwnStep(c) ==
  \/ PersistInput(c) \/ Available(c) \/ ProbeEnds(c) \/ Invoke(c) \/ TimesOut(c)
  \/ PersistOutput(c) \/ Record(c) \/ FinalizeFallback(c)

LocalNext == ResetProbe \/ \E c \in LocalCalls : BeginLocal(c) \/ Answers(c) \/ OwnStep(c)

LocalFairness == \A c \in LocalCalls : WF_localVars(OwnStep(c))

LocalSpec == LocalInit /\ [][LocalNext]_localVars /\ LocalFairness
-----------------------------------------------------------------------------
(* One answer, one row: a call leaves at most one provenance row, which    *)
(* tells the fallback from the model's answer the caller got, and cites    *)
(* only artifacts that were stored for this call.                          *)
LocalRunsAreHonest ==
  \A c \in LocalCalls :
    /\ Len(runs[c]) <= 1
    /\ \A i \in DOMAIN runs[c] :
         /\ lm[c].at = "done" /\ runs[c][i].fallbackUsed = lm[c].fallback
         /\ \A what \in runs[c][i].cites : <<c, what>> \in kept

(* The loop awaits these calls inline: every call that was begun returns,  *)
(* whether or not the model answers.                                       *)
LocalCallsReturn == \A c \in LocalCalls : lm[c].at # "new" ~> lm[c].at = "done"
=============================================================================
