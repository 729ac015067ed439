---------------------------- MODULE ServiceProofs ----------------------------
(* The services a run uses, one by one: the local model layer, the plugin   *)
(* registry, the choice of a provider, permissions, a session, the routing  *)
(* of capabilities and the compression of tool outputs.                     *)
EXTENDS LocalModel, PluginRegistry, ProviderChoice, PermissionGate, ReplSession,
        CapabilityRouter, ToolOutput, FiniteSetTheorems, SequenceTheorems, WellFoundedInduction, TLAPS

(* Local model: a call cites what was stored for it, and its row, if it    *)
(* has one, was written when the call was done.                            *)
Artifacts == {"input", "output"}
Places == {"new", "input", "asking", "probing", "ready", "invoking", "answered", "recording", "fallback", "done"}
LocalCall == [kind : {"none", "instruct", "rerank", "embed"}, at : Places, fallback : BOOLEAN,
              refs : SUBSET Artifacts]

LocalInv ==
  /\ lm \in [LocalCalls -> LocalCall] /\ DOMAIN runs = LocalCalls
  /\ reachable \in {"undefined", "yes", "no"} /\ inFlight \subseteq LocalCalls
  /\ runs = [c \in LocalCalls |-> runs[c]]
  /\ \A c \in LocalCalls :
       /\ \A what \in lm[c].refs : <<c, what>> \in kept
       /\ \/ runs[c] = <<>>
          \/ /\ lm[c].at = "done"
             /\ \E row \in [fallbackUsed : {lm[c].fallback}, cites : SUBSET lm[c].refs] : runs[c] = <<row>>

LEMMA LocalInitOK == LocalInit => LocalInv
  BY DEF LocalInit, LocalInv, LocalCall, Places, Artifacts

LEMMA CallReplaced ==
  ASSUME NEW before \in [LocalCalls -> LocalCall], NEW c \in LocalCalls, NEW call \in LocalCall,
         NEW after, after = [before EXCEPT ![c] = call]
  PROVE  /\ after \in [LocalCalls -> LocalCall] /\ after[c] = call
         /\ \A d \in LocalCalls \ {c} : after[d] = before[d]
  OBVIOUS

(* A step of one call that is not done and writes no row.                  *)
LEMMA CallMoves ==
  ASSUME LocalInv, NEW c \in LocalCalls, NEW call \in LocalCall, lm[c].at # "done",
         lm' = [lm EXCEPT ![c] = call], runs' = runs, kept \subseteq kept',
         \A what \in call.refs : <<c, what>> \in kept',
         reachable' \in {"undefined", "yes", "no"}, inFlight' \subseteq LocalCalls
  PROVE  LocalInv'
<1>1. /\ lm' \in [LocalCalls -> LocalCall] /\ lm'[c] = call
      /\ \A d \in LocalCalls \ {c} : lm'[d] = lm[d]
  BY DEF LocalInv
<1>2. runs[c] = <<>>
  BY DEF LocalInv
<1>3. ASSUME NEW d \in LocalCalls
      PROVE  /\ \A what \in lm'[d].refs : <<d, what>> \in kept'
             /\ \/ runs'[d] = <<>>
                \/ /\ lm'[d].at = "done"
                   /\ \E row \in [fallbackUsed : {lm'[d].fallback}, cites : SUBSET lm'[d].refs] : runs'[d] = <<row>>
  <2>1. CASE d = c
    BY <1>1, <1>2, <2>1
  <2>2. CASE d # c
    <3>1. lm'[d] = lm[d] /\ runs'[d] = runs[d]
      BY <1>1, <2>2
    <3> QED BY <3>1 DEF LocalInv
  <2> QED BY <2>1, <2>2
<1> QED BY <1>1, <1>3 DEF LocalInv

(* The same with its row, written or not when the sink throws.             *)
Recorded(c, fallback) ==
  /\ lm[c].at # "done"
  /\ lm' = [lm EXCEPT ![c].at = "done", ![c].fallback = fallback]
  /\ runs' \in {runs, [runs EXCEPT ![c] = @ \o <<Row(c, fallback)>>]}
  /\ UNCHANGED <<kept, reachable, inFlight>>

LEMMA CallIsRecorded ==
  ASSUME LocalInv, NEW c \in LocalCalls, NEW fallback \in BOOLEAN, Recorded(c, fallback)
  PROVE  LocalInv'
<1> DEFINE call == [lm[c] EXCEPT !.at = "done", !.fallback = fallback]
<1>1. lm[c] \in LocalCall /\ runs[c] = <<>>
  BY DEF LocalInv, Recorded
<1>2. call \in LocalCall /\ call.at = "done" /\ call.fallback = fallback /\ call.refs = lm[c].refs
  BY <1>1 DEF LocalCall, Places
<1>3. lm' = [lm EXCEPT ![c] = call]
  BY <1>1 DEF LocalInv, Recorded
<1> HIDE DEF call
<1>4. /\ lm' \in [LocalCalls -> LocalCall] /\ lm'[c] = call
      /\ \A d \in LocalCalls \ {c} : lm'[d] = lm[d]
  <2>1. lm \in [LocalCalls -> LocalCall]
    BY DEF LocalInv
  <2> QED BY <1>2, <1>3, <2>1, CallReplaced
<1>5. Row(c, fallback) \in [fallbackUsed : {fallback}, cites : SUBSET lm[c].refs]
  BY DEF Row
<1>6. /\ DOMAIN runs' = LocalCalls /\ runs' = [d \in LocalCalls |-> runs'[d]]
      /\ \A d \in LocalCalls \ {c} : runs'[d] = runs[d]
      /\ runs'[c] = <<>> \/ runs'[c] = <<>> \o <<Row(c, fallback)>>
  BY <1>1 DEF LocalInv, Recorded
<1>7. runs'[c] = <<>> \/ runs'[c] = <<Row(c, fallback)>>
  BY <1>6
<1>8. ASSUME NEW d \in LocalCalls
      PROVE  /\ \A what \in lm'[d].refs : <<d, what>> \in kept'
             /\ \/ runs'[d] = <<>>
                \/ /\ lm'[d].at = "done"
                   /\ \E row \in [fallbackUsed : {lm'[d].fallback}, cites : SUBSET lm'[d].refs] : runs'[d] = <<row>>
  <2>1. CASE d = c
    <3>1. kept' = kept /\ \A what \in lm[c].refs : <<c, what>> \in kept
      BY DEF LocalInv, Recorded
    <3> QED BY <1>2, <1>4, <1>5, <1>7, <2>1, <3>1
  <2>2. CASE d # c
    <3>1. lm'[d] = lm[d] /\ runs'[d] = runs[d]
      BY <1>4, <1>6, <2>2
    <3> QED BY <3>1 DEF LocalInv, Recorded
  <2> QED BY <2>1, <2>2
<1> QED BY <1>4, <1>6, <1>8 DEF LocalInv, Recorded

LEMMA MoveIsSafe ==
  ASSUME LocalInv, NEW c \in LocalCalls, NEW at \in Places, Move(c, at), lm[c].at # "done",
         UNCHANGED <<kept, runs>>,
         reachable' \in {"undefined", "yes", "no"}, inFlight' \subseteq LocalCalls
  PROVE  LocalInv'
<1> DEFINE call == [lm[c] EXCEPT !.at = at]
<1>1. lm[c] \in LocalCall /\ \A what \in lm[c].refs : <<c, what>> \in kept
  BY DEF LocalInv
<1>2. call \in LocalCall /\ call.refs = lm[c].refs
  BY <1>1 DEF LocalCall
<1>3. lm' = [lm EXCEPT ![c] = call]
  BY <1>1 DEF LocalInv, Move
<1> HIDE DEF call
<1> QED BY <1>1, <1>2, <1>3, CallMoves

LEMMA PersistIsSafe ==
  ASSUME LocalInv, NEW c \in LocalCalls, NEW at \in Places, NEW what \in Artifacts, Persist(c, what, at),
         lm[c].at # "done", UNCHANGED <<runs, reachable, inFlight>>
  PROVE  LocalInv'
<1>1. CASE kept' = kept /\ Move(c, at)
  BY <1>1, MoveIsSafe DEF LocalInv
<1>2. CASE /\ kept' = kept \cup {<<c, what>>}
           /\ lm' = [lm EXCEPT ![c].at = at, ![c].refs = @ \cup {what}]
  <2> DEFINE call == [lm[c] EXCEPT !.at = at, !.refs = @ \cup {what}]
  <2>1. lm[c] \in LocalCall /\ \A x \in lm[c].refs : <<c, x>> \in kept
    BY DEF LocalInv
  <2>2. call \in LocalCall /\ call.refs = lm[c].refs \cup {what}
    BY <2>1 DEF LocalCall
  <2>3. lm' = [lm EXCEPT ![c] = call]
    BY <1>2, <2>1 DEF LocalInv
  <2> HIDE DEF call
  <2>4. \A x \in call.refs : <<c, x>> \in kept'
    BY <1>2, <2>1, <2>2
  <2> QED BY <1>2, <2>2, <2>3, <2>4, CallMoves DEF LocalInv
<1> QED BY <1>1, <1>2 DEF Persist

LEMMA BeginLocalStep ==
  ASSUME LocalInv, NEW c \in LocalCalls, BeginLocal(c) PROVE LocalInv'
<1>1. PICK kind \in {"instruct", "rerank", "embed"}, at \in {"input", "asking", "fallback"} :
        lm' = [lm EXCEPT ![c].kind = kind, ![c].at = at]
  BY DEF BeginLocal
<1> DEFINE call == [lm[c] EXCEPT !.kind = kind, !.at = at]
<1>2. lm[c] \in LocalCall /\ \A x \in lm[c].refs : <<c, x>> \in kept
  BY DEF LocalInv
<1>3. call \in LocalCall /\ call.refs = lm[c].refs
  BY <1>2 DEF LocalCall, Places
<1>4. lm' = [lm EXCEPT ![c] = call]
  BY <1>1, <1>2 DEF LocalInv
<1> HIDE DEF call
<1>5. lm[c].at # "done" /\ UNCHANGED <<kept, runs, reachable, inFlight>>
  BY DEF BeginLocal
<1> QED BY <1>2, <1>3, <1>4, <1>5, CallMoves DEF LocalInv

LEMMA OwnStepIsSafe ==
  ASSUME LocalInv, NEW c \in LocalCalls, OwnStep(c) \/ Answers(c) PROVE LocalInv'
<1>1. CASE PersistInput(c)
  BY <1>1, PersistIsSafe DEF PersistInput, Places, Artifacts
<1>2. CASE Available(c)
  <2>1. PICK at \in {"ready", "fallback", "probing"} : Move(c, at)
    BY <1>2 DEF Available, LocalInv
  <2> QED BY <1>2, <2>1, MoveIsSafe DEF Available, Places, LocalInv
<1>3. CASE ProbeEnds(c)
  <2>1. PICK at \in {"ready", "fallback"} : Move(c, at)
    BY <1>3 DEF ProbeEnds
  <2> QED BY <1>3, <2>1, MoveIsSafe DEF ProbeEnds, Places, LocalInv
<1>4. CASE Invoke(c)
  <2>1. PICK at \in {"invoking", "fallback"} : Move(c, at)
    BY <1>4 DEF Invoke
  <2> QED BY <1>4, <2>1, MoveIsSafe DEF Invoke, Places, LocalInv
<1>5. CASE TimesOut(c)
  BY <1>5, MoveIsSafe DEF TimesOut, Places, LocalInv
<1>6. CASE PersistOutput(c)
  <2>1. CASE Persist(c, "output", "recording")
    BY <1>6, <2>1, PersistIsSafe DEF PersistOutput, Places, Artifacts
  <2>2. CASE Move(c, "recording") /\ UNCHANGED kept
    BY <1>6, <2>2, MoveIsSafe DEF PersistOutput, Places, LocalInv
  <2> QED BY <1>6, <2>1, <2>2 DEF PersistOutput
<1>7. CASE Record(c)
  BY <1>7, CallIsRecorded DEF Record, Recorded
<1>8. CASE FinalizeFallback(c)
  BY <1>8, CallIsRecorded DEF FinalizeFallback, Recorded
<1>9. CASE Answers(c)
  <2>1. CASE lm[c].at = "invoking"
    <3>1. PICK at \in {"answered", "fallback"} : Move(c, at)
      BY <1>9, <2>1 DEF Answers
    <3> QED BY <1>9, <2>1, <3>1, MoveIsSafe DEF Answers, Places, LocalInv
  <2>2. CASE lm[c].at # "invoking"
    BY <1>9, <2>2 DEF Answers, LocalInv
  <2> QED BY <2>1, <2>2
<1> QED BY <1>1, <1>2, <1>3, <1>4, <1>5, <1>6, <1>7, <1>8, <1>9 DEF OwnStep

LEMMA LocalStepOK == LocalInv /\ [LocalNext]_localVars => LocalInv'
<1> SUFFICES ASSUME LocalInv, [LocalNext]_localVars PROVE LocalInv'
  OBVIOUS
<1>1. CASE ResetProbe \/ UNCHANGED localVars
  <2>1. UNCHANGED <<lm, inFlight, kept, runs>> /\ reachable' \in {"undefined", "yes", "no"}
    BY <1>1 DEF ResetProbe, localVars, LocalInv
  <2> QED BY <2>1 DEF LocalInv
<1> QED BY <1>1, BeginLocalStep, OwnStepIsSafe DEF LocalNext

(* For any number of calls at once: at most one provenance row each, of    *)
(* the answer the caller got, citing only what was stored for the call     *)
(* (LocalModelService).                                                    *)
THEOREM LocalRunsStayHonest == LocalSpec => []LocalRunsAreHonest
<1>1. LocalInv => LocalRunsAreHonest
  <2> SUFFICES ASSUME LocalInv, NEW c \in LocalCalls
               PROVE  /\ Len(runs[c]) <= 1
                      /\ \A i \in DOMAIN runs[c] :
                           /\ lm[c].at = "done" /\ runs[c][i].fallbackUsed = lm[c].fallback
                           /\ \A what \in runs[c][i].cites : <<c, what>> \in kept
    BY DEF LocalRunsAreHonest
  <2>1. CASE runs[c] = <<>>
    BY <2>1
  <2>2. ASSUME NEW row \in [fallbackUsed : {lm[c].fallback}, cites : SUBSET lm[c].refs],
               lm[c].at = "done", runs[c] = <<row>>
        PROVE  /\ Len(runs[c]) <= 1
               /\ \A i \in DOMAIN runs[c] :
                    /\ lm[c].at = "done" /\ runs[c][i].fallbackUsed = lm[c].fallback
                    /\ \A what \in runs[c][i].cites : <<c, what>> \in kept
    <3>1. Len(runs[c]) = 1 /\ DOMAIN runs[c] = {1} /\ runs[c][1] = row
      BY <2>2
    <3>2. \A what \in row.cites : <<c, what>> \in kept
      BY DEF LocalInv
    <3> QED BY <2>2, <3>1, <3>2
  <2> QED BY <2>1, <2>2 DEF LocalInv
<1> QED BY <1>1, LocalInitOK, LocalStepOK, PTL DEF LocalSpec
-----------------------------------------------------------------------------
(* Plugins: an entry's place in the Map is its serial, and a dispatch has  *)
(* called what it passed and is still there.                               *)
Entry == [id : PluginIds, caps : SUBSET CapabilityIds, hook : BOOLEAN, registeredAt : Nat, serial : Nat,
          gone : BOOLEAN]

MapOK ==
  /\ plugins \in Seq(Entry) /\ loadOrder \in Nat /\ serials = Len(plugins)
  /\ \A i \in DOMAIN plugins : plugins[i].serial = i
  /\ \A i \in Live : plugins[i].registeredAt <= loadOrder
  /\ CapabilityHasOneOwner

WalkOK ==
  /\ dispatching \in [at : Nat, state : {"idle", "next", "awaiting"}] /\ called \in Seq(Nat)
  /\ \A i, j \in DOMAIN called : i < j => called[i] < called[j]
  /\ dispatching.state # "idle" =>
       /\ outcome = "none"
       /\ \A i \in DOMAIN called : called[i] <= dispatching.at
       /\ \A i \in standing : i \in Live /\ plugins[i].hook
       /\ \A i \in standing : i <= dispatching.at => \E k \in DOMAIN called : called[k] = i
  /\ outcome = "done" => \A i \in standing : \E k \in DOMAIN called : called[k] = i

PluginInv == MapOK /\ WalkOK

LEMMA PluginInitOK == PluginInit => PluginInv
<1> SUFFICES ASSUME PluginInit PROVE PluginInv
  OBVIOUS
<1>1. MapOK
  BY DEF PluginInit, MapOK, Live, CapabilityHasOneOwner
<1>2. WalkOK
  BY DEF PluginInit, WalkOK, Idle
<1> QED BY <1>1, <1>2 DEF PluginInv

LEMMA RegisterStep ==
  ASSUME PluginInv, Register PROVE PluginInv'
<1>1. PICK id \in PluginIds \ Ids, theirs \in SUBSET CapabilityIds, hook \in BOOLEAN :
        /\ ~Overlaps(theirs) /\ serials' = serials + 1 /\ loadOrder' = loadOrder + 1
        /\ plugins' = Append(plugins, [id |-> id, caps |-> theirs, hook |-> hook,
                                       registeredAt |-> loadOrder', serial |-> serials', gone |-> FALSE])
  BY DEF Register
<1> DEFINE new == [id |-> id, caps |-> theirs, hook |-> hook,
                   registeredAt |-> loadOrder + 1, serial |-> serials + 1, gone |-> FALSE]
           n == Len(plugins)
<1>2. plugins \in Seq(Entry) /\ n \in Nat /\ serials = n /\ loadOrder \in Nat /\ DOMAIN plugins = 1..n
  BY DEF PluginInv, MapOK
<1>3. /\ new \in Entry /\ new.id = id /\ new.caps = theirs /\ new.registeredAt = loadOrder + 1
      /\ new.serial = n + 1 /\ ~new.gone
  BY <1>2 DEF Entry
<1>4. plugins' = Append(plugins, new)
  BY <1>1
<1> HIDE DEF new
<1>5. /\ plugins' \in Seq(Entry) /\ Len(plugins') = n + 1 /\ plugins'[n + 1] = new
      /\ DOMAIN plugins' = 1..(n + 1) /\ \A i \in 1..n : plugins'[i] = plugins[i]
  BY <1>2, <1>3, <1>4, AppendProperties
<1> HIDE DEF n
<1>6. Live' = Live \cup {n + 1} /\ Live \subseteq 1..n
  <2>1. \A i \in 1..(n + 1) : i \in 1..n \/ i = n + 1
    BY <1>2
  <2> QED BY <1>2, <1>3, <1>5, <2>1 DEF Live
<1>7. \A i \in Live : plugins[i].id # id /\ plugins[i].caps \cap theirs = {}
  BY <1>1 DEF Ids, Overlaps
<1>8. MapOK'
  <2>1. \A i \in DOMAIN plugins' : plugins'[i].serial = i
    <3>1. \A i \in 1..(n + 1) : i \in 1..n \/ i = n + 1
      BY <1>2
    <3> QED BY <1>2, <1>3, <1>5, <3>1 DEF PluginInv, MapOK
  <2>2. \A i \in Live : plugins[i].registeredAt \in Nat /\ plugins[i].registeredAt <= loadOrder
    <3>1. \A i \in Live : plugins[i] \in Entry
      BY <1>2, <1>6
    <3> QED BY <3>1 DEF PluginInv, MapOK, Entry
  <2>3. \A i \in Live' : plugins'[i].registeredAt <= loadOrder'
    BY <1>1, <1>2, <1>3, <1>5, <1>6, <2>2
  <2>4. CapabilityHasOneOwner'
    <3> SUFFICES ASSUME NEW i \in Live', NEW j \in Live', i < j
                 PROVE  /\ plugins'[i].id # plugins'[j].id /\ plugins'[i].caps \cap plugins'[j].caps = {}
                        /\ plugins'[i].registeredAt < plugins'[j].registeredAt
      BY DEF CapabilityHasOneOwner
    <3>1. i \in Live
      BY <1>2, <1>6
    <3>2. CASE j \in Live
      BY <1>5, <1>6, <3>1, <3>2 DEF PluginInv, MapOK, CapabilityHasOneOwner
    <3>3. CASE j = n + 1
      <4>1. plugins'[i] = plugins[i] /\ plugins'[j] = new
        BY <1>5, <1>6, <3>1, <3>3
      <4>2. plugins[i].registeredAt < loadOrder + 1
        BY <1>2, <2>2, <3>1
      <4> QED BY <1>3, <1>7, <3>1, <4>1, <4>2
    <3> QED BY <1>6, <3>2, <3>3
  <2>5. serials' = Len(plugins') /\ loadOrder' \in Nat
    BY <1>1, <1>2, <1>5
  <2> QED BY <1>5, <2>1, <2>3, <2>4, <2>5 DEF MapOK
<1>9. WalkOK'
  <2>1. UNCHANGED <<dispatching, standing, called, outcome>>
    BY DEF Register
  <2>2. \A i \in Live : i \in Live' /\ plugins'[i] = plugins[i]
    BY <1>5, <1>6
  <2> QED BY <2>1, <2>2 DEF PluginInv, WalkOK
<1> QED BY <1>8, <1>9 DEF PluginInv

(* Whatever is dropped, what is left keeps its place.                      *)
LEMMA DropStep ==
  ASSUME PluginInv, NEW gone \in SUBSET Live, Drop(gone), gone = Live \/ loadOrder' = loadOrder,
         loadOrder' \in Nat, UNCHANGED <<serials, dispatching, called, outcome>>
  PROVE  PluginInv'
<1> DEFINE n == Len(plugins)
<1>1. plugins \in Seq(Entry) /\ n \in Nat /\ DOMAIN plugins = 1..n /\ Live \subseteq 1..n
  BY DEF PluginInv, MapOK, Live
<1>2. \A i \in 1..n : plugins[i] \in Entry
  BY <1>1
<1>3. /\ DOMAIN plugins' = 1..n
      /\ \A i \in 1..n : plugins'[i] = IF i \in gone THEN [plugins[i] EXCEPT !.gone = TRUE] ELSE plugins[i]
  BY <1>1 DEF Drop
<1>4. \A i \in 1..n : [plugins[i] EXCEPT !.gone = TRUE] \in Entry /\ [plugins[i] EXCEPT !.gone = TRUE].gone = TRUE
                      /\ [plugins[i] EXCEPT !.gone = TRUE].serial = plugins[i].serial
  BY <1>2 DEF Entry
<1>5. \A i \in 1..n : /\ plugins'[i] \in Entry /\ plugins'[i].serial = plugins[i].serial
                      /\ i \in gone => plugins'[i].gone
                      /\ i \notin gone => plugins'[i] = plugins[i]
  BY <1>2, <1>3, <1>4
<1>6. plugins' \in Seq(Entry) /\ Len(plugins') = n
  <2>1. plugins' = [i \in 1..n |-> plugins'[i]]
    BY <1>1 DEF Drop
  <2> QED BY <1>1, <1>5, <2>1
<1> HIDE DEF n
<1>7. Live' = Live \ gone
  BY <1>1, <1>3, <1>5 DEF Live
<1>8. MapOK'
  <2>1. \A i \in DOMAIN plugins' : plugins'[i].serial = i
    BY <1>1, <1>3, <1>5 DEF PluginInv, MapOK
  <2>2. \A i \in Live' : plugins'[i] = plugins[i] /\ i \in Live /\ loadOrder' = loadOrder
    BY <1>1, <1>5, <1>7
  <2>3. CapabilityHasOneOwner' /\ \A i \in Live' : plugins'[i].registeredAt <= loadOrder'
    BY <2>2 DEF PluginInv, MapOK, CapabilityHasOneOwner
  <2>4. serials' = Len(plugins')
    BY <1>6 DEF PluginInv, MapOK, n
  <2> QED BY <1>6, <2>1, <2>3, <2>4 DEF MapOK
<1>9. WalkOK'
  <2>1. standing' = standing \ gone
    <3>1. {plugins[i].serial : i \in gone} = gone
      BY <1>1 DEF PluginInv, MapOK
    <3> QED BY <3>1 DEF Drop
  <2>2. \A i \in standing' : i \in standing /\ (i \in Live => i \in Live' /\ plugins'[i] = plugins[i])
    BY <1>1, <1>5, <1>7, <2>1
  <2> QED BY <2>2 DEF PluginInv, WalkOK
<1> QED BY <1>8, <1>9 DEF PluginInv

LEMMA BeginDispatchStep ==
  ASSUME PluginInv, BeginDispatch PROVE PluginInv'
<1>1. UNCHANGED <<plugins, loadOrder, serials>>
  BY DEF BeginDispatch
<1>2. MapOK'
  BY <1>1 DEF PluginInv, MapOK, CapabilityHasOneOwner, Live
<1>3. \A i \in Live : i \in Nat /\ i > 0 /\ plugins[i].serial = i
  BY DEF PluginInv, MapOK, Live
<1>4. \A i \in standing' : i \in Live' /\ plugins'[i].hook /\ i > 0
  BY <1>1, <1>3 DEF BeginDispatch, Live
<1>5. /\ dispatching' = [at |-> 0, state |-> "next"] /\ called' = <<>> /\ outcome' = "none"
  BY DEF BeginDispatch
<1>6. /\ dispatching' \in [at : Nat, state : {"idle", "next", "awaiting"}] /\ dispatching'.at = 0
  BY <1>5
<1>7. WalkOK'
  <2>1. \A i \in standing' : ~(i <= 0)
    BY <1>1, <1>3, <1>4 DEF Live
  <2>2. called' \in Seq(Nat) /\ DOMAIN called' = {}
    BY <1>5
  <2> QED BY <1>4, <1>5, <1>6, <2>1, <2>2 DEF WalkOK
<1> QED BY <1>2, <1>7 DEF PluginInv

LEMMA FirstAhead ==
  ASSUME NEW S \in SUBSET Nat, S # {}
  PROVE  \E i \in S : \A j \in S : i <= j
<1> DEFINE less == {pair \in Nat \X Nat : pair[1] < pair[2]}
<1>1. IsWellFoundedOn(less, Nat)
  BY NatLessThanWellFounded DEF OpToRel
<1>2. PICK i \in S : \A j \in S : ~(<<j, i>> \in less)
  <2> HIDE DEF less
  <2> QED BY <1>1, WFMin
<1>3. ASSUME NEW j \in S PROVE i <= j
  <2>1. i \in Nat /\ j \in Nat /\ <<j, i>> \in Nat \X Nat
    OBVIOUS
  <2>2. <<j, i>>[1] = j /\ <<j, i>>[2] = i
    OBVIOUS
  <2>3. ~(j < i)
    BY <1>2, <2>1, <2>2
  <2> QED BY <2>1, <2>3
<1> QED BY <1>3

LEMMA NextEntryStep ==
  ASSUME PluginInv, NextEntry PROVE PluginInv'
<1>1. UNCHANGED <<plugins, loadOrder, serials, standing>> /\ dispatching.state = "next"
  BY DEF NextEntry
<1>2. MapOK'
  BY <1>1 DEF PluginInv, MapOK, CapabilityHasOneOwner, Live
<1>3. WalkOK'
  <2>1. CASE Ahead = {}
    <3>1. dispatching' = Idle /\ outcome' = "done" /\ called' = called
      BY <2>1 DEF NextEntry
    <3>2. \A i \in standing : i <= dispatching.at
      <4>1. \A i \in Live : ~(i > dispatching.at) /\ i \in Nat
        BY <2>1 DEF Ahead, Live, PluginInv, MapOK
      <4>2. dispatching.at \in Nat
        BY DEF PluginInv, WalkOK
      <4> QED BY <1>1, <4>1, <4>2 DEF PluginInv, WalkOK
    <3> QED BY <1>1, <3>1, <3>2 DEF PluginInv, WalkOK, Idle
  <2>2. CASE Ahead # {}
    <3> DEFINE i == CHOOSE i \in Ahead : \A j \in Ahead : i <= j
               n == Len(called)
    <3>1. Live \subseteq Nat /\ dispatching.at \in Nat /\ \A k \in Live : plugins[k].serial = k
      BY DEF Live, PluginInv, MapOK, WalkOK
    <3>2. i \in Ahead /\ \A j \in Ahead : i <= j
      <4>1. Ahead \in SUBSET Nat
        BY <3>1 DEF Ahead
      <4> QED BY <2>2, <4>1, FirstAhead
    <3>3. /\ dispatching' = [at |-> i, state |-> IF plugins[i].hook THEN "awaiting" ELSE "next"]
          /\ called' = IF plugins[i].hook THEN Append(called, plugins[i].serial) ELSE called
          /\ outcome' = outcome
      BY <2>2 DEF NextEntry
    <3> HIDE DEF i
    <3>4. /\ i \in Live /\ i \in Nat /\ i > dispatching.at /\ plugins[i].serial = i
          /\ \A j \in Live : j > dispatching.at => i <= j
      BY <3>1, <3>2 DEF Ahead
    <3>5. /\ called \in Seq(Nat) /\ n \in Nat /\ DOMAIN called = 1..n
          /\ \A k \in 1..n : called[k] \in Nat /\ called[k] <= dispatching.at
      BY <1>1 DEF PluginInv, WalkOK
    <3>6. /\ dispatching' \in [at : Nat, state : {"idle", "next", "awaiting"}]
          /\ dispatching'.at = i /\ dispatching'.state # "idle" /\ outcome' = "none"
      BY <1>1, <3>3, <3>4 DEF PluginInv, WalkOK
    <3>7. \A k \in standing : k <= dispatching.at \/ k = i \/ ~(k <= i)
      <4>1. \A k \in standing : k \in Live /\ k \in Nat
        BY <1>1, <3>1 DEF PluginInv, WalkOK
      <4> QED BY <3>1, <3>4, <4>1
    <3>8. \A k \in standing : k \in Live' /\ plugins'[k].hook
      BY <1>1 DEF PluginInv, WalkOK, Live
    <3>9. \A k \in standing : k <= dispatching.at => \E m \in 1..n : called[m] = k
      BY <1>1, <3>5 DEF PluginInv, WalkOK
    <3>10. \A k, m \in 1..n : k < m => called[k] < called[m]
      BY <3>5 DEF PluginInv, WalkOK
    <3>11. CASE plugins[i].hook
      <4>1. called' = Append(called, i)
        BY <3>3, <3>4, <3>11
      <4>2. /\ called' \in Seq(Nat) /\ DOMAIN called' = 1..(n + 1) /\ called'[n + 1] = i
            /\ \A k \in 1..n : called'[k] = called[k]
        BY <3>4, <3>5, <4>1, AppendProperties
      <4> HIDE DEF n
      <4>3. \A k \in 1..(n + 1) : k \in 1..n \/ k = n + 1
        BY <3>5
      <4>4. \A k, m \in DOMAIN called' : k < m => called'[k] < called'[m]
        <5>1. \A k \in 1..n : called'[k] < i
          BY <3>1, <3>4, <3>5, <4>2
        <5>2. \A k \in 1..(n + 1) : ~(n + 1 < k)
          BY <3>5
        <5> QED BY <3>5, <3>10, <4>2, <4>3, <5>1, <5>2
      <4>5. \A k \in DOMAIN called' : called'[k] <= i
        BY <3>1, <3>4, <3>5, <4>2, <4>3
      <4>6. \A k \in standing : k <= i => \E m \in DOMAIN called' : called'[m] = k
        <5>1. n + 1 \in 1..(n + 1) /\ \A m \in 1..n : m \in 1..(n + 1)
          BY <3>5
        <5> QED BY <3>7, <3>9, <4>2, <5>1
      <4> QED BY <1>1, <3>6, <3>8, <4>2, <4>4, <4>5, <4>6 DEF WalkOK
    <3>12. CASE ~plugins[i].hook
      <4>1. called' = called /\ i \notin standing
        BY <1>1, <3>3, <3>12 DEF PluginInv, WalkOK
      <4>2. \A k \in 1..n : called[k] <= i
        BY <3>1, <3>4, <3>5
      <4>3. \A k \in standing : k <= i => \E m \in 1..n : called[m] = k
        BY <3>7, <3>9, <4>1
      <4> QED BY <1>1, <3>5, <3>6, <3>8, <3>10, <4>1, <4>2, <4>3 DEF WalkOK
    <3> QED BY <3>11, <3>12
  <2> QED BY <2>1, <2>2
<1> QED BY <1>2, <1>3 DEF PluginInv

LEMMA HookEndsStep ==
  ASSUME PluginInv, HookEnds PROVE PluginInv'
<1>1. UNCHANGED <<plugins, loadOrder, serials, standing, called>> /\ dispatching.state = "awaiting"
  BY DEF HookEnds
<1>2. MapOK'
  BY <1>1 DEF PluginInv, MapOK, CapabilityHasOneOwner, Live
<1>3. dispatching \in [at : Nat, state : {"idle", "next", "awaiting"}]
  BY DEF PluginInv, WalkOK
<1>4. CASE dispatching' = [dispatching EXCEPT !.state = "next"] /\ outcome' = outcome
  <2>1. /\ dispatching' \in [at : Nat, state : {"idle", "next", "awaiting"}]
        /\ dispatching'.at = dispatching.at /\ dispatching'.state = "next"
    BY <1>3, <1>4
  <2> QED BY <1>1, <1>2, <1>4, <2>1 DEF PluginInv, WalkOK, Live
<1>5. CASE dispatching' = Idle /\ outcome' = "threw"
  BY <1>1, <1>2, <1>5 DEF PluginInv, WalkOK, Idle
<1> QED BY <1>4, <1>5 DEF HookEnds

LEMMA PluginStepOK == PluginInv /\ [PluginNext]_pluginVars => PluginInv'
<1> SUFFICES ASSUME PluginInv, [PluginNext]_pluginVars PROVE PluginInv'
  OBVIOUS
<1>1. CASE UNCHANGED pluginVars
  BY <1>1 DEF PluginInv, MapOK, WalkOK, CapabilityHasOneOwner, Live, pluginVars
<1>2. CASE Unregister
  <2>1. PICK i \in Live : Drop({i})
    BY <1>2 DEF Unregister
  <2>2. {i} \in SUBSET Live
    OBVIOUS
  <2> QED BY <1>2, <2>1, <2>2, DropStep DEF Unregister, PluginInv, MapOK
<1>3. CASE Clear
  <2>1. Live \in SUBSET Live /\ 0 \in Nat
    OBVIOUS
  <2> QED BY <1>3, <2>1, DropStep DEF Clear
<1> QED BY <1>1, <1>2, <1>3, RegisterStep, BeginDispatchStep, NextEntryStep, HookEndsStep DEF PluginNext

(* For any plugins and capabilities: a capability has one owner, list()    *)
(* and dispatch agree on the order, and a dispatch that ends calls every   *)
(* plugin that stood throughout, once and in order, whatever the handlers  *)
(* register or remove meanwhile (PluginRegistry).                          *)
THEOREM RegistryStaysSound == PluginSpec => []RegistrySound
<1>1. PluginInv => RegistrySound
  <2> SUFFICES ASSUME PluginInv PROVE RegistrySound
    OBVIOUS
  <2>1. ASSUME outcome = "done" PROVE standing \subseteq ToSet(called)
    <3>1. \A i \in standing : \E k \in DOMAIN called : called[k] = i
      BY <2>1 DEF PluginInv, WalkOK
    <3> QED BY <3>1 DEF ToSet
  <2>2. CapabilityHasOneOwner /\ \A i, j \in DOMAIN called : i < j => called[i] < called[j]
    BY DEF PluginInv, MapOK, WalkOK
  <2> QED BY <2>1, <2>2 DEF RegistrySound, DispatchReachesAll
<1> QED BY <1>1, PluginInitOK, PluginStepOK, PTL DEF PluginSpec
-----------------------------------------------------------------------------
(* Provider choice: a name that was chosen meets the policy it was chosen  *)
(* for, which is not asked again.                                          *)
PolicyOf == [asked : BOOLEAN, vision : BOOLEAN, context : Nat, cost : Nat, preferred : Names \cup {"none"}]
Cheapest(n, p) == \A m \in Names : Meets(m, p) => Catalog[n].cost <= Catalog[m].cost

ChoiceInv ==
  /\ policy \in PolicyOf
  /\ choice.name # "none" =>
       policy.asked /\ Meets(choice.name, policy) /\ (choice.name # policy.preferred => Cheapest(choice.name, policy))

LEMMA PlacesAreNumbers == \A n \in Names : Place(n) \in 1..7
<1> SUFFICES ASSUME NEW n \in Names PROVE Place(n) \in 1..7
  OBVIOUS
<1>1. DOMAIN Alphabet = 1..7
  BY DEF Alphabet
<1>2. n \in {"anthropic", "minimax", "nous", "ollama", "ollamaCloud", "openai", "openrouter"}
  BY DEF Names, Catalog
<1>3. \E i \in 1..7 : Alphabet[i] = n
  <2>1. 1 \in 1..7 /\ 2 \in 1..7 /\ 3 \in 1..7 /\ 4 \in 1..7 /\ 5 \in 1..7 /\ 6 \in 1..7 /\ 7 \in 1..7
    OBVIOUS
  <2> QED BY <1>2, <2>1 DEF Alphabet
<1> QED BY <1>1, <1>3 DEF Place

LEMMA CostsAreNumbers == \A n \in Names : Catalog[n].cost \in 0..3
  BY DEF Names, Catalog

(* Of the providers that match, one comes first by cost and then by name.  *)
LEMMA OneComesFirst ==
  ASSUME NEW S \in SUBSET Names, S # {}
  PROVE  \E n \in S : \A m \in S :
           Catalog[n].cost < Catalog[m].cost \/ (Catalog[n].cost = Catalog[m].cost /\ Place(n) <= Place(m))
<1> DEFINE rank(n) == 8 * Catalog[n].cost + Place(n)
           ranks == {rank(n) : n \in S}
<1>1. \A n \in S : Catalog[n].cost \in 0..3 /\ Place(n) \in 1..7
  BY PlacesAreNumbers, CostsAreNumbers
<1>2. \A n \in S : rank(n) \in Nat
  BY <1>1
<1>3. ranks \in SUBSET Nat /\ ranks # {}
  BY <1>2
<1>4. PICK r \in ranks : \A k \in ranks : r <= k
  BY <1>3, FirstAhead
<1>5. PICK n \in S : r = rank(n)
  BY <1>4
<1>6. \A m \in S : rank(n) <= rank(m)
  BY <1>4, <1>5
<1>7. ASSUME NEW m \in S
      PROVE  Catalog[n].cost < Catalog[m].cost \/ (Catalog[n].cost = Catalog[m].cost /\ Place(n) <= Place(m))
  <2>1. 8 * Catalog[n].cost + Place(n) <= 8 * Catalog[m].cost + Place(m)
    BY <1>6
  <2> DEFINE a == Catalog[n].cost
             b == Catalog[m].cost
             c == Place(n)
             d == Place(m)
  <2>2. a \in 0..3 /\ b \in 0..3 /\ c \in 1..7 /\ d \in 1..7 /\ 8 * a + c <= 8 * b + d
    BY <1>1, <2>1
  <2> HIDE DEF a, b, c, d
  <2>3. a < b \/ (a = b /\ c <= d)
    BY <2>2
  <2> QED BY <2>3 DEF a, b, c, d
<1> QED BY <1>5, <1>7

(* What selectProvider returns.                                            *)
LEMMA PickKeepsPolicy ==
  ASSUME NEW p, Pick(p) # "none"
  PROVE  Pick(p) \in Names /\ Meets(Pick(p), p) /\ (Pick(p) # p.preferred => Cheapest(Pick(p), p))
<1> DEFINE matched == {n \in Names : Meets(n, p)}
           first(n) == \A m \in matched :
             Catalog[n].cost < Catalog[m].cost \/ (Catalog[n].cost = Catalog[m].cost /\ Place(n) <= Place(m))
<1>1. matched # {}
  BY DEF Pick
<1>2. CASE p.preferred \in matched
  BY <1>1, <1>2 DEF Pick
<1>3. CASE p.preferred \notin matched
  <2>1. Pick(p) = CHOOSE n \in matched : first(n)
    BY <1>1, <1>3 DEF Pick
  <2>2. \E n \in matched : first(n)
    BY <1>1, OneComesFirst
  <2>3. Pick(p) \in matched /\ first(Pick(p))
    BY <2>1, <2>2
  <2>4. Cheapest(Pick(p), p)
    BY <2>3, CostsAreNumbers DEF Cheapest
  <2> QED BY <2>3, <2>4
<1> QED BY <1>2, <1>3

LEMMA ChoiceStepOK == ChoiceInv /\ [ChoiceNext]_choiceVars => ChoiceInv'
<1> SUFFICES ASSUME ChoiceInv, [ChoiceNext]_choiceVars PROVE ChoiceInv'
  OBVIOUS
<1>1. CASE Ask
  <2> DEFINE contexts == {0, 100, 150, 500}
             costs == 0..3
  <2>1. /\ policy' \in [asked : {TRUE}, vision : BOOLEAN, context : contexts, cost : costs,
                        preferred : Names \cup {"none"}]
        /\ choice' = choice /\ ~policy.asked
    BY <1>1 DEF Ask
  <2>2. contexts \subseteq Nat /\ costs \subseteq Nat /\ {TRUE} \subseteq BOOLEAN
    OBVIOUS
  <2> HIDE DEF contexts, costs
  <2>3. policy' \in PolicyOf
    BY <2>1, <2>2 DEF PolicyOf
  <2> QED BY <2>1, <2>3 DEF ChoiceInv
<1>2. CASE Select
  <2>1. choice'.name \in {Pick(policy), "none"} /\ policy' = policy /\ policy.asked
    BY <1>2 DEF Select
  <2> QED BY <2>1, PickKeepsPolicy DEF ChoiceInv
<1>3. CASE CreateProvider
  <2>1. choice'.name = choice.name /\ policy' = policy
    BY <1>3 DEF CreateProvider
  <2> QED BY <2>1 DEF ChoiceInv
<1>4. CASE ProbeProvider \/ UNCHANGED choiceVars
  BY <1>4 DEF ProbeProvider, choiceVars, ChoiceInv
<1> QED BY <1>1, <1>2, <1>3, <1>4 DEF ChoiceNext

(* Whatever a policy asks for and whatever it prefers, the provider that   *)
(* selectProvider chooses meets it, and no provider that meets it too is   *)
(* cheaper, unless the choice is the preferred one (ProviderChoice).       *)
THEOREM ChoiceKeepsThePolicy == ChoiceSpec => []ChoiceKeepsPolicy
<1>1. ChoiceInit => ChoiceInv
  BY DEF ChoiceInit, ChoiceInv, PolicyOf
<1>2. ChoiceInv => ChoiceKeepsPolicy
  BY DEF ChoiceInv, ChoiceKeepsPolicy, Cheapest
<1> QED BY <1>1, <1>2, ChoiceStepOK, PTL DEF ChoiceSpec
-----------------------------------------------------------------------------
(* Permissions: the chain is that of a mode with what the configuration    *)
(* appended; what was executed was allowed by it and what was refused was  *)
(* not; a run waits only with a question open.                             *)
Chain(chain, inReadOnly) ==
  chain = DefaultRules(inReadOnly) \/ \E r \in ConfiguredRules : chain = DefaultRules(inReadOnly) \o <<r>>

GateInv ==
  /\ readOnly \in BOOLEAN
  /\ runState # "unset" => Chain(rules, readOnly)
  /\ runState = "unset" => executed = {}
  /\ \A c \in executed : c \in ToolCallsMade /\ Decision(rules, c) = "allow"
  /\ \A c \in refused : Decision(rules, c) # "allow"
  /\ runState = "blocked" => question # {}

(* The rules a chain begins with.                                          *)
RuleShape ==
  [tool : {"write_file", "edit_file", "read_file", "run_command", "search_code", "finish_task", "run_tests",
           "run_verification", "rollback_checkpoint", "capability", "unknown", "any"},
   pattern : {"all", "domain", "dots"}, action : {"allow", "deny", "ask"}]

LEMMA ReadOnlyDefaults ==
  /\ DefaultRules(TRUE) \in Seq(RuleShape) /\ Len(DefaultRules(TRUE)) = 4
  /\ DefaultRules(TRUE)[1] = Rule("write_file", "all", "deny")
  /\ DefaultRules(TRUE)[2] = Rule("edit_file", "all", "deny")
  /\ DefaultRules(TRUE)[3] = Rule("run_command", "all", "ask")
  /\ DefaultRules(TRUE)[4] = Rule("read_file", "all", "allow")
  BY DEF DefaultRules, ReadOnlyRules, Rule, RuleShape

LEMMA OtherDefaults ==
  /\ DefaultRules(FALSE) \in Seq(RuleShape)
  /\ \A tool \in WriteTools :
       \E i \in 1..Len(DefaultRules(FALSE)) : DefaultRules(FALSE)[i] = Rule(tool, "dots", "deny")
<1> DEFINE tools == <<"read_file", "search_code", "run_command", "finish_task", "run_tests", "run_verification",
                     "rollback_checkpoint", "capability">>
           free == AllowAll(tools)
           domain == <<Rule("write_file", "domain", "allow"), Rule("edit_file", "domain", "allow")>>
           rest == <<Rule("write_file", "dots", "deny"), Rule("write_file", "all", "allow"),
                     Rule("edit_file", "dots", "deny"), Rule("edit_file", "all", "allow")>>
<1>1. DefaultRules(FALSE) = (free \o domain) \o rest
  BY DEF DefaultRules
<1>2. free \in Seq(RuleShape) /\ Len(free) = 8
  <2> DEFINE names == {"read_file", "search_code", "run_command", "finish_task", "run_tests", "run_verification",
                      "rollback_checkpoint", "capability"}
  <2>1. DOMAIN tools = 1..8 /\ \A i \in 1..8 : tools[i] \in names
    <3>1. tools \in Seq(names) /\ Len(tools) = 8
      OBVIOUS
    <3> HIDE DEF tools, names
    <3> QED BY <3>1, LenProperties, ElementOfSeq
  <2> HIDE DEF tools
  <2>2. free = [i \in 1..8 |-> Rule(tools[i], "all", "allow")]
    BY <2>1 DEF AllowAll
  <2>3. \A i \in 1..8 : Rule(tools[i], "all", "allow") \in RuleShape
    BY <2>1 DEF Rule, RuleShape
  <2> HIDE DEF free
  <2>4. free \in [1..8 -> RuleShape]
    BY <2>2, <2>3
  <2> HIDE DEF names
  <2>5. free \in Seq(RuleShape)
    BY <2>4, SeqDef
  <2> QED BY <2>4, <2>5, LenProperties
<1>3. domain \in Seq(RuleShape) /\ Len(domain) = 2
  BY DEF Rule, RuleShape
<1>4. /\ rest \in Seq(RuleShape) /\ Len(rest) = 4
      /\ rest[1] = Rule("write_file", "dots", "deny") /\ rest[3] = Rule("edit_file", "dots", "deny")
  BY DEF Rule, RuleShape
<1> HIDE DEF free, domain, rest
<1>5. free \o domain \in Seq(RuleShape) /\ Len(free \o domain) = 10
  <2>1. free \o domain \in Seq(RuleShape) /\ Len(free \o domain) = Len(free) + Len(domain)
    BY <1>2, <1>3, ConcatProperties, Zenon
  <2> QED BY <1>2, <1>3, <2>1
<1>6. /\ DefaultRules(FALSE) \in Seq(RuleShape) /\ Len(DefaultRules(FALSE)) = 14
      /\ DefaultRules(FALSE)[11] = rest[1] /\ DefaultRules(FALSE)[13] = rest[3]
  <2> DEFINE first == free \o domain
  <2>1. first \in Seq(RuleShape) /\ Len(first) = 10
    BY <1>5
  <2> HIDE DEF first
  <2>2. /\ first \o rest \in Seq(RuleShape) /\ Len(first \o rest) = Len(first) + Len(rest)
        /\ \A i \in 1..Len(first) + Len(rest) :
             (first \o rest)[i] = IF i <= Len(first) THEN first[i] ELSE rest[i - Len(first)]
    BY <1>4, <2>1, ConcatProperties, Zenon
  <2>3. DefaultRules(FALSE) = first \o rest
    BY <1>1 DEF first
  <2> DEFINE all == first \o rest
  <2>4. all \in Seq(RuleShape) /\ Len(all) = 14
    BY <1>4, <2>1, <2>2
  <2>5. \A i \in 1..14 : all[i] = IF i <= 10 THEN first[i] ELSE rest[i - 10]
    <3>1. \A i \in 1..Len(first) + Len(rest) :
            all[i] = IF i <= Len(first) THEN first[i] ELSE rest[i - Len(first)]
      BY <2>2
    <3>2. Len(first) = 10 /\ Len(rest) = 4 /\ 10 + 4 = 14
      BY <1>4, <2>1
    <3> HIDE DEF all
    <3> QED BY <3>1, <3>2
  <2> HIDE DEF all
  <2>6. all[11] = rest[1] /\ all[13] = rest[3]
    BY <2>5
  <2> QED BY <2>3, <2>4, <2>6 DEF all
<1>7. 11 \in 1..Len(DefaultRules(FALSE)) /\ 13 \in 1..Len(DefaultRules(FALSE))
  <2>1. 11 \in 1..14 /\ 13 \in 1..14
    OBVIOUS
  <2> QED BY <1>6, <2>1
<1> QED BY <1>4, <1>6, <1>7 DEF WriteTools

LEMMA DefaultsAreRules == \A b \in BOOLEAN : DefaultRules(b) \in Seq(RuleShape)
  BY ReadOnlyDefaults, OtherDefaults

(* What the configuration adds stays behind them.                          *)
LEMMA ChainBegins ==
  ASSUME NEW b \in BOOLEAN, NEW chain, Chain(chain, b)
  PROVE  /\ chain \in Seq(RuleShape)
         /\ Len(chain) >= Len(DefaultRules(b))
         /\ \A i \in 1..Len(DefaultRules(b)) : chain[i] = DefaultRules(b)[i]
<1> DEFINE own == DefaultRules(b)
<1>1. own \in Seq(RuleShape) /\ Len(own) \in Nat
  BY DefaultsAreRules, LenProperties
<1>2. CASE chain = own
  BY <1>1, <1>2
<1>3. ASSUME NEW r \in ConfiguredRules, chain = own \o <<r>>
      PROVE  chain \in Seq(RuleShape) /\ Len(chain) >= Len(own) /\ \A i \in 1..Len(own) : chain[i] = own[i]
  <2>1. r \in RuleShape
    BY DEF ConfiguredRules, RuleShape
  <2>2. <<r>> \in Seq(RuleShape) /\ Len(<<r>>) = 1
    BY <2>1
  <2> HIDE DEF own
  <2> QED BY <1>1, <1>3, <2>2, ConcatProperties
<1> QED BY <1>2, <1>3 DEF Chain

LEMMA GateStepOK == GateInv /\ [GateNext]_gateVars => GateInv'
<1> SUFFICES ASSUME GateInv, [GateNext]_gateVars PROVE GateInv'
  OBVIOUS
<1>1. CASE InitEngine
  <2>1. PICK mode \in BOOLEAN, extra \in {<<>>} \cup {<<r>> : r \in ConfiguredRules} :
          readOnly' = mode /\ rules' = DefaultRules(mode) \o extra
    BY <1>1 DEF InitEngine
  <2>2. Chain(rules', readOnly')
    <3>1. DefaultRules(mode) \in Seq(RuleShape)
      BY DefaultsAreRules
    <3>2. DefaultRules(mode) \o <<>> = DefaultRules(mode)
      BY <3>1, ConcatEmptySeq
    <3> QED BY <2>1, <3>2 DEF Chain
  <2>3. /\ readOnly' \in BOOLEAN /\ runState' = "running" /\ executed' = {} /\ refused' = {}
    BY <1>1, <2>1 DEF InitEngine
  <2> QED BY <2>2, <2>3 DEF GateInv
<1>2. ASSUME NEW call \in ToolCallsMade, ToolCall(call) PROVE GateInv'
  <2>1. /\ UNCHANGED <<rules, readOnly>> /\ runState = "running"
        /\ Execute(call) \/ Deny(call) \/ Decline(call) \/ AskHuman(call)
    BY <1>2 DEF ToolCall
  <2>2. CASE Execute(call)
    BY <2>1, <2>2 DEF Execute, GateInv
  <2>3. CASE Deny(call)
    BY <2>1, <2>3 DEF Deny, GateInv
  <2>4. CASE Decline(call)
    BY <2>1, <2>4 DEF Decline, GateInv
  <2>5. CASE AskHuman(call)
    BY <2>1, <2>5 DEF AskHuman, GateInv
  <2> QED BY <2>1, <2>2, <2>3, <2>4, <2>5
<1>3. CASE UNCHANGED gateVars
  BY <1>3 DEF gateVars, GateInv
<1> QED BY <1>1, <1>2, <1>3 DEF GateNext

(* What Decision allows.                                                   *)
LEMMA AllowedIsMatched ==
  ASSUME NEW chain, NEW call, Decision(chain, call) = "allow"
  PROVE  /\ ~IsDestructive(call) /\ Matching(chain, call) # {}
         /\ \A i \in Matching(chain, call) : chain[i].action # "deny"
         /\ chain[FirstRule(Matching(chain, call))].action = "allow"
  BY DEF Decision

LEMMA ReadOnlyAllows ==
  ASSUME NEW chain, Chain(chain, TRUE), NEW call \in ToolCallsMade, Decision(chain, call) = "allow"
  PROVE  /\ call.tool \notin WriteTools \cup {"run_command"}
         /\ \/ call.tool = "read_file"
            \/ \E i \in DOMAIN chain :
                 i > Len(ReadOnlyRules) /\ chain[i].action = "allow" /\ Applies(chain[i], call)
<1> DEFINE matching == Matching(chain, call)
<1>1. /\ chain \in Seq(RuleShape) /\ Len(chain) \in Nat /\ Len(chain) >= 4
      /\ chain[1] = Rule("write_file", "all", "deny") /\ chain[2] = Rule("edit_file", "all", "deny")
      /\ chain[3] = Rule("run_command", "all", "ask") /\ chain[4] = Rule("read_file", "all", "allow")
  <2>1. /\ chain \in Seq(RuleShape) /\ Len(chain) >= 4
        /\ \A i \in 1..4 : chain[i] = DefaultRules(TRUE)[i]
    BY ChainBegins, ReadOnlyDefaults
  <2>2. 1 \in 1..4 /\ 2 \in 1..4 /\ 3 \in 1..4 /\ 4 \in 1..4
    OBVIOUS
  <2>3. Len(chain) \in Nat
    BY <2>1, LenProperties
  <2> QED BY <2>1, <2>2, <2>3, ReadOnlyDefaults
<1>2. DOMAIN chain = 1..Len(chain) /\ \A i \in 1..4 : i \in DOMAIN chain
  BY <1>1, LenProperties
<1>3. /\ \A i \in matching : i \in DOMAIN chain /\ Applies(chain[i], call) /\ chain[i].action # "deny"
      /\ chain[FirstRule(matching)].action = "allow" /\ matching # {}
  BY AllowedIsMatched DEF Matching
<1>4. call.value # "missing" /\ call.value \in Matched["all"]
  <2>1. call.value # "missing"
    BY <1>3 DEF Applies
  <2>2. call.value \in Values \cup {"star"}
    BY DEF ToolCallsMade
  <2> QED BY <2>1, <2>2 DEF Matched
<1>5. ASSUME call.tool = "write_file" PROVE FALSE
  BY <1>1, <1>2, <1>3, <1>4, <1>5 DEF Matching, Applies, Rule
<1>6. ASSUME call.tool = "edit_file" PROVE FALSE
  BY <1>1, <1>2, <1>3, <1>4, <1>6 DEF Matching, Applies, Rule
<1>7. ASSUME call.tool = "run_command" PROVE FALSE
  <2>1. 3 \in matching
    BY <1>1, <1>2, <1>4, <1>7 DEF Matching, Applies, Rule
  <2>2. \A i \in matching : 3 <= i
    <3>1. \A i \in matching : i \in Nat /\ i >= 1 /\ i # 1 /\ i # 2
      BY <1>1, <1>2, <1>3, <1>7 DEF Applies, Rule
    <3> QED BY <3>1
  <2>3. FirstRule(matching) = 3
    <3>1. \A i \in matching : (\A j \in matching : i <= j) => i = 3
      BY <1>2, <1>3, <2>1, <2>2
    <3> QED BY <2>1, <2>2, <3>1 DEF FirstRule
  <2> QED BY <1>1, <1>3, <2>3 DEF Rule
<1> DEFINE k == FirstRule(matching)
<1>8. k \in matching
  <2>1. matching \in SUBSET Nat
    BY <1>2 DEF Matching
  <2> QED BY <1>3, <2>1, FirstAhead DEF FirstRule
<1>9. k \in DOMAIN chain /\ chain[k].action = "allow" /\ Applies(chain[k], call)
  BY <1>3, <1>8
<1>10. k > 4 \/ k = 4
  <2>1. k \in 1..Len(chain) /\ k # 1 /\ k # 2 /\ k # 3
    <3> HIDE DEF k
    <3> QED BY <1>1, <1>2, <1>9 DEF Rule
  <2> QED BY <1>1, <2>1
<1>11. k = 4 => call.tool = "read_file"
  <2> HIDE DEF k
  <2> QED BY <1>1, <1>9 DEF Applies, Rule
<1>12. Len(ReadOnlyRules) = 4
  BY DEF ReadOnlyRules
<1> QED BY <1>5, <1>6, <1>7, <1>9, <1>10, <1>11, <1>12 DEF WriteTools

LEMMA OtherAllows ==
  ASSUME NEW chain, Chain(chain, FALSE), NEW call, call.tool \in WriteTools, Decision(chain, call) = "allow"
  PROVE  call.value \notin Matched["dots"]
<1> DEFINE own == DefaultRules(FALSE)
<1>1. PICK i \in 1..Len(own) : own[i] = Rule(call.tool, "dots", "deny")
  BY OtherDefaults
<1>2. chain \in Seq(RuleShape) /\ chain[i] = Rule(call.tool, "dots", "deny") /\ Len(chain) >= Len(own)
  BY <1>1, ChainBegins
<1>3. i \in DOMAIN chain
  <2>1. Len(own) \in Nat /\ Len(chain) \in Nat /\ DOMAIN chain = 1..Len(chain)
    BY <1>2, OtherDefaults, LenProperties
  <2> HIDE DEF own
  <2> QED BY <1>2, <2>1
<1>4. ~Applies(chain[i], call)
  <2>1. chain[i].action = "deny"
    BY <1>2 DEF Rule
  <2>2. i \notin Matching(chain, call)
    BY <2>1, AllowedIsMatched
  <2> QED BY <1>3, <2>2 DEF Matching
<1>5. call.value # "missing"
  BY AllowedIsMatched DEF Matching, Applies
<1> QED BY <1>2, <1>4, <1>5 DEF Applies, Rule

(* One more deny rule at the end.                                          *)
LEMMA DenyTakesAway ==
  ASSUME NEW chain \in Seq(RuleShape), NEW r \in ConfiguredRules, r.action = "deny", NEW call
  PROVE  Decision(Append(chain, r), call) \in {"deny", Decision(chain, call)}
<1> DEFINE longer == Append(chain, r)
           n == Len(chain)
<1>1. /\ n \in Nat /\ DOMAIN chain = 1..n /\ DOMAIN longer = 1..(n + 1) /\ longer[n + 1] = r
      /\ \A i \in 1..n : longer[i] = chain[i]
  <2>1. r \in RuleShape
    BY DEF ConfiguredRules, RuleShape
  <2> QED BY <2>1, AppendProperties, LenProperties
<1> HIDE DEF longer, n
<1>2. CASE Applies(r, call)
  <2>1. n + 1 \in Matching(longer, call) /\ longer[n + 1].action = "deny"
    BY <1>1, <1>2 DEF Matching
  <2>2. Decision(longer, call) = "deny" \/ IsDestructive(call)
    BY <2>1 DEF Decision
  <2> QED BY <2>2 DEF Decision, longer
<1>3. CASE ~Applies(r, call)
  <2>1. Matching(longer, call) = Matching(chain, call)
    BY <1>1, <1>3 DEF Matching
  <2>2. \A i \in Matching(chain, call) : longer[i] = chain[i]
    BY <1>1 DEF Matching
  <2>3. Matching(chain, call) # {} => FirstRule(Matching(chain, call)) \in Matching(chain, call)
    <3>1. Matching(chain, call) \in SUBSET Nat
      BY <1>1 DEF Matching
    <3> QED BY <3>1, FirstAhead DEF FirstRule
  <2>4. Decision(longer, call) = Decision(chain, call)
    BY <2>1, <2>2, <2>3 DEF Decision
  <2> QED BY <2>4 DEF longer
<1> QED BY <1>2, <1>3

(* Whatever rule the configuration appends to those of any mode: a         *)
(* read-only run writes no file, calls no run_command and does beyond reads *)
(* only what that rule allows; nothing is written through "..", nothing    *)
(* destructive runs but by run_tests, and a deny rule only takes           *)
(* permissions away (PermissionEngine).                                    *)
THEOREM GateHolds == GateSpec => []PermissionsHold
<1>1. GateInit => GateInv
  BY DEF GateInit, GateInv
<1>2. ASSUME GateInv PROVE PermissionsHold
  <2>1. ASSUME NEW c \in executed
        PROVE  /\ readOnly =>
                    /\ c.tool \notin WriteTools \cup {"run_command"}
                    /\ \/ c.tool = "read_file"
                       \/ \E i \in DOMAIN rules :
                            i > Len(ReadOnlyRules) /\ rules[i].action = "allow" /\ Applies(rules[i], c)
               /\ c.tool \in WriteTools => c.value \notin Matched["dots"]
               /\ c.command = "destructive" => c.tool = "run_tests"
    <3>1. c \in ToolCallsMade /\ Decision(rules, c) = "allow" /\ Chain(rules, readOnly) /\ readOnly \in BOOLEAN
      BY <1>2, <2>1 DEF GateInv
    <3>2. c.command = "destructive" => c.tool = "run_tests"
      BY <3>1, AllowedIsMatched DEF ToolCallsMade, CommandsOf, IsDestructive
    <3>3. CASE readOnly = TRUE
      <4>1. c.tool \notin WriteTools
        BY <3>1, <3>3, ReadOnlyAllows
      <4> QED BY <3>1, <3>2, <3>3, <4>1, ReadOnlyAllows
    <3>4. CASE readOnly = FALSE
      BY <3>1, <3>2, <3>4, OtherAllows
    <3> QED BY <3>1, <3>3, <3>4
  <2>2. executed \cap refused = {} /\ (runState = "blocked" => question # {})
    BY <1>2 DEF GateInv
  <2>3. ASSUME runState = "running", NEW r \in {r \in ConfiguredRules : r.action = "deny"}, NEW c \in ToolCallsMade
        PROVE  Decision(Append(rules, r), c) \in {"deny", Decision(rules, c)}
    <3>1. rules \in Seq(RuleShape)
      BY <1>2, <2>3, ChainBegins DEF GateInv
    <3> QED BY <2>3, <3>1, DenyTakesAway
  <2> QED BY <2>1, <2>2, <2>3 DEF PermissionsHold
<1> QED BY <1>1, <1>2, GateStepOK, PTL DEF GateSpec
-----------------------------------------------------------------------------
(* The session: its flag and its loops; its settings and what is written   *)
(* of them in the directory it starts from; its task.                      *)
SessionShapes ==
  /\ loops = [i \in LoopIds |-> loops[i]]
  /\ taskStatus = [t \in SessionTasks |-> taskStatus[t]]
  /\ configs = [d \in Dirs |-> configs[d]]
  /\ memory = [provider |-> memory.provider, mode |-> memory.mode]

RunIsFlagged ==
  /\ \A i, j \in Fresh : i = j
  /\ running \in BOOLEAN /\ (running <=> Fresh # {})
  /\ up # "repl" => ~running
  /\ \A i \in Fresh : loops[i].with = memory /\ loops[i].task \in SessionTasks /\ taskStatus[loops[i].task] # "absent"

WritesAreOwned ==
  /\ \A w \in writes :
       /\ w.dir \in Dirs
       /\ w.by = "launch" => up = "starting" /\ w.dir = StateDir
       /\ w.by = "wizard" => up \in {"wizard", "stuck"} /\ w.dir = "here"
       /\ w.by = "session" => up # "off"
       /\ w.by \in {"launch", "wizard", "session", "cli"}
  /\ \A v, w \in writes : v.dir = w.dir => v = w
  /\ envDir = "unset" => up = "off" /\ writes = {}

SettingsAreSaved ==
  (up # "off" /\ ~drifted) =>
    /\ \A w \in writes :
         w.dir = StateDir /\ w.by \in {"launch", "session"} => w.what.provider = memory.provider
    /\ (\A w \in writes : w.dir # StateDir) /\ configs[StateDir] # TornConfig
         => configs[StateDir].provider = memory.provider

SessionInv ==
  /\ SessionShapes /\ RunIsFlagged /\ WritesAreOwned /\ SettingsAreSaved
  /\ reported.outcome = "shown" => reported.about # NoSessionTask
  /\ activeTask # NoSessionTask => activeTask \in SessionTasks /\ taskStatus[activeTask] # "absent"

LEMMA SessionInitOK == SessionInit => SessionInv
<1> SUFFICES ASSUME SessionInit PROVE SessionInv
  OBVIOUS
<1>1. /\ memory = NoConfig /\ up = "off" /\ writes = {} /\ running = FALSE /\ activeTask = NoSessionTask
      /\ reported.outcome = "none" /\ loops = [i \in LoopIds |-> NoLoop]
      /\ configs = [d \in Dirs |-> NoConfig] /\ taskStatus = [t \in SessionTasks |-> "absent"]
  BY DEF SessionInit, NoReport
<1>2. SessionShapes
  BY <1>1 DEF SessionShapes, NoConfig
<1>3. Fresh = {}
  BY <1>1 DEF Fresh, NoLoop
<1> QED BY <1>1, <1>2, <1>3 DEF SessionInv, RunIsFlagged, WritesAreOwned, SettingsAreSaved

(* What a step has to leave of the loops, of the settings and of the task. *)
LEMMA LoopsUntouched ==
  ASSUME SessionInv, UNCHANGED <<loops, running, memory>>, up' = "repl" \/ up' = up \/ ~running,
         \A t \in SessionTasks : taskStatus[t] # "absent" => taskStatus'[t] # "absent"
  PROVE  RunIsFlagged'
<1>1. Fresh' = Fresh
  BY DEF Fresh
<1>2. UNCHANGED <<loops, running, memory>> /\ (up' # "repl" => ~running)
  BY DEF SessionInv, RunIsFlagged
<1> QED BY <1>1, <1>2 DEF SessionInv, RunIsFlagged

LEMMA SettingsUntouched ==
  ASSUME SessionInv, UNCHANGED <<envDir, writes, configs, up, memory, drifted>>
  PROVE  WritesAreOwned' /\ SettingsAreSaved'
<1>1. StateDir' = StateDir
  BY DEF StateDir
<1> QED BY <1>1 DEF SessionInv, WritesAreOwned, SettingsAreSaved

LEMMA TaskUntouched ==
  ASSUME SessionInv, UNCHANGED <<activeTask, reported>>,
         \A t \in SessionTasks : taskStatus[t] # "absent" => taskStatus'[t] # "absent"
  PROVE  /\ (reported.outcome = "shown" => reported.about # NoSessionTask)'
         /\ (activeTask # NoSessionTask => activeTask \in SessionTasks /\ taskStatus[activeTask] # "absent")'
  BY DEF SessionInv

(* A write begins on a directory nobody writes; one ends.                  *)
LEMMA WriteBegins ==
  ASSUME SessionInv, NEW d \in Dirs, NEW c, NEW by \in {"launch", "wizard", "session", "cli"},
         BeginsWrite(d, c, by), envDir' = envDir, envDir # "unset",
         by = "launch" => up' = "starting" /\ d = StateDir,
         by = "wizard" => up' \in {"wizard", "stuck"} /\ d = "here",
         by = "session" => up' # "off",
         \A w \in writes : /\ w.by = "launch" => up' = "starting"
                           /\ w.by = "wizard" => up' \in {"wizard", "stuck"}
                           /\ w.by = "session" => up' # "off"
  PROVE  /\ WritesAreOwned' /\ configs' = [e \in Dirs |-> configs'[e]] /\ StateDir' = StateDir
         /\ \A w \in writes' : w \in writes \/ (w.dir = d /\ w.what = c /\ w.by = by)
         /\ writes \subseteq writes' /\ \E w \in writes' : w.dir = d
         /\ \A w \in writes : w.dir # d
         /\ \A e \in Dirs : e # d => configs'[e] = configs[e]
<1> DEFINE new == [dir |-> d, what |-> c, by |-> by]
<1>1. writes' = writes \cup {new} /\ configs' = [configs EXCEPT ![d] = TornConfig] /\ \A w \in writes : w.dir # d
  BY DEF BeginsWrite
<1>2. configs = [e \in Dirs |-> configs[e]]
  BY DEF SessionInv, SessionShapes
<1>3. configs' = [e \in Dirs |-> configs'[e]] /\ \A e \in Dirs : e # d => configs'[e] = configs[e]
  BY <1>1, <1>2
<1>4. new.dir = d /\ new.by = by /\ new.what = c
  OBVIOUS
<1> HIDE DEF new
<1>5. WritesAreOwned'
  <2>1. StateDir' = StateDir
    BY DEF StateDir
  <2> QED BY <1>1, <1>4, <2>1 DEF SessionInv, WritesAreOwned
<1> QED BY <1>1, <1>3, <1>4, <1>5 DEF StateDir

LEMMA DirsAreTwo == StateDir \in Dirs /\ "here" \in Dirs
  BY DEF StateDir, Dirs

LEMMA LaunchStep ==
  ASSUME SessionInv, Launch PROVE SessionInv'
<1>1. /\ up = "off" /\ envDir' = envDir /\ envDir # "unset" /\ drifted' = FALSE
      /\ UNCHANGED <<running, activeTask, board, loops, taskStatus, reported>>
      /\ LoadsOrResets("launch")
  BY DEF Launch, Input
<1>2. Fresh = {} /\ Fresh' = {} /\ ~running
  <2>1. Fresh = {} /\ ~running
    BY <1>1 DEF SessionInv, RunIsFlagged
  <2> QED BY <1>1, <2>1 DEF Fresh
<1>3. RunIsFlagged'
  BY <1>1, <1>2 DEF SessionInv, RunIsFlagged
<1>4. \A w \in writes : w.by = "cli"
  BY <1>1 DEF SessionInv, WritesAreOwned
<1>5. CASE Loaded \in Settings
  <2>1. memory' = configs[StateDir] /\ memory' \in Settings /\ up' = "repl" /\ UNCHANGED <<writes, configs>>
    BY <1>1, <1>5 DEF Launch, LoadsOrResets, WritesNothing, Loaded
  <2>2. SessionShapes'
    BY <1>1, <2>1 DEF SessionInv, SessionShapes, Settings
  <2>3. WritesAreOwned'
    BY <1>1, <1>4, <2>1 DEF SessionInv, WritesAreOwned
  <2>4. StateDir' = StateDir
    BY <1>1 DEF StateDir
  <2>5. SettingsAreSaved'
    BY <1>4, <2>1, <2>4 DEF SettingsAreSaved
  <2> QED BY <1>1, <1>3, <2>2, <2>3, <2>5 DEF SessionInv
<1>6. CASE Loaded \notin Settings
  <2>1. BeginsWrite(StateDir, DefaultConfig, "launch") /\ up' = "starting" /\ memory' = DefaultConfig
    BY <1>1, <1>6 DEF Launch, LoadsOrResets
  <2>2. /\ WritesAreOwned' /\ configs' = [e \in Dirs |-> configs'[e]] /\ StateDir' = StateDir
        /\ \A w \in writes' : w \in writes \/ (w.dir = StateDir /\ w.what = DefaultConfig /\ w.by = "launch")
        /\ writes \subseteq writes' /\ \E w \in writes' : w.dir = StateDir
    BY <1>1, <1>4, <2>1, WriteBegins, DirsAreTwo
  <2>3. SessionShapes'
    BY <1>1, <2>1, <2>2 DEF SessionInv, SessionShapes, DefaultConfig
  <2>4. SettingsAreSaved'
    BY <1>4, <2>1, <2>2 DEF SettingsAreSaved
  <2> QED BY <1>1, <1>3, <2>2, <2>3, <2>4 DEF SessionInv
<1> QED BY <1>5, <1>6

LEMMA CmdSetStep ==
  ASSUME SessionInv, NEW c \in Settings, CmdSet(c) PROVE SessionInv'
<1>1. /\ up = "repl" /\ up' = up /\ ~running /\ envDir' = envDir /\ envDir # "unset" /\ memory' = c
      /\ UNCHANGED <<running, activeTask, board, loops, taskStatus, reported>>
      /\ PersistConfig(memory')
  BY DEF CmdSet, Enter, Input
<1>2. RunIsFlagged'
  <2>1. Fresh = {} /\ Fresh' = Fresh
    BY <1>1 DEF SessionInv, RunIsFlagged, Fresh
  <2> QED BY <1>1, <2>1 DEF SessionInv, RunIsFlagged
<1>3. c = [provider |-> c.provider, mode |-> c.mode]
  BY DEF Settings
<1>4. CASE BeginsWrite(StateDir, c, "session") /\ drifted' = FALSE
  <2>1. /\ WritesAreOwned' /\ configs' = [e \in Dirs |-> configs'[e]] /\ StateDir' = StateDir
        /\ \A w \in writes' : w \in writes \/ (w.dir = StateDir /\ w.what = c /\ w.by = "session")
        /\ writes \subseteq writes' /\ \E w \in writes' : w.dir = StateDir
        /\ \A w \in writes : w.dir # StateDir
    <3>1. \A w \in writes : /\ w.by = "launch" => up' = "starting"
                            /\ w.by = "wizard" => up' \in {"wizard", "stuck"}
                            /\ w.by = "session" => up' # "off"
      BY <1>1 DEF SessionInv, WritesAreOwned
    <3> QED BY <1>1, <1>4, <3>1, WriteBegins, DirsAreTwo
  <2>2. SettingsAreSaved'
    BY <1>1, <2>1 DEF SettingsAreSaved
  <2>3. SessionShapes'
    BY <1>1, <1>3, <2>1 DEF SessionInv, SessionShapes
  <2> QED BY <1>1, <1>2, <2>1, <2>2, <2>3 DEF SessionInv
<1>5. CASE WritesNothing /\ drifted' = TRUE
  <2>1. UNCHANGED <<writes, configs>> /\ drifted'
    BY <1>5 DEF WritesNothing
  <2>2. WritesAreOwned' /\ SettingsAreSaved'
    BY <1>1, <2>1 DEF SessionInv, WritesAreOwned, SettingsAreSaved
  <2>3. SessionShapes'
    BY <1>1, <1>3, <2>1 DEF SessionInv, SessionShapes
  <2> QED BY <1>1, <1>2, <2>2, <2>3 DEF SessionInv
<1> QED BY <1>1, <1>4, <1>5 DEF PersistConfig

LEMMA CmdInitStep ==
  ASSUME SessionInv, CmdInit PROVE SessionInv'
<1>1. /\ up = "repl" /\ up' = up /\ envDir' = envDir /\ envDir # "unset"
      /\ UNCHANGED <<memory, running, activeTask, board, loops, taskStatus, reported>>
  BY DEF CmdInit, Enter, Input
<1>2. RunIsFlagged'
  BY <1>1, LoopsUntouched
<1>3. CASE BeginsWrite("here", memory, "session") /\ drifted' = (drifted /\ StateDir # "here")
  <2>1. /\ WritesAreOwned' /\ configs' = [e \in Dirs |-> configs'[e]] /\ StateDir' = StateDir
        /\ \A w \in writes' : w \in writes \/ (w.dir = "here" /\ w.what = memory /\ w.by = "session")
        /\ writes \subseteq writes' /\ \E w \in writes' : w.dir = "here"
        /\ \A w \in writes : w.dir # "here"
        /\ \A e \in Dirs : e # "here" => configs'[e] = configs[e]
    <3>1. \A w \in writes : /\ w.by = "launch" => up' = "starting"
                            /\ w.by = "wizard" => up' \in {"wizard", "stuck"}
                            /\ w.by = "session" => up' # "off"
      BY <1>1 DEF SessionInv, WritesAreOwned
    <3> QED BY <1>1, <1>3, <3>1, WriteBegins, DirsAreTwo
  <2>2. SettingsAreSaved'
    <3>1. CASE StateDir = "here"
      BY <1>1, <2>1, <3>1 DEF SettingsAreSaved
    <3>2. CASE StateDir # "here"
      BY <1>1, <1>3, <2>1, <3>2, DirsAreTwo DEF SessionInv, SettingsAreSaved
    <3> QED BY <3>1, <3>2
  <2>3. SessionShapes'
    BY <1>1, <2>1 DEF SessionInv, SessionShapes
  <2> QED BY <1>1, <1>2, <2>1, <2>2, <2>3 DEF SessionInv
<1>4. CASE WritesNothing /\ UNCHANGED drifted
  <2>1. UNCHANGED <<writes, configs, drifted>>
    BY <1>4 DEF WritesNothing
  <2>2. WritesAreOwned' /\ SettingsAreSaved'
    BY <1>1, <2>1, SettingsUntouched
  <2>3. SessionShapes'
    BY <1>1, <2>1 DEF SessionInv, SessionShapes
  <2> QED BY <1>1, <1>2, <2>2, <2>3 DEF SessionInv
<1> QED BY <1>3, <1>4 DEF CmdInit

(* The commands that write nothing and start nothing.                      *)
LEMMA ScreenStep ==
  ASSUME SessionInv, CmdSetup \/ WizardCancels \/ CmdDashboard
  PROVE  SessionInv'
<1>1. /\ UNCHANGED <<envDir, writes, configs, memory, running, activeTask, loops, taskStatus, reported, drifted>>
      /\ up # "off" /\ up' # "off" /\ ~running
  <2>1. up # "repl" => ~running
    BY DEF SessionInv, RunIsFlagged
  <2> QED BY <2>1 DEF CmdSetup, WizardCancels, CmdDashboard, Enter, Input, WritesNothing
<1>2. RunIsFlagged'
  BY <1>1, LoopsUntouched
<1>3. WritesAreOwned'
  BY <1>1 DEF SessionInv, WritesAreOwned, CmdSetup, WizardCancels, CmdDashboard, Enter
<1>4. SettingsAreSaved'
  <2>1. StateDir' = StateDir
    BY <1>1 DEF StateDir
  <2> QED BY <1>1, <2>1 DEF SessionInv, SettingsAreSaved
<1>5. SessionShapes'
  BY <1>1 DEF SessionInv, SessionShapes
<1> QED BY <1>1, <1>2, <1>3, <1>4, <1>5 DEF SessionInv

LEMMA WizardSavesStep ==
  ASSUME SessionInv, NEW p, WizardSaves(p) PROVE SessionInv'
<1>1. /\ up = "wizard" /\ envDir' = envDir /\ envDir # "unset" /\ ~running
      /\ UNCHANGED <<memory, running, activeTask, board, loops, taskStatus, reported, drifted>>
  BY DEF WizardSaves, Input, SessionInv, RunIsFlagged
<1>2. RunIsFlagged'
  BY <1>1, LoopsUntouched
<1> DEFINE saved == [provider |-> p, mode |-> "implement"]
<1>3. CASE BeginsWrite("here", saved, "wizard") /\ UNCHANGED up
  <2> HIDE DEF saved
  <2>1. /\ WritesAreOwned' /\ configs' = [e \in Dirs |-> configs'[e]] /\ StateDir' = StateDir
        /\ \A w \in writes' : w \in writes \/ (w.dir = "here" /\ w.what = saved /\ w.by = "wizard")
        /\ writes \subseteq writes' /\ \E w \in writes' : w.dir = "here"
        /\ \A w \in writes : w.dir # "here"
        /\ \A e \in Dirs : e # "here" => configs'[e] = configs[e]
    <3>1. \A w \in writes : /\ w.by = "launch" => up' = "starting"
                            /\ w.by = "wizard" => up' \in {"wizard", "stuck"}
                            /\ w.by = "session" => up' # "off"
      BY <1>1, <1>3 DEF SessionInv, WritesAreOwned
    <3> QED BY <1>1, <1>3, <3>1, WriteBegins, DirsAreTwo
  <2>2. SettingsAreSaved'
    <3>1. CASE StateDir = "here"
      BY <1>1, <1>3, <2>1, <3>1 DEF SessionInv, SettingsAreSaved
    <3>2. CASE StateDir # "here"
      BY <1>1, <1>3, <2>1, <3>2, DirsAreTwo DEF SessionInv, SettingsAreSaved
    <3> QED BY <3>1, <3>2
  <2>3. SessionShapes'
    BY <1>1, <2>1 DEF SessionInv, SessionShapes
  <2> QED BY <1>1, <1>2, <2>1, <2>2, <2>3 DEF SessionInv
<1>4. CASE up' = "stuck" /\ WritesNothing
  <2>1. UNCHANGED <<writes, configs>> /\ StateDir' = StateDir
    BY <1>1, <1>4 DEF WritesNothing, StateDir
  <2>2. WritesAreOwned'
    BY <1>1, <1>4, <2>1 DEF SessionInv, WritesAreOwned
  <2>3. SettingsAreSaved'
    BY <1>1, <1>4, <2>1 DEF SessionInv, SettingsAreSaved
  <2>4. SessionShapes'
    BY <1>1, <2>1 DEF SessionInv, SessionShapes
  <2> QED BY <1>1, <1>2, <2>2, <2>3, <2>4 DEF SessionInv
<1> QED BY <1>3, <1>4 DEF WizardSaves

LEMMA EndsWriteStep ==
  ASSUME SessionInv, NEW w \in writes, EndsWrite(w) PROVE SessionInv'
<1>1. /\ writes' = writes \ {w} /\ configs' = [configs EXCEPT ![w.dir] = w.what]
      /\ UNCHANGED <<envDir, running, activeTask, board, loops, taskStatus, reported, inputs>>
      /\ w.by \in {"launch", "wizard"} => up' = "repl"
      /\ w.by \notin {"launch", "wizard"} => up' = up
      /\ w.by = "wizard" => memory' = [memory EXCEPT !.provider = w.what.provider] /\ drifted' = (w.dir # StateDir)
      /\ w.by # "wizard" => memory' = memory
      /\ w.by = "cli" => drifted' = TRUE
      /\ w.by \in {"launch", "session"} => drifted' = drifted
  BY DEF EndsWrite
<1>2. /\ w.dir \in Dirs /\ w.by \in {"launch", "wizard", "session", "cli"}
      /\ w.by = "launch" => up = "starting"
      /\ w.by = "wizard" => up \in {"wizard", "stuck"}
      /\ \A v \in writes' : v \in writes /\ v.dir # w.dir
  BY <1>1 DEF SessionInv, WritesAreOwned
<1>3. /\ configs' = [e \in Dirs |-> configs'[e]] /\ configs'[w.dir] = w.what
      /\ \A e \in Dirs : e # w.dir => configs'[e] = configs[e]
  <2>1. configs = [e \in Dirs |-> configs[e]]
    BY DEF SessionInv, SessionShapes
  <2> QED BY <1>1, <1>2, <2>1
<1>4. memory' = [provider |-> memory'.provider, mode |-> memory'.mode]
      /\ (w.by = "wizard" => memory'.provider = w.what.provider)
  <2>1. memory = [provider |-> memory.provider, mode |-> memory.mode]
    BY DEF SessionInv, SessionShapes
  <2>2. CASE w.by = "wizard"
    <3> DEFINE p == w.what.provider
               m == memory.mode
               q == memory.provider
    <3>1. memory' = [memory EXCEPT !.provider = p] /\ memory = [provider |-> q, mode |-> m]
      BY <1>1, <2>1, <2>2
    <3> HIDE DEF p, m, q
    <3>2. memory' = [provider |-> p, mode |-> m]
      BY <3>1
    <3>3. memory' = [provider |-> memory'.provider, mode |-> memory'.mode] /\ memory'.provider = p
      BY <3>2
    <3> QED BY <3>3 DEF p
  <2> QED BY <1>1, <2>1, <2>2
<1>5. RunIsFlagged'
  <2>1. CASE w.by \in {"launch", "wizard"}
    <3>1. ~running /\ Fresh = {} /\ Fresh' = Fresh
      BY <1>1, <1>2, <2>1 DEF SessionInv, RunIsFlagged, Fresh
    <3> QED BY <1>1, <3>1 DEF SessionInv, RunIsFlagged
  <2>2. CASE w.by \notin {"launch", "wizard"}
    BY <1>1, <2>2, LoopsUntouched
  <2> QED BY <2>1, <2>2
<1>6. WritesAreOwned'
  <2>1. w.by \in {"launch", "wizard"} => \A v \in writes' : v.by \notin {"launch", "wizard"}
    BY <1>2 DEF SessionInv, WritesAreOwned
  <2>2. StateDir' = StateDir /\ (envDir # "unset" <=> envDir' # "unset")
    BY <1>1 DEF StateDir
  <2>3. CASE w.by \in {"launch", "wizard"}
    BY <1>1, <1>2, <2>1, <2>2, <2>3 DEF SessionInv, WritesAreOwned
  <2>4. CASE w.by \notin {"launch", "wizard"}
    BY <1>1, <1>2, <2>2, <2>4 DEF SessionInv, WritesAreOwned
  <2> QED BY <2>3, <2>4
<1>7. SettingsAreSaved'
  <2>1. StateDir' = StateDir
    BY <1>1 DEF StateDir
  <2>2. SUFFICES ASSUME up' # "off", ~drifted' PROVE
          /\ \A v \in writes' :
               v.dir = StateDir /\ v.by \in {"launch", "session"} => v.what.provider = memory'.provider
          /\ (\A v \in writes' : v.dir # StateDir) /\ configs'[StateDir] # TornConfig
               => configs'[StateDir].provider = memory'.provider
    BY <2>1 DEF SettingsAreSaved
  <2>3. CASE w.by = "wizard"
    <3>1. w.dir = StateDir
      BY <1>1, <2>2, <2>3
    <3> QED BY <1>2, <1>3, <1>4, <2>3, <3>1
  <2>4. CASE w.by \in {"launch", "session"}
    <3>1. /\ up # "off" /\ ~drifted /\ memory' = memory
          /\ \A v \in writes : v.dir = StateDir /\ v.by \in {"launch", "session"} => v.what.provider = memory.provider
          /\ (\A v \in writes : v.dir # StateDir) /\ configs[StateDir] # TornConfig
               => configs[StateDir].provider = memory.provider
      BY <1>1, <2>2, <2>4 DEF SessionInv, SettingsAreSaved, WritesAreOwned
    <3>2. CASE w.dir = StateDir
      BY <1>2, <1>3, <2>4, <3>1, <3>2
    <3>3. CASE w.dir # StateDir
      <4>1. configs'[StateDir] = configs[StateDir] /\ \A v \in writes : v = w \/ v \in writes'
        BY <1>1, <1>3, <3>3, DirsAreTwo
      <4> QED BY <1>2, <3>1, <3>3, <4>1
    <3> QED BY <3>2, <3>3
  <2>5. w.by # "cli"
    BY <1>1, <2>2
  <2> QED BY <1>2, <2>3, <2>4, <2>5
<1>8. SessionShapes'
  BY <1>1, <1>3, <1>4 DEF SessionInv, SessionShapes
<1> QED BY <1>1, <1>5, <1>6, <1>7, <1>8 DEF SessionInv

(* Loops begin and end.                                                    *)
LEMMA LoopBegins ==
  ASSUME SessionInv, NEW kind, NEW t \in SessionTasks, NEW c, StartsLoop(kind, t, c)
  PROVE  \E i \in LoopIds :
           /\ i \notin Fresh /\ loops'[i] = [kind |-> kind, task |-> t, with |-> c]
           /\ loops' = [j \in LoopIds |-> loops'[j]]
           /\ \A j \in LoopIds : j # i => loops'[j] = loops[j]
           /\ Fresh' = IF kind = "run" THEN Fresh \cup {i} ELSE Fresh
<1>1. PICK i \in LoopIds : loops[i] = NoLoop /\ loops' = [loops EXCEPT ![i] = [kind |-> kind, task |-> t, with |-> c]]
  BY DEF StartsLoop
<1> DEFINE new == [kind |-> kind, task |-> t, with |-> c]
<1>2. new.kind = kind /\ loops' = [loops EXCEPT ![i] = new]
  BY <1>1
<1> HIDE DEF new
<1>3. loops = [j \in LoopIds |-> loops[j]]
  BY DEF SessionInv, SessionShapes
<1>4. /\ loops' = [j \in LoopIds |-> loops'[j]] /\ loops'[i] = new
      /\ \A j \in LoopIds : j # i => loops'[j] = loops[j]
  BY <1>2, <1>3
<1>5. i \notin Fresh
  BY <1>1 DEF Fresh, NoLoop
<1>6. Fresh' = IF kind = "run" THEN Fresh \cup {i} ELSE Fresh
  BY <1>2, <1>4, <1>5 DEF Fresh
<1> QED BY <1>4, <1>5, <1>6 DEF new

LEMMA RunTaskStep ==
  ASSUME SessionInv, NEW t \in SessionTasks, RunTask(t) PROVE SessionInv'
<1>1. /\ up = "repl" /\ up' = up /\ ~running /\ running' = TRUE /\ envDir' = envDir
      /\ StartsLoop("run", t, memory) /\ taskStatus' = [taskStatus EXCEPT ![t] = "working"]
      /\ UNCHANGED <<writes, configs, memory, activeTask, board, reported, drifted>>
  BY DEF RunTask, Enter, Input, WritesNothing
<1>2. taskStatus = [u \in SessionTasks |-> taskStatus[u]] /\ Fresh = {}
  BY <1>1 DEF SessionInv, SessionShapes, RunIsFlagged
<1>3. /\ taskStatus' = [u \in SessionTasks |-> taskStatus'[u]] /\ taskStatus'[t] = "working"
      /\ \A u \in SessionTasks : taskStatus[u] # "absent" => taskStatus'[u] # "absent"
  BY <1>1, <1>2
<1>4. PICK i \in LoopIds :
        /\ loops'[i] = [kind |-> "run", task |-> t, with |-> memory]
        /\ loops' = [j \in LoopIds |-> loops'[j]] /\ Fresh' = {i}
  BY <1>1, <1>2, LoopBegins
<1>5. loops'[i].task = t /\ loops'[i].with = memory'
  BY <1>1, <1>4
<1>6. RunIsFlagged'
  BY <1>1, <1>3, <1>4, <1>5 DEF RunIsFlagged
<1>7. SessionShapes'
  BY <1>1, <1>3, <1>4 DEF SessionInv, SessionShapes
<1> QED BY <1>1, <1>3, <1>6, <1>7, SettingsUntouched, TaskUntouched DEF SessionInv

(* A loop that is not typed into the session.                              *)
LEMMA OtherLoopBegins ==
  ASSUME SessionInv, NEW kind, kind # "run", NEW t \in SessionTasks, NEW c, StartsLoop(kind, t, c),
         UNCHANGED <<running, memory, up>>,
         \A u \in SessionTasks : taskStatus[u] # "absent" => taskStatus'[u] # "absent"
  PROVE  RunIsFlagged' /\ loops' = [j \in LoopIds |-> loops'[j]]
<1>1. PICK i \in LoopIds :
        /\ i \notin Fresh /\ loops' = [j \in LoopIds |-> loops'[j]]
        /\ \A j \in LoopIds : j # i => loops'[j] = loops[j]
        /\ Fresh' = Fresh
  BY LoopBegins
<1>2. \A j \in Fresh : loops'[j] = loops[j]
  BY <1>1 DEF Fresh
<1> QED BY <1>1, <1>2 DEF SessionInv, RunIsFlagged

LEMMA CmdResumeStep ==
  ASSUME SessionInv, NEW t \in SessionTasks, CmdResume(t) PROVE SessionInv'
<1>1. /\ UNCHANGED <<up, running, envDir, writes, configs, memory, activeTask, board, reported, drifted>>
      /\ StartsLoop("resume", t, memory)
      /\ taskStatus' = IF taskStatus[t] = "absent" THEN taskStatus ELSE [taskStatus EXCEPT ![t] = "pending"]
  BY DEF CmdResume, Enter, Input, WritesNothing
<1>2. taskStatus = [u \in SessionTasks |-> taskStatus[u]]
  BY DEF SessionInv, SessionShapes
<1>3. /\ taskStatus' = [u \in SessionTasks |-> taskStatus'[u]]
      /\ \A u \in SessionTasks : taskStatus[u] # "absent" => taskStatus'[u] # "absent"
  BY <1>1, <1>2
<1>4. RunIsFlagged' /\ loops' = [j \in LoopIds |-> loops'[j]]
  BY <1>1, <1>3, OtherLoopBegins
<1>5. SessionShapes'
  BY <1>1, <1>3, <1>4 DEF SessionInv, SessionShapes
<1> QED BY <1>1, <1>3, <1>4, <1>5, SettingsUntouched, TaskUntouched DEF SessionInv

LEMMA LoopEndsStep ==
  ASSUME SessionInv, NEW i \in LoopIds, LoopEnds(i) PROVE SessionInv'
<1>1. PICK s \in {"completed", "failed", "blocked", "paused", "thrown"} :
        /\ taskStatus' = IF s = "thrown" \/ taskStatus[loops[i].task] = "absent" THEN taskStatus
                         ELSE [taskStatus EXCEPT ![loops[i].task] = s]
        /\ activeTask' = IF loops[i].kind = "run" /\ s \in {"blocked", "paused"} THEN loops[i].task ELSE activeTask
  BY DEF LoopEnds
<1>2. /\ running' = (IF loops[i].kind = "run" THEN FALSE ELSE running) /\ loops' = [loops EXCEPT ![i] = NoLoop]
      /\ UNCHANGED <<envDir, configs, writes, up, memory, board, reported, drifted, inputs>>
  BY DEF LoopEnds
<1>3. taskStatus = [u \in SessionTasks |-> taskStatus[u]] /\ loops = [j \in LoopIds |-> loops[j]]
  BY DEF SessionInv, SessionShapes
<1>4. /\ taskStatus' = [u \in SessionTasks |-> taskStatus'[u]]
      /\ \A u \in SessionTasks : taskStatus[u] # "absent" => taskStatus'[u] # "absent"
  BY <1>1, <1>3
<1>5. /\ loops' = [j \in LoopIds |-> loops'[j]] /\ loops'[i] = NoLoop
      /\ \A j \in LoopIds : j # i => loops'[j] = loops[j]
  BY <1>2, <1>3
<1>6. Fresh' = Fresh \ {i} /\ (i \in Fresh <=> loops[i].kind = "run")
  BY <1>5 DEF Fresh, NoLoop
<1>7. RunIsFlagged'
  <2>1. \A j \in Fresh' : j \in Fresh /\ loops'[j] = loops[j]
    BY <1>5, <1>6 DEF Fresh
  <2>2. running' \in BOOLEAN /\ (running' <=> Fresh' # {}) /\ (up' # "repl" => ~running')
    <3>1. CASE i \in Fresh
      BY <1>2, <1>6, <3>1 DEF SessionInv, RunIsFlagged
    <3>2. CASE i \notin Fresh
      BY <1>2, <1>6, <3>2 DEF SessionInv, RunIsFlagged
    <3> QED BY <3>1, <3>2
  <2> QED BY <1>2, <1>4, <2>1, <2>2 DEF SessionInv, RunIsFlagged
<1>8. activeTask' # NoSessionTask => activeTask' \in SessionTasks /\ taskStatus'[activeTask'] # "absent"
  <2>1. CASE activeTask' = activeTask
    BY <1>4, <2>1 DEF SessionInv
  <2>2. CASE loops[i].kind = "run" /\ activeTask' = loops[i].task
    <3>1. loops[i].task \in SessionTasks /\ taskStatus[loops[i].task] # "absent"
      BY <1>6, <2>2 DEF SessionInv, RunIsFlagged
    <3> QED BY <1>4, <2>2, <3>1
  <2> QED BY <1>1, <2>1, <2>2
<1>9. SessionShapes'
  BY <1>2, <1>4, <1>5 DEF SessionInv, SessionShapes
<1> QED BY <1>2, <1>7, <1>8, <1>9, SettingsUntouched DEF SessionInv

LEMMA QuitStep ==
  ASSUME SessionInv, Quit PROVE SessionInv'
<1>1. /\ up' = "off" /\ running' = FALSE /\ activeTask' = NoSessionTask /\ envDir' = envDir
      /\ loops' = [i \in LoopIds |-> IF loops[i].kind = "cli" THEN loops[i] ELSE NoLoop]
      /\ writes' = {w \in writes : w.by = "cli"}
      /\ UNCHANGED <<configs, memory, taskStatus, reported, drifted>>
  BY DEF Quit, Input
<1>2. Fresh' = {}
  BY <1>1 DEF Fresh, NoLoop
<1>3. RunIsFlagged'
  BY <1>1, <1>2 DEF RunIsFlagged
<1>4. StateDir' = StateDir
  BY <1>1 DEF StateDir
<1>5. WritesAreOwned' /\ SettingsAreSaved'
  BY <1>1, <1>4 DEF SessionInv, WritesAreOwned, SettingsAreSaved
<1>6. SessionShapes'
  BY <1>1 DEF SessionInv, SessionShapes
<1> QED BY <1>1, <1>3, <1>5, <1>6 DEF SessionInv

LEMMA CliLoopStep ==
  ASSUME SessionInv, NEW t \in SessionTasks, NEW p, CliLoop(t, p) PROVE SessionInv'
<1>1. /\ envDir' = envDir /\ envDir # "unset" /\ LoadsOrResets("cli")
      /\ UNCHANGED <<up, memory, running, activeTask, board, reported, drifted>>
  BY DEF CliLoop, Input
<1>2. /\ \/ UNCHANGED <<loops, taskStatus>>
         \/ /\ \E c : StartsLoop("cli", t, c)
            /\ taskStatus' = IF taskStatus[t] = "absent" THEN [taskStatus EXCEPT ![t] = "working"] ELSE taskStatus
  BY DEF CliLoop
<1>3. taskStatus = [u \in SessionTasks |-> taskStatus[u]] /\ loops = [j \in LoopIds |-> loops[j]]
  BY DEF SessionInv, SessionShapes
<1>4. /\ taskStatus' = [u \in SessionTasks |-> taskStatus'[u]]
      /\ \A u \in SessionTasks : taskStatus[u] # "absent" => taskStatus'[u] # "absent"
  BY <1>2, <1>3
<1>5. RunIsFlagged' /\ loops' = [j \in LoopIds |-> loops'[j]]
  <2>1. CASE UNCHANGED <<loops, taskStatus>>
    <3>1. RunIsFlagged'
      BY <1>1, <1>4, <2>1, LoopsUntouched
    <3> QED BY <1>3, <2>1, <3>1
  <2>2. ASSUME NEW c, StartsLoop("cli", t, c) PROVE RunIsFlagged' /\ loops' = [j \in LoopIds |-> loops'[j]]
    BY <1>1, <1>4, <2>2, OtherLoopBegins
  <2> QED BY <1>2, <2>1, <2>2
<1>6. /\ WritesAreOwned' /\ SettingsAreSaved' /\ configs' = [d \in Dirs |-> configs'[d]]
  <2>1. CASE WritesNothing
    <3>1. UNCHANGED <<writes, configs>>
      BY <2>1 DEF WritesNothing
    <3>2. configs = [d \in Dirs |-> configs[d]]
      BY DEF SessionInv, SessionShapes
    <3> QED BY <1>1, <3>1, <3>2, SettingsUntouched
  <2>2. CASE BeginsWrite(StateDir, DefaultConfig, "cli")
    <3>1. /\ WritesAreOwned' /\ configs' = [e \in Dirs |-> configs'[e]] /\ StateDir' = StateDir
          /\ \A w \in writes' : w \in writes \/ (w.dir = StateDir /\ w.what = DefaultConfig /\ w.by = "cli")
          /\ writes \subseteq writes' /\ \E w \in writes' : w.dir = StateDir
      <4>1. \A w \in writes : /\ w.by = "launch" => up' = "starting"
                              /\ w.by = "wizard" => up' \in {"wizard", "stuck"}
                              /\ w.by = "session" => up' # "off"
        BY <1>1 DEF SessionInv, WritesAreOwned
      <4> QED BY <1>1, <2>2, <4>1, WriteBegins, DirsAreTwo
    <3> QED BY <1>1, <3>1 DEF SessionInv, SettingsAreSaved
  <2> QED BY <1>1, <2>1, <2>2 DEF LoadsOrResets
<1>7. SessionShapes'
  BY <1>1, <1>4, <1>5, <1>6 DEF SessionInv, SessionShapes
<1> QED BY <1>1, <1>4, <1>5, <1>6, <1>7, TaskUntouched DEF SessionInv

LEMMA ReportStep ==
  ASSUME SessionInv, NEW c, NEW arg, Report(c, arg) PROVE SessionInv'
<1>1. /\ UNCHANGED <<envDir, writes, configs, up, memory, running, activeTask, board, loops, taskStatus, drifted>>
      /\ \E t : reported' = [about |-> t, outcome |-> Outcome(c, t)]
  BY DEF Report, Enter, Input, WritesNothing
<1>2. PICK t : reported' = [about |-> t, outcome |-> Outcome(c, t)]
  BY <1>1
<1>3. reported'.about = t /\ reported'.outcome = Outcome(c, t)
  BY <1>2
<1>4. reported'.outcome = "shown" => reported'.about # NoSessionTask
  BY <1>3 DEF Outcome
<1>5. RunIsFlagged'
  BY <1>1, LoopsUntouched
<1>6. SessionShapes'
  BY <1>1 DEF SessionInv, SessionShapes
<1> QED BY <1>1, <1>4, <1>5, <1>6, SettingsUntouched DEF SessionInv

LEMMA SessionStepOK == SessionInv /\ [SessionNext]_sessionVars => SessionInv'
<1> SUFFICES ASSUME SessionInv, [SessionNext]_sessionVars PROVE SessionInv'
  OBVIOUS
<1>1. CASE Chooses
  <2>1. /\ UNCHANGED <<configs, writes, up, memory, running, activeTask, board, loops, taskStatus, reported, drifted>>
        /\ envDir = "unset"
    BY <1>1 DEF Chooses
  <2>2. up = "off" /\ writes = {}
    BY <2>1 DEF SessionInv, WritesAreOwned
  <2>3. WritesAreOwned' /\ SettingsAreSaved'
    BY <2>1, <2>2 DEF SessionInv, WritesAreOwned, SettingsAreSaved
  <2>4. RunIsFlagged'
    BY <2>1, LoopsUntouched
  <2>5. SessionShapes'
    BY <2>1 DEF SessionInv, SessionShapes
  <2> QED BY <2>1, <2>3, <2>4, <2>5 DEF SessionInv
<1>2. CASE UNCHANGED sessionVars
  <2>1. UNCHANGED <<envDir, configs, writes, up, memory, running, activeTask, loops, taskStatus, reported, drifted>>
    BY <1>2 DEF sessionVars
  <2>2. RunIsFlagged' /\ WritesAreOwned' /\ SettingsAreSaved'
    BY <2>1, LoopsUntouched, SettingsUntouched
  <2>3. SessionShapes'
    BY <2>1 DEF SessionInv, SessionShapes
  <2> QED BY <2>1, <2>2, <2>3 DEF SessionInv
<1>3. CASE Launch \/ CmdInit \/ CmdSetup \/ WizardCancels \/ CmdDashboard \/ Quit
  BY <1>3, LaunchStep, CmdInitStep, ScreenStep, QuitStep
<1>4. CASE \/ \E c \in Settings : CmdSet(c)
           \/ \E p \in ProviderNames : WizardSaves(p)
           \/ \E w \in writes : EndsWrite(w)
  BY <1>4, CmdSetStep, WizardSavesStep, EndsWriteStep
<1>5. CASE \/ \E i \in LoopIds : LoopEnds(i)
           \/ \E t \in SessionTasks : RunTask(t) \/ CmdResume(t)
           \/ \E t \in SessionTasks, p \in Preflight : CliLoop(t, p)
  BY <1>5, LoopEndsStep, RunTaskStep, CmdResumeStep, CliLoopStep
<1>6. CASE \E c \in {"explicit", "task", "ledger"}, arg \in SessionTasks \cup {NoSessionTask} : Report(c, arg)
  BY <1>6, ReportStep
<1> QED BY <1>1, <1>2, <1>3, <1>4, <1>5, <1>6 DEF SessionNext

(* For any providers, modes and tasks: one typed task runs at a time and   *)
(* the flag says so, it runs under the settings the session shows, those   *)
(* are what the next session starts from unless a write was refused or     *)
(* went elsewhere, and a report names a task (ReplSession).                *)
THEOREM SessionKeepsItsWord == SessionSpec => []SessionHolds
<1>1. ASSUME SessionInv PROVE SessionHolds
  <2>1. Cardinality(Fresh) <= 1
    <3>1. Fresh = {} \/ \E i \in Fresh : Fresh = {i}
      BY <1>1 DEF SessionInv, RunIsFlagged
    <3>2. CASE Fresh = {}
      <4>1. Cardinality(Fresh) = 0
        BY <3>2, FS_EmptySet
      <4> QED BY <4>1
    <3>3. ASSUME NEW i \in Fresh, Fresh = {i} PROVE Cardinality(Fresh) <= 1
      <4>1. Cardinality(Fresh) = 1
        BY <3>3, FS_Singleton
      <4> QED BY <4>1
    <3> QED BY <3>1, <3>2, <3>3
  <2>2. OneRunAtATime
    BY <1>1, <2>1 DEF SessionInv, RunIsFlagged, OneRunAtATime
  <2>3. SavedIsShown
    BY <1>1 DEF SessionInv, SettingsAreSaved, SavedIsShown
  <2>4. ReportsAreOfTasks
    BY <1>1 DEF SessionInv, ReportsAreOfTasks
  <2> QED BY <2>2, <2>3, <2>4 DEF SessionHolds
<1> QED BY <1>1, SessionInitOK, SessionStepOK, PTL DEF SessionSpec
-----------------------------------------------------------------------------
(* CapabilityRouter.  No more domains are above the floor and have fewer    *)
(* than k better ones than k: the number of better ones tells them apart.   *)
LEMMA PlacesApart == \A d \in DomainSet : Position(d) \in Nat /\ Domains[Position(d)] = d
<1> TAKE d \in DomainSet
<1>1. \E i \in DOMAIN Domains : Domains[i] = d
  BY DEF DomainSet, ToSet
<1>2. Position(d) \in DOMAIN Domains /\ Domains[Position(d)] = d
  BY <1>1 DEF Position
<1>3. DOMAIN Domains \subseteq Nat
  BY RouterAssumption
<1> QED BY <1>2, <1>3

LEMMA DomainsAreFinite == IsFiniteSet(DomainSet)
<1>1. /\ Domains \in [1..Len(Domains) -> DomainSet] /\ Len(Domains) \in Nat
      /\ DOMAIN Domains = 1..Len(Domains)
  BY RouterAssumption DEF DomainSet
<1>2. \A d \in DomainSet : \E i \in 1..Len(Domains) : Domains[i] = d
  BY <1>1 DEF DomainSet, ToSet
<1>3. Domains \in Surjection(1..Len(Domains), DomainSet)
  BY <1>1, <1>2 DEF Surjection
<1>4. IsFiniteSet(1..Len(Domains))
  BY <1>1, FS_Interval
<1> QED BY <1>3, <1>4, FS_Surjection

ScoresKnown == raw \in [DomainSet -> RawWeights]

LEMMA ScoresAreNumbers ==
  ASSUME ScoresKnown, NEW d \in DomainSet
  PROVE  Score(d) \in Nat /\ (raw[d] > 0 => Score(d) >= WithheldCeiling)
<1>1. raw[d] \in RawWeights
  BY DEF ScoresKnown
<1>2. raw[d] \in {0, 2, 5, 10, 40}
  BY <1>1 DEF RawWeights
<1>3. Score(d) = CASE raw[d] = 0 -> 2 [] raw[d] = 2 -> 39 [] raw[d] = 5 -> 47 [] raw[d] = 10 -> 57 [] raw[d] = 40 -> 89
  BY <1>1 DEF Score
<1> QED BY <1>2, <1>3 DEF WithheldCeiling

LEMMA BeforeIsAnOrder ==
  ASSUME ScoresKnown, NEW a \in DomainSet, NEW b \in DomainSet, NEW c \in DomainSet
  PROVE  /\ ~Before(a, a)
         /\ Before(a, b) /\ Before(b, c) => Before(a, c)
         /\ a # b => Before(a, b) \/ Before(b, a)
<1>1. /\ Score(a) \in Nat /\ Score(b) \in Nat /\ Score(c) \in Nat
      /\ Position(a) \in Nat /\ Position(b) \in Nat /\ Position(c) \in Nat
      /\ Position(a) = Position(b) => a = b
  BY ScoresAreNumbers, PlacesApart
<1> QED BY <1>1 DEF Before

LEMMA BetterGrows ==
  ASSUME ScoresKnown, NEW a \in AboveFloor, NEW b \in AboveFloor, Before(a, b)
  PROVE  /\ Cardinality(Better(a)) \in Nat /\ Cardinality(Better(b)) \in Nat
         /\ Cardinality(Better(a)) < Cardinality(Better(b))
<1>1. AboveFloor \subseteq DomainSet
  BY DEF AboveFloor
<1>2. Better(a) \subseteq Better(b) /\ a \in Better(b) /\ a \notin Better(a)
  BY <1>1, BeforeIsAnOrder DEF Better
<1>3. IsFiniteSet(Better(b))
  <2>1. Better(b) \subseteq DomainSet
    BY <1>1 DEF Better
  <2> QED BY <2>1, DomainsAreFinite, FS_Subset
<1>4. Cardinality(Better(a)) \in Nat /\ Cardinality(Better(b)) \in Nat
  BY <1>2, <1>3, FS_Subset, FS_CardinalityType
<1>5. /\ Cardinality(Better(a)) <= Cardinality(Better(b))
      /\ Cardinality(Better(a)) = Cardinality(Better(b)) => Better(a) = Better(b)
  BY <1>2, <1>3, FS_Subset
<1> QED BY <1>2, <1>4, <1>5

LEMMA PickedFits ==
  ASSUME ScoresKnown
  PROVE  /\ IsFiniteSet(Picked) /\ Cardinality(Picked) <= MaxSelectedDomains
         /\ \A d \in Picked, e \in DomainSet \ Picked : Score(d) >= Score(e)
<1> DEFINE f == [d \in Picked |-> Cardinality(Better(d))]
           places == 0..(MaxSelectedDomains - 1)
<1>1. Picked \subseteq AboveFloor /\ AboveFloor \subseteq DomainSet /\ MaxSelectedDomains \in Nat
  BY RouterAssumption DEF Picked, AboveFloor
<1>2. \A d \in AboveFloor : IsFiniteSet(Better(d)) /\ Cardinality(Better(d)) \in Nat
  <2> TAKE d \in AboveFloor
  <2>1. Better(d) \subseteq DomainSet
    BY <1>1 DEF Better
  <2> QED BY <2>1, DomainsAreFinite, FS_Subset, FS_CardinalityType
<1>3. f \in [Picked -> places]
  <2>1. ASSUME NEW d \in Picked PROVE Cardinality(Better(d)) \in places
    <3>1. Cardinality(Better(d)) \in Nat /\ Cardinality(Better(d)) < MaxSelectedDomains
      BY <1>1, <1>2 DEF Picked
    <3> QED BY <1>1, <3>1
  <2> QED BY <2>1
<1>4. \A a, b \in Picked : f[a] = f[b] => a = b
  <2> TAKE a, b \in Picked
  <2>1. a \in AboveFloor /\ b \in AboveFloor /\ a \in DomainSet /\ b \in DomainSet
    BY <1>1
  <2>2. a # b => Before(a, b) \/ Before(b, a)
    BY <2>1, BeforeIsAnOrder
  <2>3. Before(a, b) => f[a] # f[b]
    BY <2>1, BetterGrows
  <2>4. Before(b, a) => f[a] # f[b]
    BY <2>1, BetterGrows
  <2> QED BY <2>2, <2>3, <2>4
<1>5. f \in Injection(Picked, places)
  BY <1>3, <1>4 DEF Injection, IsInjective
<1>6. IsFiniteSet(places) /\ Cardinality(places) = MaxSelectedDomains
  <2>1. IsFiniteSet(places) /\ Cardinality(places) = IF 0 > MaxSelectedDomains - 1 THEN 0 ELSE (MaxSelectedDomains - 1) - 0 + 1
    BY <1>1, FS_Interval
  <2> QED BY <1>1, <2>1
<1>7. IsFiniteSet(Picked) /\ Cardinality(Picked) <= MaxSelectedDomains
  BY <1>5, <1>6, FS_Injection DEF ExistsInjection
<1>8. ASSUME NEW d \in Picked, NEW e \in DomainSet \ Picked PROVE Score(d) >= Score(e)
  <2>1. d \in AboveFloor /\ d \in DomainSet /\ Score(d) \in Nat /\ Score(e) \in Nat
    BY <1>1, ScoresAreNumbers
  <2>2. CASE e \notin AboveFloor
    BY <2>1, <2>2 DEF AboveFloor, SelectedFloor
  <2>3. CASE e \in AboveFloor
    <3>1. ~(Cardinality(Better(e)) < MaxSelectedDomains) /\ Cardinality(Better(d)) < MaxSelectedDomains
      BY <2>3 DEF Picked
    <3>2. ~Before(e, d)
      BY <1>1, <2>1, <2>3, <3>1, BetterGrows
    <3> QED BY <2>1, <3>2 DEF Before
  <2> QED BY <2>2, <2>3
<1> QED BY <1>7, <1>8

RouterInv == ScoresKnown /\ RoutingKeepsRecall

LEMMA RouteStep == RouterInv /\ Route => RouterInv'
<1> SUFFICES ASSUME RouterInv, Route PROVE RouterInv'
  OBVIOUS
<1> DEFINE selected == CoRouted(Picked)
           adjacent == Adjacent(Picked)
<1>1. /\ routed'.selected = selected /\ routed'.adjacent = adjacent
      /\ routed'.withheld = DomainSet \ (selected \cup adjacent)
      /\ raw' = raw
  BY DEF Route
<1>2. ScoresKnown /\ ScoresKnown'
  BY <1>1 DEF RouterInv, ScoresKnown
<1>3. /\ IsFiniteSet(Picked) /\ Cardinality(Picked) <= MaxSelectedDomains
      /\ \A d \in Picked, e \in DomainSet \ Picked : Score(d) >= Score(e)
  BY <1>2, PickedFits
<1>4. selected = Picked \/ (selected = Picked \cup {Tests} /\ Cardinality(Picked) < MaxSelectedDomains /\ Tests \notin Picked)
  BY DEF CoRouted
<1>5. Cardinality(selected) <= MaxSelectedDomains
  <2>1. CASE selected = Picked
    BY <1>3, <2>1
  <2>2. CASE selected = Picked \cup {Tests} /\ Cardinality(Picked) < MaxSelectedDomains /\ Tests \notin Picked
    <3>1. Cardinality(selected) = Cardinality(Picked) + 1
      BY <1>3, <2>2, FS_AddElement
    <3>2. Cardinality(Picked) \in Nat
      BY <1>3, FS_CardinalityType
    <3> QED BY <2>2, <3>1, <3>2, RouterAssumption
  <2> QED BY <1>4, <2>1, <2>2
<1>6. Picked \subseteq selected /\ selected \subseteq Picked \cup {Tests}
  BY <1>4
<1> HIDE DEF selected
<1>7. \A d \in DomainSet : raw[d] > 0 => d \in selected \cup adjacent
  BY <1>2, <1>6, ScoresAreNumbers DEF Adjacent
<1>8. \A d \in selected \ {Tests}, e \in DomainSet \ selected : Score(d) >= Score(e)
  BY <1>3, <1>6
<1>9. \A d : Score(d)' = Score(d)
  BY <1>1 DEF Score
<1> HIDE DEF adjacent
<1>10. RoutingKeepsRecall'
  BY <1>1, <1>5, <1>7, <1>8, <1>9 DEF RoutingKeepsRecall
<1> QED BY <1>2, <1>10 DEF RouterInv

(* For any domains and caps: a domain anything points to is selected or    *)
(* adjacent, the cap holds with tests co-routed, nothing handed out is     *)
(* withheld and no worse domain is picked over a better one (route).       *)
THEOREM RoutingKeepsEveryHint == RouterSpec => []RoutingKeepsRecall
<1>1. RouterInit => RouterInv
  BY DEF RouterInit, RouterInv, ScoresKnown, RoutingKeepsRecall, RawWeights
<1>2. RouterInv /\ [TaskComes \/ Route]_routerVars => RouterInv'
  <2> SUFFICES ASSUME RouterInv, [TaskComes \/ Route]_routerVars PROVE RouterInv'
    OBVIOUS
  <2>1. CASE TaskComes
    <3>1. ~routed'.done /\ ScoresKnown'
      BY <2>1 DEF TaskComes, ScoresKnown
    <3> QED BY <3>1 DEF RouterInv, RoutingKeepsRecall
  <2>2. CASE UNCHANGED routerVars
    <3>1. raw' = raw /\ routed' = routed
      BY <2>2 DEF routerVars
    <3>2. \A d : Score(d)' = Score(d)
      BY <3>1 DEF Score
    <3> QED BY <3>1, <3>2 DEF RouterInv, RoutingKeepsRecall, ScoresKnown
  <2> QED BY <2>1, <2>2, RouteStep
<1>3. RouterInv => RoutingKeepsRecall
  BY DEF RouterInv
<1> QED BY <1>1, <1>2, <1>3, PTL DEF RouterSpec
-----------------------------------------------------------------------------
(* ToolOutput.  What a cut leaves: no more than was asked for, and the      *)
(* ends of what it was made from.                                           *)
LEMMA AtMost ==
  ASSUME NEW T, NEW k \in Nat, NEW f \in [T -> 0..(k - 1)], \A a, b \in T : f[a] = f[b] => a = b
  PROVE  IsFiniteSet(T) /\ Cardinality(T) <= k
<1>1. f \in Injection(T, 0..(k - 1))
  BY DEF Injection, IsInjective
<1>2. IsFiniteSet(0..(k - 1)) /\ Cardinality(0..(k - 1)) = IF 0 > k - 1 THEN 0 ELSE (k - 1) - 0 + 1
  BY FS_Interval
<1>3. Cardinality(0..(k - 1)) = k
  BY <1>2
<1> QED BY <1>1, <1>2, <1>3, FS_Injection

(* S: the line numbers of an output of n lines.                             *)
LEMMA LinesAreFinite ==
  ASSUME NEW n \in Nat, NEW S \in SUBSET (1..n)
  PROVE  IsFiniteSet(S) /\ Cardinality(S) \in Nat /\ S \subseteq Int /\ \A i \in S : i >= 1 /\ i <= n
<1>1. 1 \in Int /\ n \in Int /\ S \subseteq 1..n
  OBVIOUS
<1>2. IsFiniteSet(1..n)
  BY <1>1, FS_Interval
<1>3. IsFiniteSet(S)
  BY <1>1, <1>2, FS_Subset
<1>4. S \subseteq Int /\ \A i \in S : i >= 1 /\ i <= n
  BY <1>1
<1> QED BY <1>3, <1>4, FS_CardinalityType

LEMMA SmallerAreFewer ==
  ASSUME NEW n \in Nat, NEW S \in SUBSET (1..n), NEW a \in S, NEW b \in S, a < b
  PROVE  /\ Cardinality({j \in S : j < a}) \in Nat /\ Cardinality({j \in S : j < b}) \in Nat
         /\ Cardinality({j \in S : j < a}) < Cardinality({j \in S : j < b})
         /\ Cardinality({j \in S : j > a}) \in Nat /\ Cardinality({j \in S : j > b}) \in Nat
         /\ Cardinality({j \in S : j > b}) < Cardinality({j \in S : j > a})
<1> DEFINE la == {j \in S : j < a}
           lb == {j \in S : j < b}
           ga == {j \in S : j > a}
           gb == {j \in S : j > b}
<1>1. IsFiniteSet(S)
  BY LinesAreFinite
<1>2. a \in Int /\ b \in Int /\ \A j \in S : j \in Int /\ (j < a => j < b) /\ (j > b => j > a)
  <2>1. a \in Int /\ b \in Int /\ S \subseteq Int
    BY LinesAreFinite
  <2> QED BY <2>1
<1>3. la \subseteq lb /\ lb \subseteq S /\ a \in lb /\ a \notin la
  <2>1. ~(a < a)
    BY <1>2
  <2>2. lb \subseteq S /\ a \in lb /\ a \notin la
    BY <2>1
  <2>3. la \subseteq lb
    BY <1>2
  <2> QED BY <2>2, <2>3
<1>4. gb \subseteq ga /\ ga \subseteq S /\ b \in ga /\ b \notin gb
  <2>1. ~(b > b) /\ b > a
    BY <1>2
  <2>2. ga \subseteq S /\ b \in ga /\ b \notin gb
    BY <2>1
  <2>3. gb \subseteq ga
    BY <1>2
  <2> QED BY <2>2, <2>3
<1> HIDE DEF la, lb, ga, gb
<1>5. IsFiniteSet(lb) /\ IsFiniteSet(ga)
  BY <1>1, <1>3, <1>4, FS_Subset
<1>6. /\ IsFiniteSet(la) /\ Cardinality(la) <= Cardinality(lb)
      /\ Cardinality(lb) = Cardinality(la) => lb = la
  BY <1>3, <1>5, FS_Subset
<1>7. /\ IsFiniteSet(gb) /\ Cardinality(gb) <= Cardinality(ga)
      /\ Cardinality(ga) = Cardinality(gb) => ga = gb
  BY <1>4, <1>5, FS_Subset
<1>8. /\ Cardinality(la) \in Nat /\ Cardinality(lb) \in Nat
      /\ Cardinality(ga) \in Nat /\ Cardinality(gb) \in Nat
  BY <1>5, <1>6, <1>7, FS_CardinalityType
<1>9. Cardinality(la) < Cardinality(lb) /\ Cardinality(gb) < Cardinality(ga)
  BY <1>3, <1>4, <1>6, <1>7, <1>8
<1> QED BY <1>8, <1>9 DEF la, lb, ga, gb

LEMMA CountsAreNumbers ==
  ASSUME NEW n \in Nat, NEW S \in SUBSET (1..n), NEW a \in S
  PROVE  Cardinality({j \in S : j < a}) \in Nat /\ Cardinality({j \in S : j > a}) \in Nat
<1>1. IsFiniteSet(S)
  BY LinesAreFinite
<1>2. IsFiniteSet({j \in S : j < a}) /\ IsFiniteSet({j \in S : j > a})
  BY <1>1, FS_Subset
<1> QED BY <1>2, FS_CardinalityType

LEMMA CutFits ==
  ASSUME NEW n \in Nat, NEW S \in SUBSET (1..n), NEW k \in Nat
  PROVE  /\ FirstOf(S, k) \subseteq S /\ LastOf(S, k) \subseteq S
         /\ IsFiniteSet(FirstOf(S, k)) /\ Cardinality(FirstOf(S, k)) <= k
         /\ IsFiniteSet(LastOf(S, k)) /\ Cardinality(LastOf(S, k)) <= k
<1> DEFINE F == FirstOf(S, k)
           L == LastOf(S, k)
           before == [i \in F |-> Cardinality({j \in S : j < i})]
           behind == [i \in L |-> Cardinality({j \in S : j > i})]
<1>1. F \subseteq S /\ L \subseteq S
  BY DEF FirstOf, LastOf
<1>2. before \in [F -> 0..(k - 1)]
  <2>1. ASSUME NEW i \in F PROVE Cardinality({j \in S : j < i}) \in 0..(k - 1)
    <3>1. Cardinality({j \in S : j < i}) \in Nat /\ Cardinality({j \in S : j < i}) < k
      BY <1>1, CountsAreNumbers DEF FirstOf
    <3> QED BY <3>1
  <2> QED BY <2>1
<1>3. behind \in [L -> 0..(k - 1)]
  <2>1. ASSUME NEW i \in L PROVE Cardinality({j \in S : j > i}) \in 0..(k - 1)
    <3>1. Cardinality({j \in S : j > i}) \in Nat /\ Cardinality({j \in S : j > i}) < k
      BY <1>1, CountsAreNumbers DEF LastOf
    <3> QED BY <3>1
  <2> QED BY <2>1
<1>4. \A a, b \in F : before[a] = before[b] => a = b
  <2> TAKE a, b \in F
  <2>1. a \in S /\ b \in S /\ a \in Int /\ b \in Int
    BY <1>1, LinesAreFinite
  <2>2. before[a] = Cardinality({j \in S : j < a}) /\ before[b] = Cardinality({j \in S : j < b})
    OBVIOUS
  <2>3. Cardinality({j \in S : j < a}) \in Nat /\ Cardinality({j \in S : j < b}) \in Nat
    BY <2>1, CountsAreNumbers
  <2>4. ASSUME a < b PROVE Cardinality({j \in S : j < a}) < Cardinality({j \in S : j < b})
    BY <2>1, <2>4, SmallerAreFewer
  <2>5. ASSUME b < a PROVE Cardinality({j \in S : j < b}) < Cardinality({j \in S : j < a})
    BY <2>1, <2>5, SmallerAreFewer
  <2> HIDE DEF before
  <2> QED BY <2>1, <2>2, <2>3, <2>4, <2>5
<1>5. \A a, b \in L : behind[a] = behind[b] => a = b
  <2> TAKE a, b \in L
  <2>1. a \in S /\ b \in S /\ a \in Int /\ b \in Int
    BY <1>1, LinesAreFinite
  <2>2. behind[a] = Cardinality({j \in S : j > a}) /\ behind[b] = Cardinality({j \in S : j > b})
    OBVIOUS
  <2>3. Cardinality({j \in S : j > a}) \in Nat /\ Cardinality({j \in S : j > b}) \in Nat
    BY <2>1, CountsAreNumbers
  <2>4. ASSUME a < b PROVE Cardinality({j \in S : j > b}) < Cardinality({j \in S : j > a})
    BY <2>1, <2>4, SmallerAreFewer
  <2>5. ASSUME b < a PROVE Cardinality({j \in S : j > a}) < Cardinality({j \in S : j > b})
    BY <2>1, <2>5, SmallerAreFewer
  <2> HIDE DEF behind
  <2> QED BY <2>1, <2>2, <2>3, <2>4, <2>5
<1> HIDE DEF F, L, before, behind
<1>6. IsFiniteSet(F) /\ Cardinality(F) <= k
  BY <1>2, <1>4, AtMost
<1>7. IsFiniteSet(L) /\ Cardinality(L) <= k
  BY <1>3, <1>5, AtMost
<1> QED BY <1>1, <1>6, <1>7 DEF F, L

LEMMA CutKeepsEnds ==
  ASSUME NEW n \in Nat, NEW S \in SUBSET (1..n), NEW k \in Nat, k >= 1
  PROVE  /\ 1 \in S => 1 \in FirstOf(S, k)
         /\ n \in S => n \in LastOf(S, k)
<1>1. \A j \in S : ~(j < 1) /\ ~(j > n)
  BY LinesAreFinite
<1>3. {j \in S : j < 1} = {} /\ {j \in S : j > n} = {}
  BY <1>1
<1>2. Cardinality({}) = 0
  BY FS_EmptySet
<1> QED BY <1>2, <1>3 DEF FirstOf, LastOf

LEMMA NothingCut ==
  ASSUME NEW n \in Nat, NEW S \in SUBSET (1..n), NEW k \in Nat, ~(Cardinality(S) > k)
  PROVE  S \subseteq FirstOf(S, k)
<1>1. IsFiniteSet(S) /\ Cardinality(S) \in Nat
  BY LinesAreFinite
<1>2. ASSUME NEW i \in S PROVE Cardinality({j \in S : j < i}) < k
  <2> DEFINE T == {j \in S : j < i}
  <2>1. T \subseteq S /\ i \in S /\ i \notin T
    OBVIOUS
  <2> HIDE DEF T
  <2>2. IsFiniteSet(T) /\ Cardinality(T) <= Cardinality(S) /\ (Cardinality(S) = Cardinality(T) => S = T)
    BY <1>1, <2>1, FS_Subset
  <2>3. Cardinality(T) \in Nat
    BY <2>2, FS_CardinalityType
  <2>4. Cardinality(T) < k
    BY <1>1, <2>1, <2>2, <2>3
  <2> QED BY <2>4 DEF T
<1> QED BY <1>2 DEF FirstOf

LEMMA BothEndsFit ==
  ASSUME NEW n \in Nat, NEW S \in SUBSET (1..n), NEW k \in Nat, NEW m \in Nat
  PROVE  Cardinality(FirstOf(S, k) \cup LastOf(S, m)) <= k + m
<1> DEFINE F == FirstOf(S, k)
           L == LastOf(S, m)
<1>1. IsFiniteSet(F) /\ IsFiniteSet(L) /\ Cardinality(F) <= k /\ Cardinality(L) <= m
  BY CutFits
<1> HIDE DEF F, L
<1>2. Cardinality(F \cup L) = Cardinality(F) + Cardinality(L) - Cardinality(F \cap L)
  BY <1>1, FS_Union
<1>3. IsFiniteSet(F \cap L) /\ IsFiniteSet(F \cup L)
  BY <1>1, FS_Union, FS_Intersection
<1>4. /\ Cardinality(F) \in Nat /\ Cardinality(L) \in Nat /\ Cardinality(F \cap L) \in Nat
  BY <1>1, <1>3, FS_CardinalityType
<1>5. Cardinality(F \cup L) <= k + m
  BY <1>1, <1>2, <1>4
<1> QED BY <1>5 DEF F, L

LEMMA BudgetIsEnough == Budget \in Nat /\ Budget >= 5
  BY ToolOutputAssumption

(* What the strategies promise: V is shown of an output of n lines.         *)
Fits(V, n) == V \subseteq 1..n /\ 1 \in V /\ Cardinality(V) <= Budget + 1

LEMMA BoundTextFits ==
  ASSUME NEW n \in Nat, NEW S \in SUBSET (1..n), 1 \in S
  PROVE  Fits(BoundText(S), n) /\ (n \in S => n \in BoundText(S))
<1>1. CASE Cardinality(S) <= Budget + 1
  BY <1>1 DEF BoundText, Fits
<1>2. CASE ~(Cardinality(S) <= Budget + 1)
  <2> DEFINE k == (Budget * 3) \div 4
             m == Budget \div 5
  <2>1. k \in Nat /\ m \in Nat /\ k >= 1 /\ m >= 1 /\ k + m <= Budget + 1
    BY BudgetIsEnough
  <2>2. BoundText(S) = FirstOf(S, k) \cup LastOf(S, m)
    BY <1>2 DEF BoundText
  <2> HIDE DEF k, m
  <2>3. Cardinality(BoundText(S)) <= k + m
    BY <2>1, <2>2, BothEndsFit
  <2>4. FirstOf(S, k) \subseteq S /\ LastOf(S, m) \subseteq S
    BY <2>1, CutFits
  <2>5. 1 \in FirstOf(S, k) /\ (n \in S => n \in LastOf(S, m))
    BY <2>1, CutKeepsEnds
  <2>6. Cardinality(BoundText(S)) <= Budget + 1
    <3>1. IsFiniteSet(FirstOf(S, k)) /\ IsFiniteSet(LastOf(S, m))
      BY <2>1, CutFits
    <3>2. Cardinality(BoundText(S)) \in Nat
      BY <2>2, <3>1, FS_Union, FS_CardinalityType
    <3> QED BY <2>1, <2>3, <3>2, ToolOutputAssumption
  <2> QED BY <2>2, <2>4, <2>5, <2>6 DEF Fits
<1> QED BY <1>1, <1>2

LEMMA HeadTailFits ==
  ASSUME NEW o, Size(o) \in Nat, Size(o) >= 2
  PROVE  Fits(HeadTail(o), Size(o)) /\ Size(o) \in HeadTail(o)
<1> DEFINE n == Size(o)
           S == 1..n
           k == (Budget * 18) \div 25
           m == (Budget * 11) \div 50
<1>1. k \in Nat /\ m \in Nat /\ k >= 1 /\ m >= 1 /\ k + m <= Budget + 1
  BY BudgetIsEnough
<1>2. HeadTail(o) = FirstOf(S, k) \cup LastOf(S, m) /\ n \in Nat /\ n >= 2
  BY DEF HeadTail
<1>3. 1 \in S /\ n \in S /\ S \subseteq 1..n
  BY <1>2
<1> HIDE DEF k, m, n, S
<1>4. Cardinality(HeadTail(o)) <= k + m
  BY <1>1, <1>2, <1>3, BothEndsFit
<1>5. FirstOf(S, k) \subseteq S /\ LastOf(S, m) \subseteq S
  BY <1>1, <1>2, <1>3, CutFits
<1>6. 1 \in FirstOf(S, k) /\ n \in LastOf(S, m)
  BY <1>1, <1>2, <1>3, CutKeepsEnds
<1>7. Cardinality(HeadTail(o)) <= Budget + 1
  <2>1. IsFiniteSet(FirstOf(S, k)) /\ IsFiniteSet(LastOf(S, m))
    BY <1>1, <1>2, <1>3, CutFits
  <2>2. Cardinality(HeadTail(o)) \in Nat
    BY <1>2, <2>1, FS_Union, FS_CardinalityType
  <2> QED BY <1>1, <1>4, <2>2, ToolOutputAssumption
<1>8. Fits(HeadTail(o), n) /\ n \in HeadTail(o)
  BY <1>2, <1>3, <1>5, <1>6, <1>7 DEF Fits
<1> QED BY <1>8 DEF n

LEMMA LeastOfTwo ==
  ASSUME NEW a \in Int, NEW b \in Int
  PROVE  /\ Min({a, b}) \in {a, b} /\ Min({a, b}) <= a /\ Min({a, b}) <= b
         /\ Max({a, b}) \in {a, b} /\ Max({a, b}) >= a /\ Max({a, b}) >= b
<1>1. \E x \in {a, b} : \A y \in {a, b} : x <= y
  OBVIOUS
<1>2. \E x \in {a, b} : \A y \in {a, b} : x >= y
  OBVIOUS
<1>3. Min({a, b}) \in {a, b} /\ \A y \in {a, b} : Min({a, b}) <= y
  BY <1>1 DEF Min
<1>4. Max({a, b}) \in {a, b} /\ \A y \in {a, b} : Max({a, b}) >= y
  BY <1>2 DEF Max
<1> QED BY <1>3, <1>4

LEMMA EndsOfInterval ==
  ASSUME NEW a \in Int, NEW b \in Int, a <= b
  PROVE  Min(a..b) = a /\ Max(a..b) = b /\ Cardinality(a..b) = b - a + 1
<1>1. \A y \in a..b : y \in Int /\ a <= y /\ y <= b
  OBVIOUS
<1>2. a \in a..b /\ b \in a..b
  OBVIOUS
<1>3. Min(a..b) \in a..b /\ \A y \in a..b : Min(a..b) <= y
  <2>1. \E x \in a..b : \A y \in a..b : x <= y
    BY <1>1, <1>2
  <2> QED BY <2>1 DEF Min
<1>4. Max(a..b) \in a..b /\ \A y \in a..b : Max(a..b) >= y
  <2>1. \E x \in a..b : \A y \in a..b : x >= y
    BY <1>1, <1>2
  <2> QED BY <2>1 DEF Max
<1>5. Min(a..b) = a
  BY <1>1, <1>2, <1>3
<1>6. Max(a..b) = b
  BY <1>1, <1>2, <1>4
<1>7. Cardinality(a..b) = IF a > b THEN 0 ELSE b - a + 1
  BY FS_Interval
<1> QED BY <1>5, <1>6, <1>7

LEMMA SampledGrows ==
  ASSUME NEW base, NEW every, NEW max
  PROVE  base \subseteq Sampled(base, every, max) /\ Sampled(base, every, max) \subseteq base \cup every
<1>1. \A S, k : FirstOf(S, k) \subseteq S
  BY DEF FirstOf
<1> QED BY <1>1 DEF Sampled

Output(o) == Size(o) \in Nat /\ Size(o) >= 2

LEMMA NotableAreLines == \A o : Notable(o) \subseteq 1..Size(o)
  BY DEF Notable

LEMMA JsonRowsFit ==
  ASSUME NEW o, Output(o)
  PROVE  JsonRows(o) \subseteq 1..Size(o) /\ 1 \in JsonRows(o) /\ Size(o) \in JsonRows(o)
<1> DEFINE n == Size(o)
           edges == 1..Min({3, n}) \cup Max({1, n - 1})..n \cup Notable(o)
           step == Max({1, n \div Max({1, MaxItems - Cardinality(edges)})})
           every == {i \in 1..n : (i - 1) % step = 0}
<1>1. n \in Nat /\ n >= 2
  BY DEF Output
<1>2. Notable(o) \subseteq 1..n
  BY NotableAreLines
<1>3. JsonRows(o) = Sampled(edges, every, MaxItems) /\ every \subseteq 1..n
  BY DEF JsonRows
<1>4. Min({3, n}) \in Int /\ Min({3, n}) >= 1 /\ Min({3, n}) <= n
  <2>1. 3 \in Int /\ n \in Int
    BY <1>1
  <2>2. Min({3, n}) \in {3, n} /\ Min({3, n}) <= n
    BY <2>1, LeastOfTwo
  <2> QED BY <1>1, <2>2
<1>5. Max({1, n - 1}) \in Int /\ Max({1, n - 1}) >= 1 /\ Max({1, n - 1}) <= n
  <2>1. 1 \in Int /\ n - 1 \in Int
    BY <1>1
  <2>2. Max({1, n - 1}) \in {1, n - 1}
    BY <2>1, LeastOfTwo
  <2> QED BY <1>1, <2>2
<1>6. 1 \in 1..Min({3, n}) /\ n \in Max({1, n - 1})..n
  BY <1>1, <1>4, <1>5
<1>7. 1..Min({3, n}) \subseteq 1..n /\ Max({1, n - 1})..n \subseteq 1..n
  BY <1>1, <1>4, <1>5
<1>8. edges \subseteq 1..n /\ 1 \in edges /\ n \in edges
  BY <1>2, <1>6, <1>7
<1> HIDE DEF n, edges, step, every
<1>9. JsonRows(o) \subseteq 1..n /\ edges \subseteq JsonRows(o)
  BY <1>1, <1>3, <1>8, SampledGrows
<1>10. JsonRows(o) \subseteq 1..n /\ 1 \in JsonRows(o) /\ n \in JsonRows(o)
  BY <1>8, <1>9
<1> QED BY <1>10 DEF n

LEMMA EndsOfSet ==
  ASSUME NEW n \in Nat, NEW S \in SUBSET (1..n), S # {}
  PROVE  /\ Min(S) \in S /\ Max(S) \in S
         /\ \A i \in S : Min(S) <= i
<1>1. S \in SUBSET Nat /\ \A i \in S : i \in Nat /\ i <= n
  OBVIOUS
<1>2. \E x \in S : \A y \in S : x <= y
  BY <1>1, FirstAhead
<1>3. \E x \in S : \A y \in S : x >= y
  <2> DEFINE T == {n - i : i \in S}
  <2>1. T \in SUBSET Nat /\ T # {}
    <3>1. \A i \in S : n - i \in Nat
      BY <1>1
    <3> QED BY <3>1
  <2>2. PICK t \in T : \A u \in T : t <= u
    BY <2>1, FirstAhead
  <2>3. PICK x \in S : t = n - x
    BY <2>2
  <2>4. ASSUME NEW y \in S PROVE x >= y
    <3>1. n - x <= n - y
      BY <2>2, <2>3
    <3> QED BY <1>1, <3>1
  <2> QED BY <2>4
<1>4. Min(S) \in S /\ \A y \in S : Min(S) <= y
  BY <1>2 DEF Min
<1>5. Max(S) \in S
  BY <1>3 DEF Max
<1> QED BY <1>4, <1>5

(* The matches kept of a file that has some are among them, its first one   *)
(* included.                                                                *)
LEMMA ImportantFit ==
  ASSUME NEW o, Output(o), NEW f, Matches(o, f) # {}
  PROVE  Important(o, f) \subseteq Matches(o, f) /\ Min(Matches(o, f)) \in Important(o, f)
<1> DEFINE lines == Matches(o, f)
           edges == {Min(lines), Max(lines)}
           chosen == edges \cup FirstOf((Notable(o) \cap lines) \ edges, PerFile - Cardinality(edges))
           step == Max({1, Cardinality(lines) \div PerFile})
           every == {i \in lines : Cardinality({j \in lines : j < i}) % step = 0}
<1>1. Important(o, f) = Sampled(chosen, every, PerFile)
  BY DEF Important
<1>2. lines \in SUBSET (1..Size(o)) /\ Size(o) \in Nat
  BY DEF Matches, Parsed, Output
<1>3. Min(lines) \in lines /\ Max(lines) \in lines
  BY <1>2, EndsOfSet
<1>4. FirstOf((Notable(o) \cap lines) \ edges, PerFile - Cardinality(edges)) \subseteq lines
  BY DEF FirstOf
<1>5. chosen \subseteq lines /\ Min(lines) \in chosen /\ every \subseteq lines
  BY <1>3, <1>4
<1> HIDE DEF lines, edges, chosen, step, every
<1>6. Important(o, f) \subseteq lines /\ Min(lines) \in Important(o, f)
  BY <1>1, <1>5, SampledGrows
<1> QED BY <1>6 DEF lines

(* What a search keeps are matches, the first one of the output included.   *)
LEMMA SearchMatchesFit ==
  ASSUME NEW o, Output(o), Parsed(o) # {}
  PROVE  SearchMatches(o) \subseteq Parsed(o) /\ Min(Parsed(o)) \in SearchMatches(o)
<1> DEFINE n == Size(o)
           first == Min(Parsed(o))
           heads == {FirstMatch(o, i) : i \in Parsed(o)}
<1>1. n \in Nat /\ Parsed(o) \in SUBSET (1..n)
  BY DEF Output, Parsed
<1>2. first \in Parsed(o) /\ \A i \in Parsed(o) : first <= i
  BY <1>1, EndsOfSet
<1>3. ASSUME NEW i \in Parsed(o) PROVE FirstMatch(o, i) \in Matches(o, o.file[i]) /\ i \in Matches(o, o.file[i])
  <2>1. i \in Matches(o, o.file[i]) /\ Matches(o, o.file[i]) \in SUBSET (1..n)
    BY <1>1 DEF Matches
  <2> QED BY <1>1, <2>1, EndsOfSet DEF FirstMatch
<1>4. heads \subseteq Parsed(o)
  BY <1>3 DEF Matches
<1>5. FirstMatch(o, first) = first
  <2>1. Matches(o, o.file[first]) \in SUBSET (1..n) /\ first \in Matches(o, o.file[first])
    BY <1>1, <1>2, <1>3 DEF Matches
  <2>2. FirstMatch(o, first) <= first
    BY <1>1, <2>1, EndsOfSet DEF FirstMatch
  <2>3. FirstMatch(o, first) \in Parsed(o) /\ first \in Parsed(o)
    BY <1>2, <1>4
  <2>4. first \in Int /\ FirstMatch(o, first) \in Int /\ first <= FirstMatch(o, first)
    BY <1>1, <1>2, <2>3
  <2> QED BY <2>2, <2>4
<1>6. first \in heads
  BY <1>2, <1>5
<1>7. \A h \in FirstOf(heads, MaxFiles) : h \in Parsed(o)
  BY <1>4 DEF FirstOf
<1>8. first \in FirstOf(heads, MaxFiles)
  <2>1. \A j \in heads : ~(j < first)
    BY <1>1, <1>2, <1>4
  <2>2. {j \in heads : j < first} = {}
    BY <2>1
  <2>3. Cardinality({j \in heads : j < first}) < MaxFiles
    <3>1. MaxFiles \in Nat /\ MaxFiles # 0
      BY ToolOutputAssumption
    <3> QED BY <2>2, <3>1, FS_EmptySet
  <2> HIDE DEF heads, first
  <2> QED BY <1>6, <2>3 DEF FirstOf
<1> HIDE DEF heads
<1>9. ASSUME NEW h \in FirstOf(heads, MaxFiles) PROVE Important(o, o.file[h]) \subseteq Parsed(o)
  <2>1. h \in Matches(o, o.file[h])
    BY <1>3, <1>7
  <2>2. Important(o, o.file[h]) \subseteq Matches(o, o.file[h])
    BY <2>1, ImportantFit
  <2> QED BY <2>2 DEF Matches
<1>10. first \in Important(o, o.file[first])
  <2>1. first \in Matches(o, o.file[first])
    BY <1>2, <1>3
  <2>2. Min(Matches(o, o.file[first])) \in Important(o, o.file[first])
    BY <2>1, ImportantFit
  <2> QED BY <1>5, <2>2 DEF FirstMatch
<1>11. SearchMatches(o) = UNION {Important(o, o.file[h]) : h \in FirstOf(heads, MaxFiles)}
  BY DEF SearchMatches, heads
<1> HIDE DEF first
<1>12. SearchMatches(o) \subseteq Parsed(o) /\ first \in SearchMatches(o)
  BY <1>8, <1>9, <1>10, <1>11
<1> QED BY <1>12 DEF first

(* The printed order tells any two matches apart.                           *)
LEMMA PositionsDiffer ==
  ASSUME NEW o, Output(o), NEW S \in SUBSET Parsed(o), NEW a \in S, NEW b \in S, a # b
  PROVE  /\ PrintedAt(o, S, a) \in 1..Cardinality(S) /\ PrintedAt(o, S, b) \in 1..Cardinality(S)
         /\ PrintedAt(o, S, a) # PrintedAt(o, S, b)
<1> DEFINE n == Size(o)
           AheadOf(i) == {j \in S : PrintedBefore(o, j, i)}
<1>1. n \in Nat /\ S \in SUBSET (1..n) /\ IsFiniteSet(S)
  <2>1. n \in Nat /\ S \in SUBSET (1..n)
    BY DEF Output, Parsed
  <2> QED BY <2>1, LinesAreFinite
<1>2. \A i \in S : i \in Int /\ FirstMatch(o, i) \in Int
  <2> TAKE i \in S
  <2>1. Matches(o, o.file[i]) \in SUBSET (1..n) /\ i \in Matches(o, o.file[i])
    BY DEF Matches, Parsed
  <2>2. FirstMatch(o, i) \in 1..n
    BY <1>1, <2>1, EndsOfSet DEF FirstMatch
  <2> QED BY <1>1, <2>2
<1>3. \A i \in S : ~PrintedBefore(o, i, i)
  BY <1>2 DEF PrintedBefore
<1>4. \A i, j, k \in S : PrintedBefore(o, i, j) /\ PrintedBefore(o, j, k) => PrintedBefore(o, i, k)
  BY <1>2 DEF PrintedBefore
<1>5. PrintedBefore(o, a, b) \/ PrintedBefore(o, b, a)
  BY <1>2 DEF PrintedBefore
<1> HIDE DEF n
<1>6. ASSUME NEW i \in S
      PROVE  /\ IsFiniteSet(AheadOf(i)) /\ Cardinality(AheadOf(i)) \in Nat /\ Cardinality(S) \in Nat
             /\ Cardinality(AheadOf(i)) < Cardinality(S)
  <2> DEFINE A == AheadOf(i)
  <2>1. A \subseteq S /\ i \notin A
    BY <1>3
  <2> HIDE DEF A
  <2>2. IsFiniteSet(A) /\ Cardinality(A) <= Cardinality(S) /\ (Cardinality(S) = Cardinality(A) => S = A)
    BY <1>1, <2>1, FS_Subset
  <2>3. Cardinality(A) \in Nat /\ Cardinality(S) \in Nat
    BY <1>1, <2>2, FS_CardinalityType
  <2>4. Cardinality(A) < Cardinality(S)
    BY <2>1, <2>2, <2>3
  <2> QED BY <2>2, <2>3, <2>4 DEF A
<1>7. ASSUME NEW i \in S, NEW k \in S, PrintedBefore(o, i, k)
      PROVE  Cardinality(AheadOf(i)) < Cardinality(AheadOf(k))
  <2> DEFINE A == AheadOf(i)
             B == AheadOf(k)
  <2>1. A \subseteq B /\ i \in B /\ i \notin A
    BY <1>3, <1>4, <1>7
  <2>2. IsFiniteSet(B) /\ Cardinality(A) \in Nat /\ Cardinality(B) \in Nat
    BY <1>6
  <2> HIDE DEF A, B
  <2>3. Cardinality(A) <= Cardinality(B) /\ (Cardinality(B) = Cardinality(A) => B = A)
    BY <2>1, <2>2, FS_Subset
  <2>4. Cardinality(A) < Cardinality(B)
    BY <2>1, <2>2, <2>3
  <2> QED BY <2>4 DEF A, B
<1>8. PrintedAt(o, S, a) = Cardinality(AheadOf(a)) + 1 /\ PrintedAt(o, S, b) = Cardinality(AheadOf(b)) + 1
  BY DEF PrintedAt
<1>9. Cardinality(AheadOf(a)) < Cardinality(AheadOf(b)) \/ Cardinality(AheadOf(b)) < Cardinality(AheadOf(a))
  BY <1>5, <1>7
<1>10. /\ Cardinality(AheadOf(a)) \in Nat /\ Cardinality(AheadOf(a)) < Cardinality(S) /\ Cardinality(S) \in Nat
       /\ Cardinality(AheadOf(b)) \in Nat /\ Cardinality(AheadOf(b)) < Cardinality(S)
  BY <1>6
<1> HIDE DEF AheadOf
<1> QED BY <1>8, <1>9, <1>10

(* boundText of the matches keeps the one printed first.                    *)
LEMMA BoundMatchesFit ==
  ASSUME NEW o, Output(o), NEW S \in SUBSET Parsed(o), NEW m \in S, \A i \in Parsed(o) : m <= i
  PROVE  BoundMatches(o, S) \subseteq S /\ m \in BoundMatches(o, S) /\ Cardinality(BoundMatches(o, S)) <= Budget + 1
<1> DEFINE n == Size(o)
           c == Cardinality(S)
           T == BoundText(1..c)
           V == BoundMatches(o, S)
           at == [i \in V |-> PrintedAt(o, S, i)]
<1>1. n \in Nat /\ S \in SUBSET (1..n) /\ IsFiniteSet(S) /\ c \in Nat
  <2>1. n \in Nat /\ S \in SUBSET (1..n)
    BY DEF Output, Parsed
  <2> QED BY <2>1, LinesAreFinite
<1>2. V \subseteq S /\ \A i \in V : PrintedAt(o, S, i) \in T
  BY DEF BoundMatches
<1>3. c >= 1
  BY <1>1, FS_EmptySet
<1>4. 1 \in T /\ T \subseteq 1..c /\ Cardinality(T) <= Budget + 1
  <2>1. 1..c \in SUBSET (1..c) /\ 1 \in 1..c
    BY <1>1, <1>3
  <2> QED BY <1>1, <2>1, BoundTextFits DEF Fits
<1>5. IsFiniteSet(T) /\ Cardinality(T) \in Nat
  BY <1>1, <1>4, LinesAreFinite
<1>6. \A i \in S : ~PrintedBefore(o, i, m)
  <2>1. \A i \in S : i \in Int /\ m <= i /\ m \in Int
    BY <1>1
  <2>2. ASSUME NEW i \in S PROVE FirstMatch(o, i) \in Parsed(o)
    <3>1. Matches(o, o.file[i]) \in SUBSET (1..n) /\ i \in Matches(o, o.file[i])
      BY DEF Matches, Parsed
    <3> QED BY <1>1, <3>1, EndsOfSet DEF FirstMatch, Matches
  <2>3. FirstMatch(o, m) <= m
    <3>1. Matches(o, o.file[m]) \in SUBSET (1..n) /\ m \in Matches(o, o.file[m])
      BY DEF Matches, Parsed
    <3> QED BY <1>1, <3>1, EndsOfSet DEF FirstMatch
  <2>4. \A i \in S : FirstMatch(o, i) \in Int /\ m <= FirstMatch(o, i)
    BY <2>2 DEF Parsed
  <2> QED BY <2>1, <2>3, <2>4 DEF PrintedBefore
<1>7. PrintedAt(o, S, m) = 1
  <2>1. {j \in S : PrintedBefore(o, j, m)} = {}
    BY <1>6
  <2> QED BY <2>1, FS_EmptySet DEF PrintedAt
<1>8. m \in V
  BY <1>4, <1>7 DEF BoundMatches
<1>9. at \in Injection(V, T)
  <2>1. at \in [V -> T]
    BY <1>2
  <2>2. \A a, b \in V : at[a] = at[b] => a = b
    BY <1>2, PositionsDiffer
  <2> QED BY <2>1, <2>2 DEF Injection, IsInjective
<1> HIDE DEF n, c, T, V, at
<1>10. Cardinality(V) <= Cardinality(T)
  BY <1>5, <1>9, FS_Injection
<1>11. IsFiniteSet(V) /\ Cardinality(V) \in Nat
  BY <1>1, <1>2, FS_Subset, FS_CardinalityType
<1>12. Cardinality(V) <= Budget + 1
  BY <1>4, <1>5, <1>10, <1>11, ToolOutputAssumption
<1> QED BY <1>2, <1>8, <1>12 DEF V

LEMMA LogLinesFit ==
  ASSUME NEW o, Output(o)
  PROVE  LogLines(o) \subseteq 1..Size(o) /\ 1 \in LogLines(o)
<1> DEFINE n == Size(o)
           lines == 1..Min({EdgeLines, n}) \cup Max({1, n - EdgeLines + 1})..n \cup Around(Notable(o), n)
<1>1. n \in Nat /\ n >= 2 /\ EdgeLines \in Nat /\ EdgeLines >= 1 /\ MaxLogLines \in Nat /\ MaxLogLines >= 1
  BY ToolOutputAssumption DEF Output
<1>2. Min({EdgeLines, n}) \in Int /\ Min({EdgeLines, n}) >= 1 /\ Min({EdgeLines, n}) <= n
  <2>1. EdgeLines \in Int /\ n \in Int
    BY <1>1
  <2>2. Min({EdgeLines, n}) \in {EdgeLines, n} /\ Min({EdgeLines, n}) <= n
    BY <2>1, LeastOfTwo
  <2> QED BY <1>1, <2>2
<1>3. Max({1, n - EdgeLines + 1}) \in Int /\ Max({1, n - EdgeLines + 1}) >= 1
  <2>1. 1 \in Int /\ n - EdgeLines + 1 \in Int
    BY <1>1
  <2>2. Max({1, n - EdgeLines + 1}) \in {1, n - EdgeLines + 1} /\ Max({1, n - EdgeLines + 1}) >= 1
    BY <2>1, LeastOfTwo
  <2> QED BY <2>1, <2>2
<1>4. 1..Min({EdgeLines, n}) \subseteq 1..n /\ Max({1, n - EdgeLines + 1})..n \subseteq 1..n /\ 1 \in 1..Min({EdgeLines, n})
  BY <1>1, <1>2, <1>3
<1>5. Around(Notable(o), n) \subseteq 1..n
  BY DEF Around
<1>6. lines \in SUBSET (1..n) /\ 1 \in lines
  BY <1>4, <1>5
<1>7. LogLines(o) = FirstOf(lines, MaxLogLines)
  BY DEF LogLines
<1> HIDE DEF n, lines
<1>8. LogLines(o) \subseteq 1..n /\ 1 \in LogLines(o)
  <2>1. n \in Nat /\ MaxLogLines \in Nat
    BY <1>1
  <2>2. FirstOf(lines, MaxLogLines) \subseteq lines
    BY <1>6, <2>1, CutFits
  <2>3. 1 \in FirstOf(lines, MaxLogLines)
    BY <1>1, <1>6, <2>1, CutKeepsEnds
  <2> QED BY <1>6, <1>7, <2>2, <2>3
<1> QED BY <1>8 DEF n

(* Of an output that is taken for a search, V is shown.                     *)
FitsSearch(V, o) ==
  /\ V \subseteq Parsed(o) /\ V \subseteq 1..Size(o) /\ Cardinality(V) <= Budget + 1
  /\ \E i \in V : \A j \in Parsed(o) : i <= j

LEMMA SearchFits ==
  ASSUME NEW o, Output(o), IsSearch(o)
  PROVE  FitsSearch(BoundMatches(o, SearchMatches(o)), o)
<1>1. Size(o) \in Nat /\ Parsed(o) \in SUBSET (1..Size(o))
  BY DEF Output, Parsed
<1>2. Parsed(o) # {}
  <2>1. CASE Parsed(o) = {}
    <3>1. {i \in Parsed(o) : i <= ProbedLines} = {}
      BY <2>1
    <3>2. 0 >= MinMatches
      BY <3>1, FS_EmptySet DEF IsSearch
    <3> QED BY <3>2, ToolOutputAssumption
  <2> QED BY <2>1
<1> DEFINE m == Min(Parsed(o))
<1>3. \A i \in Parsed(o) : m <= i
  BY <1>1, <1>2, EndsOfSet
<1>4. SearchMatches(o) \in SUBSET Parsed(o) /\ m \in SearchMatches(o)
  BY <1>2, SearchMatchesFit
<1> HIDE DEF m
<1>5. /\ BoundMatches(o, SearchMatches(o)) \subseteq SearchMatches(o) /\ m \in BoundMatches(o, SearchMatches(o))
      /\ Cardinality(BoundMatches(o, SearchMatches(o))) <= Budget + 1
  BY <1>3, <1>4, BoundMatchesFit
<1> QED BY <1>1, <1>3, <1>4, <1>5 DEF FitsSearch

LEMMA CompressedFits ==
  ASSUME NEW o, Output(o)
  PROVE  /\ StrategyOf(o) # "search_results" => Fits(Compressed(o), Size(o))
         /\ StrategyOf(o) = "search_results" => FitsSearch(Compressed(o), o)
         /\ StrategyOf(o) \in {"json_array", "diff_or_code", "head_tail"} => Size(o) \in Compressed(o)
         /\ StrategyOf(o) \notin {"none", "passthrough"}
<1>1. Size(o) \in Nat
  BY DEF Output
<1>2. /\ Fits(BoundText(JsonRows(o)), Size(o)) /\ Size(o) \in BoundText(JsonRows(o))
  BY <1>1, JsonRowsFit, BoundTextFits
<1>3. StrategyOf(o) = "search_results" => IsSearch(o)
  BY DEF StrategyOf
<1>4. Fits(BoundText(LogLines(o)), Size(o))
  BY <1>1, LogLinesFit, BoundTextFits
<1>5. Fits(HeadTail(o), Size(o)) /\ Size(o) \in HeadTail(o)
  BY HeadTailFits DEF Output
<1>6. StrategyOf(o) \in {"json_array", "search_results", "diff_or_code", "log", "head_tail"}
  BY DEF StrategyOf
<1>7. CASE StrategyOf(o) = "json_array"
  BY <1>2, <1>7 DEF Compressed
<1>8. CASE StrategyOf(o) = "search_results"
  BY <1>3, <1>8, SearchFits DEF Compressed
<1>9. CASE StrategyOf(o) = "log"
  BY <1>4, <1>9 DEF Compressed
<1>10. CASE StrategyOf(o) \in {"diff_or_code", "head_tail"}
  BY <1>5, <1>10 DEF Compressed
<1> QED BY <1>6, <1>7, <1>8, <1>9, <1>10

OutputInv ==
  /\ output = NoOutput \/ Output(output)
  /\ output = NoOutput => strategy = "none"
  /\ strategy = "none" => blob = NoBlob /\ retrieved = {}
  /\ NothingIsLost

LEMMA OutputInitOK == OutputInit => OutputInv
  BY DEF OutputInit, OutputInv, NothingIsLost

LEMMA RetrieveStep ==
  ASSUME OutputInv, NEW byQuery \in BOOLEAN, NEW maxLines \in Nat, Retrieve(byQuery, maxLines)
  PROVE  OutputInv'
<1> DEFINE selected == IF byQuery THEN Around(Notable(blob), Size(blob)) ELSE 1..Size(blob)
<1>1. /\ retrieved' = FirstOf(selected, maxLines) /\ bounded' = (Cardinality(selected) > maxLines)
      /\ output' = output /\ view' = view /\ strategy' = strategy /\ blob' = blob /\ blob # NoBlob
  BY DEF Retrieve
<1>2. strategy # "none" /\ Output(output)
  BY <1>1 DEF OutputInv
<1>3. ASSUME blob = output, ~bounded' PROVE Notable(output) \subseteq retrieved'
  <2>1. Size(blob) \in Nat /\ Notable(blob) \subseteq 1..Size(blob) /\ Radius \in Nat
    BY <1>2, <1>3, NotableAreLines, ToolOutputAssumption DEF Output
  <2>2. selected \in SUBSET (1..Size(blob))
    BY DEF Around
  <2>3. Notable(blob) \subseteq Around(Notable(blob), Size(blob))
    <3>1. \A i \in Notable(blob) : i \in (i - Radius)..(i + Radius) /\ i \in 1..Size(blob)
      BY <2>1
    <3> QED BY <3>1 DEF Around
  <2>4. Notable(blob) \subseteq selected
    BY <2>1, <2>3
  <2>5. ~(Cardinality(selected) > maxLines)
    BY <1>1, <1>3
  <2> HIDE DEF selected
  <2>6. selected \subseteq retrieved'
    BY <1>1, <2>1, <2>2, <2>5, NothingCut
  <2> QED BY <1>3, <2>4, <2>6
<1> HIDE DEF selected
<1>4. NothingIsLost'
  BY <1>1, <1>2, <1>3 DEF OutputInv, NothingIsLost
<1> QED BY <1>1, <1>2, <1>4 DEF OutputInv

LEMMA OutputStepOK == OutputInv /\ [OutputNext]_outputVars => OutputInv'
<1> SUFFICES ASSUME OutputInv, [OutputNext]_outputVars PROVE OutputInv'
  OBVIOUS
<1>1. CASE ToolReturns
  <2>1. PICK kind \in {"array", "diff_or_code", "log", "other"}, n \in 2..MaxLength, layout \in Layouts :
          \E notable \in [1..n -> BOOLEAN] :
            output' = [kind |-> kind, notable |-> notable, file |-> [i \in 1..n |-> layout[i]]]
    BY <1>1 DEF ToolReturns
  <2>2. PICK notable \in [1..n -> BOOLEAN] :
          output' = [kind |-> kind, notable |-> notable, file |-> [i \in 1..n |-> layout[i]]]
    BY <2>1
  <2>3. n \in Nat /\ n >= 2
    BY ToolOutputAssumption
  <2>4. Len(notable) = n
    BY <2>3
  <2>5. Output(output')
    BY <2>2, <2>3, <2>4 DEF Output, Size
  <2>6. strategy = "none" /\ UNCHANGED <<view, strategy, blob, retrieved, bounded>>
    BY <1>1 DEF ToolReturns, OutputInv
  <2> QED BY <2>5, <2>6 DEF OutputInv, NothingIsLost, Output
<1>2. CASE Passthrough
  <2>1. /\ Output(output) /\ output' = output /\ strategy' = "passthrough" /\ view' = 1..Size(output)
        /\ output # NoOutput /\ blob' = blob /\ retrieved' = retrieved
    BY <1>2 DEF Passthrough, OutputInv
  <2> QED BY <2>1 DEF OutputInv, NothingIsLost
<1>3. CASE Compact
  <2>1. /\ output' = output /\ blob' = output /\ strategy' = StrategyOf(output) /\ view' = Compressed(output)
        /\ retrieved' = {} /\ Size(output) > Budget
    BY <1>3 DEF Compact, OutputInv
  <2>2. output # NoOutput
    <3>1. Size(NoOutput) = 0
      BY DEF Size, NoOutput
    <3> QED BY <2>1, <3>1, ToolOutputAssumption
  <2>3. Output(output)
    BY <2>2 DEF OutputInv
  <2>4. /\ StrategyOf(output) # "search_results" => Fits(Compressed(output), Size(output))
        /\ StrategyOf(output) = "search_results" => FitsSearch(Compressed(output), output)
        /\ StrategyOf(output) \in {"json_array", "diff_or_code", "head_tail"} => Size(output) \in Compressed(output)
        /\ StrategyOf(output) \notin {"none", "passthrough"}
    BY <2>3, CompressedFits
  <2>5. NothingIsLost'
    BY <2>1, <2>4 DEF NothingIsLost, Fits, FitsSearch
  <2> QED BY <2>1, <2>2, <2>3, <2>4, <2>5 DEF OutputInv
<1>4. ASSUME NEW byQuery \in BOOLEAN, NEW maxLines \in {EdgeLines, MaxLength}, Retrieve(byQuery, maxLines)
      PROVE  OutputInv'
  <2>1. maxLines \in Nat
    BY ToolOutputAssumption
  <2> QED BY <1>4, <2>1, RetrieveStep
<1>5. CASE UNCHANGED outputVars
  BY <1>5 DEF outputVars, OutputInv, NothingIsLost
<1> QED BY <1>1, <1>2, <1>3, <1>4, <1>5 DEF OutputNext

(* For any budget that leaves a share to every part, outputs of any length  *)
(* and any spread of files over their lines: what is compressed stays       *)
(* within the budget and keeps its first line, or its first match when it   *)
(* is taken for a search, all of it is stored, and an uncut answer of       *)
(* retrieve_artifact has every notable line (tool-output.ts).               *)
THEOREM CompressionKeepsWhatMatters == OutputSpec => []NothingIsLost
<1>1. OutputInv => NothingIsLost
  BY DEF OutputInv
<1> QED BY <1>1, OutputInitOK, OutputStepOK, PTL DEF OutputSpec
=============================================================================
