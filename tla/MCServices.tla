----------------------------- MODULE MCServices -----------------------------
(* The services around the loop: tool servers, models, the local layer,    *)
(* plugins, the two choosers, permissions, tool output, and the front ends *)
(* that start the loop.  "part" says which one moves, the others stay in *)
(* their initial state.                                                   *)
EXTENDS McpStdio, ModelCalls, MessageHistory, LocalModel, PluginRegistry, CapabilityRouter, ProviderChoice,
        PermissionGate, ToolOutput, Dashboard, ReplSession, VerificationPlan

VARIABLE part

CONSTANTS rpc1, rpc2, call1, call2, plugin1, plugin2, capability, domain1, domain2, tests, task1, task2, NoOne

MCRpcIds == {rpc1, rpc2}
MCLocalCalls == {call1, call2}
MCPluginIds == {plugin1, plugin2}
MCCapabilityIds == {capability}
MCTasks == {task1, task2}
MCClassic == <<"task", "evidence", "files">>
MCBelief == <<"belief">>
MCClaimKinds == <<"permission", "other">>
MCClaimFiles == <<{"a"}, {"b"}>>
MCGraphNodes ==
  <<[id |-> "a", path |-> "a"], [id |-> "a:symbol", path |-> "a"], [id |-> "b", path |-> "b"],
    [id |-> "dep", path |-> ""], [id |-> "c", path |-> "c"]>>
MCGraphEdges ==
  <<[source |-> "a", target |-> "a:symbol", type |-> "defines"], [source |-> "b", target |-> "a", type |-> "references"],
    [source |-> "c", target |-> "dep", type |-> "imports"], [source |-> "b", target |-> "dep", type |-> "imports"],
    [source |-> "a", target |-> "c", type |-> "owned_by"]>>
MCDomains == <<domain1, domain2, tests>>
\* No search, one file, two interleaved, a header and gaps, more files than kept,
\* too few lines that parse, and enough of them but too far down.
MCLayouts ==
  {[i \in 1..MaxLength |-> 0], [i \in 1..MaxLength |-> 1], [i \in 1..MaxLength |-> 1 + (i % 2)],
   <<0, 1, 1, 0, 2, 2, 0, 0>>, <<1, 2, 3, 1, 2, 3, 1, 2>>, <<0, 1, 0, 2, 0, 0, 0, 0>>, <<0, 0, 0, 0, 1, 1, 1, 1>>}

ServicesInit ==
  /\ part \in {"server", "stdio", "model", "history", "local", "plugins", "router", "provider", "gate", "output", "dashboard", "repl", "planner"}
  /\ StdioInit /\ ModelInit /\ HistoryInit /\ LocalInit /\ PluginInit /\ RouterInit /\ ChoiceInit
  /\ GateInit /\ OutputInit /\ DashInit /\ SessionInit /\ PlanInit
  /\ part # "model" => format = "openai"
  /\ part # "local" => enabled = "off"

StepOf(p) == part = p /\ UNCHANGED part

ServerPart == StepOf("server") /\ ServerNext /\ UNCHANGED clientVars
StdioPart == StepOf("stdio") /\ StdioNext
SideVars == <<gateVars, outputVars, dashVars, sessionVars, planVars>>

ServicesNext ==
  \/ /\ ServerPart \/ StdioPart
     /\ UNCHANGED <<modelVars, historyVars, localVars, pluginVars, routerVars, choiceVars, SideVars>>
  \/ /\ StepOf("model") /\ ModelNext
     /\ UNCHANGED <<stdioVars, historyVars, localVars, pluginVars, routerVars, choiceVars, SideVars>>
  \/ /\ StepOf("history") /\ HistoryNext
     /\ UNCHANGED <<stdioVars, modelVars, localVars, pluginVars, routerVars, choiceVars, SideVars>>
  \/ /\ StepOf("local") /\ LocalNext
     /\ UNCHANGED <<stdioVars, modelVars, historyVars, pluginVars, routerVars, choiceVars, SideVars>>
  \/ /\ StepOf("plugins") /\ PluginNext
     /\ UNCHANGED <<stdioVars, modelVars, historyVars, localVars, routerVars, choiceVars, SideVars>>
  \/ /\ StepOf("router") /\ (TaskComes \/ Route)
     /\ UNCHANGED <<stdioVars, modelVars, historyVars, localVars, pluginVars, choiceVars, SideVars>>
  \/ /\ StepOf("provider") /\ ChoiceNext
     /\ UNCHANGED <<stdioVars, modelVars, historyVars, localVars, pluginVars, routerVars, SideVars>>
  \/ /\ \/ StepOf("gate") /\ GateNext /\ UNCHANGED <<outputVars, dashVars, sessionVars, planVars>>
        \/ StepOf("output") /\ OutputNext /\ UNCHANGED <<gateVars, dashVars, sessionVars, planVars>>
        \/ StepOf("dashboard") /\ DashNext /\ UNCHANGED <<gateVars, outputVars, sessionVars, planVars>>
        \/ StepOf("repl") /\ SessionNext /\ UNCHANGED <<gateVars, outputVars, dashVars, planVars>>
        \/ StepOf("planner") /\ PlanNext /\ UNCHANGED <<gateVars, outputVars, dashVars, sessionVars>>
     /\ UNCHANGED <<stdioVars, modelVars, historyVars, localVars, pluginVars, routerVars, choiceVars>>

ServicesSpec ==
  /\ ServicesInit
  /\ [][ServicesNext]_<<part, stdioVars, modelVars, historyVars, localVars, pluginVars, routerVars, choiceVars, SideVars>>
  /\ StdioFairness /\ LocalFairness /\ DashFairness
=============================================================================
