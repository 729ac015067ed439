----------------------------- MODULE MCStorage -----------------------------
(* The components that keep state, one per behaviour: "part" says          *)
(* which one moves, the others stay in their initial state.                *)
EXTENDS StateStore, StoreLifecycle, ArtifactStore, BeliefStore, BeliefEngine,
        FileLedgers, DurableRun, RepoGraph

VARIABLE part

CONSTANTS id1, id2, key, proc1, proc2, path1, path2, bytes1, bytes2, write1, write2,
          claim1, claim2, ev1, ev2, engine1, engine2, entry1, entry2, run1, run2, text1, text2

MCEngines == {engine1, engine2}
MCEntryIds == {entry1, entry2}
MCRuns == {run1, run2}
MCCriteria == {text1, text2}
MCRowIds == {id1, id2}
MCKeys == {key}
MCTaskFiles == {id1, id2}
MCFocus == DOMAIN RepoOf \ {"trace_events"}
MCProcesses == {proc1, proc2}
MCPaths == {path1, path2}
MCBytes == {bytes1, bytes2}
MCWriters == {write1, write2}
MCClaims == {claim1}
MCEvidence == {ev1, ev2}
MCNoMtime == -1

(* Two source files and a test file; "b" calls what "a" defines, and can    *)
(* come to call it on the line of a definition of its own.                  *)
Text(defines, calls) == [defines |-> defines, calls |-> calls, oneLiners |-> {}, imports |-> {}]
OneLiner == [defines |-> {"g"}, calls |-> {}, oneLiners |-> {"f"}, imports |-> {"lib"}]
MCRepoFiles == {"a", "b", "a.test"}
MCContents == {Text({"f"}, {}), Text({}, {"f"}), Text({"f", "g"}, {"f"}), Text({}, {"g"}), OneLiner}
MCFirstContent ==
  [f \in MCRepoFiles |-> CASE f = "a" -> Text({"f"}, {}) [] f = "b" -> Text({}, {"f"}) [] OTHER -> Text({}, {"g"})]
MCMatched == [p \in MCRepoFiles |-> IF p = "a" THEN {"a", "a.test"} ELSE {p}]
MCSuites ==
  <<[path |-> "tests", files |-> {"a.test"}, related |-> {"b"}, topics |-> {"auth"}],
    [path |-> "e2e", files |-> {"b.e2e"}, related |-> {}, topics |-> {}]>>
MCTwinOf == [t \in {"a.test", "b.e2e"} |-> IF t = "a.test" THEN "a" ELSE "b"]
MCBeside == {"a", "b"} \X {"a", "b"}
MCNamedIn == {<<"a.test", "a">>, <<"b.e2e", "g">>}
MCTopicsOf == [f \in MCRepoFiles |-> IF f = "a" THEN {"auth"} ELSE {}]

StorageInit ==
  /\ part \in {"store", "lifecycle", "artifacts", "beliefs", "graph", "diagnosis",
               "ledgers", "durable", "scan"}
  /\ StoreInit /\ LifeInit /\ ArtInit /\ BeliefInit /\ EngineInit
  /\ LedgerInit /\ DurableInit /\ GraphInit
  /\ part # "store" => focus = "repos"

LoopVars == <<ledgerVars, durableVars, graphVars>>

StorageNext ==
  /\ UNCHANGED part
  /\ \/ /\ part = "store" /\ StoreNext
        /\ UNCHANGED <<lifeVars, artVars, beliefVars, engineVars, LoopVars>>
     \/ /\ part = "lifecycle" /\ LifeNext
        /\ UNCHANGED <<storeVars, artVars, beliefVars, engineVars, LoopVars>>
     \/ /\ part = "artifacts" /\ ArtNext
        /\ UNCHANGED <<storeVars, lifeVars, beliefVars, engineVars, LoopVars>>
     \/ /\ part = "beliefs" /\ BeliefNext
        /\ UNCHANGED <<storeVars, lifeVars, artVars, engineVars, LoopVars>>
     \/ /\ \/ part = "graph" /\ ApplyBeliefUpdate
           \/ part = "diagnosis" /\ (Diagnose \/ VerifyGraphClaim \/ MarkClaimsStaleForFiles)
        /\ UNCHANGED <<storeVars, lifeVars, artVars, beliefVars, LoopVars>>
     \/ /\ \/ part = "ledgers" /\ LedgerNext /\ UNCHANGED <<durableVars, graphVars>>
           \/ part = "durable" /\ DurableNext /\ UNCHANGED <<ledgerVars, graphVars>>
           \/ part = "scan" /\ GraphNext /\ UNCHANGED <<ledgerVars, durableVars>>
        /\ UNCHANGED <<storeVars, lifeVars, artVars, beliefVars, engineVars>>

StorageSpec ==
  StorageInit /\ [][StorageNext]_<<part, storeVars, lifeVars, artVars, beliefVars, engineVars, LoopVars>>
=============================================================================
