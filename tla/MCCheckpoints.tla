--------------------------- MODULE MCCheckpoints ---------------------------
(* Two checkpoints over two files, so that one may be rolled back over the *)
(* other and a call may stop between its two files; two tasks that leave   *)
(* their work on git branches of the same tree; the summaries made of it.  *)
(* "part" says which of the three moves.                                   *)
EXTENDS Checkpoints, PullRequest, TLC

CONSTANTS file1, file2, cp1, cp2, text, task1, task2

VARIABLE part

MCFiles == {file1, file2}
MCIds == {cp1, cp2}
MCTexts == {text}
MCGitTasks == {task1, task2}
Symmetric == Permutations(MCFiles) \cup Permutations(MCIds)

TreeInit ==
  /\ part \in {"checkpoints", "git", "summary"} /\ Init /\ PrInit
  /\ part # "checkpoints" => tree = [f \in Files |-> "absent"]
TreeNext ==
  /\ UNCHANGED part
  /\ \/ part = "checkpoints" /\ Next /\ UNCHANGED prVars
     \/ part = "git" /\ PrNext /\ UNCHANGED vars
     \/ part = "summary" /\ SummaryNext /\ UNCHANGED vars
TreeSpec == TreeInit /\ [][TreeNext]_<<part, vars, prVars>>
=============================================================================
