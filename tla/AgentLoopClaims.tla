-------------------------- MODULE AgentLoopClaims --------------------------
(***************************************************************************)
(* What the documentation and the comments of Forge say of the agent loop  *)
(* and the code does not do; see DoneGateClaims.                           *)
(***************************************************************************)
EXTENDS AgentLoop

(* agent-loop.ts, the redundant-test guard: it blocks "re-running the full *)
(* test/build suite when NOTHING has changed since the last run".  Only    *)
(* write_file and edit_file lift it; a sed -i or a rollback changes the    *)
(* tree and leaves it armed.                                               *)
GuardBlocksOnlyIdleReruns == pc = "calls" /\ Redundant => ~dirty
=============================================================================
