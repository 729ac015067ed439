------------------------------ MODULE Requests ------------------------------
(***************************************************************************)
(* What a caller of request() is promised: a call that was made settles,   *)
(* once, with the answer to that very call or with an error, unless the    *)
(* caller's process ends first.  McpStdio is shown to implement it.        *)
(***************************************************************************)
CONSTANT Calls

VARIABLES call,   \* per call: [state, answers: the calls its answer is about]
          alive   \* the caller's process runs

absVars == <<call, alive>>

Fresh == [state |-> "new", answers |-> {}]

AbsInit == call = [c \in Calls |-> Fresh] /\ alive = TRUE

Ask(c) ==
  /\ alive /\ call[c].state = "new"
  /\ call' = [call EXCEPT ![c].state = "open"]
  /\ UNCHANGED alive

Refuse(c) ==
  /\ alive /\ call[c].state = "new"
  /\ call' = [call EXCEPT ![c].state = "failed"]
  /\ UNCHANGED alive

Settled(c) == [state |-> "answered", answers |-> {c}]
Failed == [state |-> "failed", answers |-> {}]

Settle(c) ==
  /\ alive /\ call[c].state = "open"
  /\ call' \in {[call EXCEPT ![c] = Settled(c)], [call EXCEPT ![c] = Failed]}
  /\ UNCHANGED alive

(* Every open call fails at the same moment: the other side has gone.      *)
FailAll ==
  /\ alive
  /\ call' = [c \in Calls |-> IF call[c].state = "open" THEN Failed ELSE call[c]]
  /\ UNCHANGED alive

EndOfCaller ==
  /\ alive /\ alive' = FALSE
  /\ \/ UNCHANGED call
     \/ \E c \in Calls : call[c].state = "new" /\ call' = [call EXCEPT ![c].state = "open"]

AbsNext ==
  \/ \E c \in Calls : Ask(c) \/ Refuse(c) \/ Settle(c)
  \/ FailAll \/ EndOfCaller

AbsSpec == AbsInit /\ [][AbsNext]_absVars /\ \A c \in Calls : WF_absVars(Settle(c))
=============================================================================
