------------------------------ MODULE McpStdio ------------------------------
(***************************************************************************)
(* spawnStdioMcpClient (mcp/client.ts) talking to the server of McpServer  *)
(* through two pipes: calls matched by id, a timer per call, responses     *)
(* split over chunks, lines that are no answer, a child that crashes, is   *)
(* asked to end or is killed, and calls made while the client is closing.  *)
(***************************************************************************)
EXTENDS McpServer

CONSTANTS MaxNoise   \* bound: lines of the child that answer nothing

VARIABLES settled,   \* per call: [state, answers], as the caller's promise has it
          pending,   \* ids with a timer
          half,      \* the first part of a line is in the buffer
          closed,    \* the client saw its child go
          closing,   \* close(): "no", "ended" (stdin.end() called), "killed"
          host,      \* the caller's process runs
          noise

clientVars == <<settled, pending, half, closed, closing, host, noise>>
stdioVars == <<serverVars, clientVars>>

Unsettled == [state |-> "new", answers |-> {}]
Rejected == [state |-> "failed", answers |-> {}]
RequestOf(c) == Line(c, "request", IF c = CHOOSE d \in RpcIds : TRUE THEN "tool" ELSE "tools/list")

-----------------------------------------------------------------------------
(* request(): throws when closed; else a timer, a map entry and a write.   *)
RequestWhenClosed(c) ==
  /\ host /\ settled[c].state = "new" /\ closed
  /\ settled' = [settled EXCEPT ![c] = Rejected]
  /\ UNCHANGED <<serverVars, pending, half, closed, closing, host, noise>>

Request(c) ==
  /\ host /\ settled[c].state = "new" /\ ~closed
  /\ settled' = [settled EXCEPT ![c].state = "open"]
  /\ pending' = pending \cup {c}
  /\ IF server = "serving" /\ closing = "no"
     THEN inbox' = Append(inbox, RequestOf(c)) /\ host' = host
     ELSE \* after stdin.end() or on a broken pipe: dropped, or the stream's
          \* 'error' event, which nobody listens to, ends the process
          inbox' = inbox /\ host' \in BOOLEAN
  /\ UNCHANGED <<read, handling, outbox, answered, server, half, closed, closing, noise>>

Timeout(c) ==
  /\ host /\ c \in pending
  /\ pending' = pending \ {c}
  /\ settled' = [settled EXCEPT ![c] = Rejected]
  /\ UNCHANGED <<serverVars, half, closed, closing, host, noise>>

(* stdout 'data': a chunk ends inside a line, or completes it.             *)
HalfLine ==
  /\ host /\ outbox # <<>> /\ ~half /\ half' = TRUE
  /\ UNCHANGED <<serverVars, settled, pending, closed, closing, host, noise>>

\* Mutant: the answer goes to any call that waits.
DispatchAny(r) ==
  IF pending = {} THEN UNCHANGED <<settled, pending>>
  ELSE LET c == CHOOSE c \in pending : TRUE IN
         /\ pending' = pending \ {c}
         /\ settled' = [settled EXCEPT ![c] = IF r.code = "none"
                                              THEN [state |-> "answered", answers |-> {r.id}] ELSE Rejected]

(* dispatch: unparseable lines, lines without an id and answers nobody     *)
(* waits for are dropped.                                                  *)
Dispatch(r) ==
  IF r.id \notin pending THEN UNCHANGED <<settled, pending>>
  ELSE /\ pending' = pending \ {r.id}
       /\ settled' = [settled EXCEPT ![r.id] = IF r.code = "none"
                                               THEN [state |-> "answered", answers |-> {r.id}]
                                               ELSE Rejected]

(* A line that answers nothing is dropped, unless it is the JSON "null":    *)
(* parsed.id throws in an async function nobody awaits, and the rejection   *)
(* may end the process.                                                     *)
NoiseLine == [id |-> NullId, code |-> "none", method |-> "unknown"]

DataLine ==
  /\ host /\ outbox # <<>>
  /\ Dispatch(Head(outbox))
  /\ host' \in IF Head(outbox) = NoiseLine THEN BOOLEAN ELSE {TRUE}
  /\ outbox' = Tail(outbox) /\ half' = FALSE
  /\ UNCHANGED <<inbox, read, handling, answered, server, closed, closing, noise>>

Noise ==
  /\ server = "serving" /\ noise < MaxNoise /\ noise' = noise + 1
  /\ outbox' = Append(outbox, NoiseLine)
  /\ UNCHANGED <<inbox, read, handling, answered, server, settled, pending, half, closed, closing, host>>

\* Mutant: the calls that wait are left to their timers, which are cleared.
ChildClosedForgets ==
  /\ host /\ server = "exited" /\ outbox = <<>> /\ ~closed
  /\ closed' = TRUE
  /\ UNCHANGED <<serverVars, settled, pending, half, closing, host, noise>>

(* 'close' comes after the child's stdout was read to its end; 'error'     *)
(* (the child could not be started) does the same.                         *)
ChildClosed ==
  /\ host /\ server = "exited" /\ outbox = <<>> /\ ~closed
  /\ closed' = TRUE
  /\ settled' = [c \in RpcIds |-> IF c \in pending THEN Rejected ELSE settled[c]]
  /\ pending' = {}
  /\ UNCHANGED <<serverVars, half, closing, host, noise>>

ChildCrashes ==
  /\ server = "serving" /\ ServerExits
  /\ UNCHANGED clientVars

(* close(): stdin.end(), then SIGKILL after 1500 ms.                       *)
Close ==
  /\ host /\ ~closed /\ closing = "no"
  /\ closing' = "ended"
  /\ UNCHANGED <<serverVars, settled, pending, half, closed, host, noise>>

ChildSeesEnd ==
  /\ closing = "ended" /\ StdinEnds
  /\ UNCHANGED clientVars

Kill ==
  /\ host /\ closing = "ended" /\ ~closed
  /\ closing' = "killed"
  /\ server' = "exited" /\ handling' = {}
  /\ UNCHANGED <<inbox, read, outbox, answered, settled, pending, half, closed, host, noise>>

ServerSteps ==
  /\ \/ ReadLine
     \/ \E h \in handling : HandlerReads(h) \/ HandlerReturns(h) \/ HandlerThrows(h)
  /\ UNCHANGED clientVars

StdioInit ==
  /\ ServerInit
  /\ settled = [c \in RpcIds |-> Unsettled]
  /\ pending = {} /\ half = FALSE /\ closed = FALSE /\ closing = "no" /\ host = TRUE /\ noise = 0

StdioNext ==
  \/ \E c \in RpcIds : RequestWhenClosed(c) \/ Request(c) \/ Timeout(c)
  \/ HalfLine \/ DataLine \/ Noise
  \/ ChildClosed \/ ChildCrashes \/ Close \/ ChildSeesEnd \/ Kill
  \/ ServerSteps

(* The event loop runs a timer that is due, as long as the process lives.  *)
StdioFairness == \A c \in RpcIds : WF_stdioVars(Timeout(c))

StdioSpec == StdioInit /\ [][StdioNext]_stdioVars /\ StdioFairness
-----------------------------------------------------------------------------
(* A call has a timer exactly while its promise is open: no answer, error  *)
(* or close leaves a timer behind or a promise without one, so none of     *)
(* them settles twice.                                                     *)
TimersGuardOpenCalls == \A c \in RpcIds : c \in pending <=> settled[c].state = "open"

(* Once the child is gone nothing waits for it, and an answer that a       *)
(* caller got was written by a handler of the server for that request.     *)
NoCallOutlivesChild ==
  /\ closed => pending = {}
  /\ \A c \in RpcIds : settled[c].state = "answered" =>
       \E a \in answered : inbox[a.at] = RequestOf(c) /\ a.response.id = c /\ a.response.code = "none"

(* A promise settles once, by its own answer, error, timer or close.       *)
CallsSettleOnce == TimersGuardOpenCalls /\ NoCallOutlivesChild

(* Refinement: the promise of Requests, with its fairness.                 *)
Promise == INSTANCE Requests WITH Calls <- RpcIds, call <- settled, alive <- host
RequestsImplemented == Promise!AbsSpec
=============================================================================
