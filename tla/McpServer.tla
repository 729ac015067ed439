----------------------------- MODULE McpServer -----------------------------
(***************************************************************************)
(* The MCP server (mcp/server.ts): JSON-RPC lines on stdin, each handled   *)
(* by its own asynchronous handler, so answers come out in any order; the  *)
(* process exits when stdin ends, whatever is still being handled.         *)
(*                                                                         *)
(* A line is what the dispatcher tells apart: its class, its id and, for a *)
(* request, the method with the fault in its parameters, if any.           *)
(***************************************************************************)
EXTENDS Naturals, Sequences, FiniteSets

CONSTANTS RpcIds,   \* ids a client gives to its requests
          NoId,     \* the id of a notification (undefined)
          NullId,   \* a null id
          MaxLines  \* bound: lines fed to a server that is alone

ASSUME IdsAreDistinct == NoId \notin RpcIds /\ NullId \notin RpcIds /\ NoId # NullId

VARIABLES inbox,     \* lines written to the server's stdin
          read,      \* how many of them the server has read
          handling,  \* handlers in flight: [at, reads: database reads left]
          outbox,    \* responses written to stdout, not yet read
          answered,  \* history: [at, response] of every line written
          server     \* "serving", "exited"

serverVars == <<inbox, read, handling, outbox, answered, server>>

(* dispatchMethod, dispatchToolCall: tools/list, initialize and ping       *)
(* answer at once; a known tool with a taskId reads the database twice     *)
(* (task and snapshot; belief state, made of hypotheses and claims).       *)
Methods == {"tools/list", "tool", "toolWithoutTask", "unknownTool", "callWithoutName", "unknown"}

Line(id, class, method) == [id |-> id, class |-> class, method |-> method]

Lines ==
  { Line(NullId, class, "unknown") : class \in {"notJson", "notRequest"} }
  \cup { Line(id, "request", method) : id \in RpcIds \cup {NoId, NullId}, method \in Methods }

DatabaseReads(line) == IF line.class = "request" /\ line.method = "tool" THEN 2 ELSE 0

Code(line) ==
  IF line.class = "notJson" THEN "PARSE_ERROR"
  ELSE IF line.class = "notRequest" THEN "INVALID_REQUEST"
  ELSE IF line.method \in {"unknownTool", "unknown"} THEN "METHOD_NOT_FOUND"
  ELSE IF line.method \in {"toolWithoutTask", "callWithoutName"} THEN "INVALID_PARAMS"
  ELSE "none"

\* Mutant: a result that has no id is answered nowhere, an error too.
AnswerSilent(line, code) ==
  IF code \notin {"none", "METHOD_NOT_FOUND"} THEN {}
  ELSE {[id |-> IF line.id = NoId THEN NullId ELSE line.id, code |-> code, method |-> line.method]}

(* handleRawRpc: the answer, as a set of at most one response; only a      *)
(* notification that succeeds has none.                                    *)
Answer(line, code) ==
  IF line.id = NoId /\ code = "none" THEN {}
  ELSE {[id |-> IF line.id = NoId THEN NullId ELSE line.id, code |-> code, method |-> line.method]}

-----------------------------------------------------------------------------
(* runMcpServer: stdin 'data'.                                             *)
ReadLine ==
  /\ server = "serving" /\ read < Len(inbox)
  /\ read' = read + 1
  /\ handling' = handling \cup {[at |-> read', reads |-> DatabaseReads(inbox[read'])]}
  /\ UNCHANGED <<inbox, outbox, answered, server>>

HandlerReads(h) ==
  /\ server = "serving" /\ h \in handling /\ h.reads > 0
  /\ handling' = (handling \ {h}) \cup {[h EXCEPT !.reads = @ - 1]}
  /\ UNCHANGED <<inbox, read, outbox, answered, server>>

(* The handler ends: one line is written, or none.                         *)
HandlerEnds(h, code) ==
  /\ server = "serving" /\ h \in handling
  /\ handling' = handling \ {h}
  /\ LET written == Answer(inbox[h.at], code) IN
       /\ outbox' = IF written = {} THEN outbox ELSE Append(outbox, CHOOSE r \in written : TRUE)
       /\ answered' = answered \cup {[at |-> h.at, response |-> r] : r \in written}
  /\ UNCHANGED <<inbox, read, server>>

HandlerReturns(h) == h.reads = 0 /\ HandlerEnds(h, Code(inbox[h.at]))

HandlerThrows(h) == h.reads > 0 /\ HandlerEnds(h, "INTERNAL_ERROR")

(* stdin ends: runMcpServer resolves and `forge mcp serve` calls           *)
(* process.exit(0); the handlers in flight are never heard of again.       *)
ServerExits ==
  /\ server' = "exited"
  /\ handling' = {}
  /\ UNCHANGED <<inbox, read, outbox, answered>>

StdinEnds == server = "serving" /\ read = Len(inbox) /\ ServerExits

(* A server alone, fed by any client: any line may come while it serves.   *)
Feed ==
  /\ server = "serving" /\ Len(inbox) < MaxLines
  /\ \E line \in Lines : inbox' = Append(inbox, line)
  /\ UNCHANGED <<read, handling, outbox, answered, server>>

ServerInit ==
  /\ inbox = <<>> /\ read = 0 /\ handling = {} /\ outbox = <<>> /\ answered = {}
  /\ server = "serving"

ServerNext ==
  \/ ReadLine
  \/ \E h \in handling : HandlerReads(h) \/ HandlerReturns(h) \/ HandlerThrows(h)
  \/ StdinEnds \/ Feed

ServerSpec == ServerInit /\ [][ServerNext]_serverVars
-----------------------------------------------------------------------------
(* While the server runs, each line it has read is being handled or got    *)
(* its one answer, in whatever order the handlers end and also when the    *)
(* database fails; only a notification may go without.                     *)
EveryLineIsAnswered ==
  server = "serving" =>
    \A i \in 1..read :
      \/ \E h \in handling : h.at = i
      \/ Cardinality({a \in answered : a.at = i}) = 1
      \/ inbox[i].id = NoId

(* An answer goes out under the id of its own line, and a line the         *)
(* dispatcher refuses is answered with that code, never with a result.     *)
AnswersFitTheirLines ==
  \A a \in answered :
    /\ inbox[a.at].id \in RpcIds => a.response.id = inbox[a.at].id
    /\ Code(inbox[a.at]) # "none" => a.response.code = Code(inbox[a.at])

(* What every caller of the server can rely on.                            *)
ServerAnswers == EveryLineIsAnswered /\ AnswersFitTheirLines
=============================================================================
