----------------------------- MODULE WireProofs -----------------------------
(* What goes to and fro with other processes.  The tool server answers      *)
(* what it reads, a call of the client settles once, and the client         *)
(* implements the promise of Requests; the calls a model streams are those  *)
(* that are executed, and the requests made of the history are valid: for   *)
(* any ids, lines, attempts, turns and compactions, and any order of        *)
(* answers, crashes, timeouts and chunks.                                   *)
EXTENDS McpStdio, ModelCalls, MessageHistory, FiniteSetTheorems, SequenceTheorems, WellFoundedInduction, TLAPS

Codes == {"none", "PARSE_ERROR", "INVALID_REQUEST", "METHOD_NOT_FOUND", "INVALID_PARAMS", "INTERNAL_ERROR"}
Responses == [id : RpcIds \cup {NullId}, code : Codes, method : Methods]

(* The server                                                              *)
LinesOK == inbox \in Seq(Lines) /\ read \in Nat /\ read <= Len(inbox)

(* A line has one handler at most; one that still has to read the database *)
(* handles a line the dispatcher accepted.                                 *)
HandlersOK ==
  /\ handling \subseteq [at : Nat, reads : Nat]
  /\ \A h \in handling : h.at \in 1 .. read /\ (h.reads > 0 => Code(inbox[h.at]) = "none")
  /\ \A g, h \in handling : g.at = h.at => g = h

(* A line with an answer has one, and no handler any more.                 *)
AnswersOK ==
  /\ answered \subseteq [at : Nat, response : Responses]
  /\ \A a \in answered : a.at \in 1 .. read /\ \A h \in handling : h.at # a.at
  /\ \A a, b \in answered : a.at = b.at => a = b

NoneLost ==
  server = "serving" =>
    \A i \in 1 .. read :
      \/ \E h \in handling : h.at = i
      \/ \E a \in answered : a.at = i
      \/ inbox[i].id = NoId

ServerInv == LinesOK /\ HandlersOK /\ AnswersOK /\ NoneLost /\ AnswersFitTheirLines

-----------------------------------------------------------------------------

LEMMA LineTypes ==
  ASSUME NEW line \in Lines
  PROVE  /\ line.id \in RpcIds \cup {NoId, NullId} /\ line.method \in Methods
         /\ Code(line) \in Codes
         /\ DatabaseReads(line) \in Nat
         /\ DatabaseReads(line) > 0 => Code(line) = "none"
BY DEF Lines, Line, Methods, Code, Codes, DatabaseReads

LEMMA AnswerTypes ==
  ASSUME NEW line \in Lines, NEW code \in Codes
  PROVE  /\ Answer(line, code) \subseteq Responses
         /\ \A r, s \in Answer(line, code) : r = s
         /\ Answer(line, code) = {} => line.id = NoId
         /\ \A r \in Answer(line, code) :
              r.code = code /\ (line.id \in RpcIds => r.id = line.id)
<1> DEFINE r == [id |-> IF line.id = NoId THEN NullId ELSE line.id, code |-> code, method |-> line.method]
<1>1. r \in Responses /\ r.code = code /\ (line.id \in RpcIds => r.id = line.id)
  BY LineTypes, IdsAreDistinct DEF Responses
<1>2. Answer(line, code) \in {{}, {r}} /\ (Answer(line, code) = {} => line.id = NoId)
  BY DEF Answer
<1> HIDE DEF r
<1> QED BY <1>1, <1>2

LEMMA ServerInitOK == ServerInit => ServerInv
<1> SUFFICES ASSUME ServerInit PROVE ServerInv
  OBVIOUS
<1>1. LinesOK
  BY EmptySeq DEF ServerInit, LinesOK
<1> QED BY <1>1 DEF ServerInit, ServerInv, HandlersOK, AnswersOK, NoneLost, AnswersFitTheirLines

(* A line that arrives changes nothing of what was read.                   *)
LEMMA LineArrives ==
  ASSUME ServerInv, NEW line \in Lines, inbox' = Append(inbox, line),
         UNCHANGED <<read, handling, answered, server>>
  PROVE  ServerInv'
<1>1. inbox' \in Seq(Lines) /\ Len(inbox') = Len(inbox) + 1 /\ \A i \in 1 .. Len(inbox) : inbox'[i] = inbox[i]
  BY AppendProperties DEF ServerInv, LinesOK
<1>2. LinesOK' /\ \A i \in 1 .. read : inbox'[i] = inbox[i]
  BY <1>1, LenProperties DEF ServerInv, LinesOK
<1>3. HandlersOK' /\ AnswersOK' /\ NoneLost'
  BY <1>2 DEF ServerInv, HandlersOK, AnswersOK, NoneLost
<1>4. AnswersFitTheirLines'
  BY <1>2 DEF ServerInv, AnswersOK, AnswersFitTheirLines
<1> QED BY <1>2, <1>3, <1>4 DEF ServerInv

LEMMA ReadStep ==
  ASSUME ServerInv, ReadLine
  PROVE  ServerInv'
<1> DEFINE h == [at |-> read', reads |-> DatabaseReads(inbox[read'])]
<1>1. read' = read + 1 /\ read' \in 1 .. Len(inbox) /\ LinesOK'
  BY LenProperties DEF ReadLine, ServerInv, LinesOK
<1>2. inbox[read'] \in Lines
  BY <1>1, ElementOfSeq DEF ServerInv, LinesOK
<1>3. handling' = handling \cup {h} /\ h \in [at : Nat, reads : Nat] /\ (h.reads > 0 => Code(inbox[h.at]) = "none")
  BY <1>1, <1>2, LineTypes DEF ReadLine
<1>4. \A g \in handling : g.at # h.at /\ g.at \in 1 .. read'
  BY <1>1 DEF ServerInv, HandlersOK, LinesOK
<1>5. HandlersOK'
  BY <1>1, <1>3, <1>4 DEF ReadLine, ServerInv, HandlersOK
<1>6. AnswersOK'
  BY <1>1, <1>3 DEF ReadLine, ServerInv, LinesOK, AnswersOK
<1>7. NoneLost'
  <2> SUFFICES ASSUME NEW i \in 1 .. read'
               PROVE  \/ \E g \in handling' : g.at = i
                      \/ \E a \in answered' : a.at = i
                      \/ inbox'[i].id = NoId
    BY DEF NoneLost
  <2>1. CASE i = read'
    <3>1. h \in handling' /\ h.at = i
      BY <2>1, <1>3
    <3> QED BY <3>1
  <2>2. CASE i \in 1 .. read
    BY <2>2, <1>3 DEF ReadLine, ServerInv, NoneLost
  <2>3. i = read' \/ i \in 1 .. read
    BY <1>1 DEF ServerInv, LinesOK
  <2> QED BY <2>1, <2>2, <2>3
<1>8. AnswersFitTheirLines'
  BY DEF ReadLine, ServerInv, AnswersFitTheirLines
<1> QED BY <1>1, <1>5, <1>6, <1>7, <1>8 DEF ServerInv

LEMMA HandlerReadsStep ==
  ASSUME ServerInv, NEW h \in handling, HandlerReads(h)
  PROVE  ServerInv'
<1> DEFINE g == [h EXCEPT !.reads = @ - 1]
<1>1. handling' = (handling \ {h}) \cup {g}
  BY DEF HandlerReads
<1>2. h \in [at : Nat, reads : Nat] /\ h.reads > 0
  BY DEF HandlerReads, ServerInv, HandlersOK
<1>3. g \in [at : Nat, reads : Nat] /\ g.at = h.at
  BY <1>2
<1>4. LinesOK'
  BY DEF HandlerReads, ServerInv, LinesOK
<1>5. HandlersOK'
  BY <1>1, <1>2, <1>3 DEF HandlerReads, ServerInv, HandlersOK
<1>6. AnswersOK'
  BY <1>1, <1>3 DEF HandlerReads, ServerInv, AnswersOK
<1>7. NoneLost'
  BY <1>1, <1>3 DEF HandlerReads, ServerInv, NoneLost
<1>8. AnswersFitTheirLines'
  BY DEF HandlerReads, ServerInv, AnswersFitTheirLines
<1> QED BY <1>4, <1>5, <1>6, <1>7, <1>8 DEF ServerInv

LEMMA HandlerEndsStep ==
  ASSUME ServerInv, NEW h \in handling, NEW code \in Codes, HandlerEnds(h, code),
         Code(inbox[h.at]) # "none" => code = Code(inbox[h.at])
  PROVE  ServerInv'
<1> DEFINE line == inbox[h.at]
           written == Answer(line, code)
<1>1. /\ handling' = handling \ {h}
      /\ answered' = answered \cup {[at |-> h.at, response |-> r] : r \in written}
      /\ UNCHANGED <<inbox, read, server>>
  BY DEF HandlerEnds
<1>2. h \in [at : Nat, reads : Nat] /\ h.at \in 1 .. read /\ LinesOK'
  BY <1>1 DEF ServerInv, HandlersOK, LinesOK
<1>3. line \in Lines
  <2>1. h.at \in 1 .. Len(inbox)
    BY <1>2, LenProperties DEF ServerInv, LinesOK
  <2> QED BY <2>1, ElementOfSeq DEF ServerInv, LinesOK
<1>4. /\ written \subseteq Responses
      /\ \A r, s \in written : r = s
      /\ written = {} => line.id = NoId
      /\ \A r \in written : r.code = code /\ (line.id \in RpcIds => r.id = line.id)
  BY <1>3, AnswerTypes
<1> HIDE DEF written
<1>5. HandlersOK'
  BY <1>1 DEF ServerInv, HandlersOK
<1>6. AnswersOK'
  BY <1>1, <1>2, <1>4 DEF ServerInv, AnswersOK, HandlersOK
<1>7. NoneLost'
  <2> SUFFICES ASSUME server' = "serving", NEW i \in 1 .. read
               PROVE  \/ \E g \in handling' : g.at = i
                      \/ \E a \in answered' : a.at = i
                      \/ inbox[i].id = NoId
    BY <1>1 DEF NoneLost
  <2>1. CASE i = h.at
    <3>1. ASSUME NEW r \in written PROVE \E a \in answered' : a.at = i
      <4> DEFINE a == [at |-> h.at, response |-> r]
      <4>1. a \in answered' /\ a.at = i
        BY <2>1, <1>1
      <4> QED BY <4>1
    <3> QED BY <2>1, <3>1, <1>4
  <2>2. CASE i # h.at
    BY <2>2, <1>1 DEF ServerInv, NoneLost
  <2> QED BY <2>1, <2>2
<1>8. AnswersFitTheirLines'
  <2> SUFFICES ASSUME NEW a \in answered'
               PROVE  /\ inbox[a.at].id \in RpcIds => a.response.id = inbox[a.at].id
                      /\ Code(inbox[a.at]) # "none" => a.response.code = Code(inbox[a.at])
    BY <1>1 DEF AnswersFitTheirLines, Code
  <2>1. CASE a \in answered
    BY <2>1 DEF ServerInv, AnswersFitTheirLines
  <2>2. ASSUME NEW r \in written, a = [at |-> h.at, response |-> r] PROVE a.at = h.at /\ a.response = r
    BY <2>2
  <2> QED BY <2>1, <2>2, <1>1, <1>4
<1> QED BY <1>2, <1>5, <1>6, <1>7, <1>8 DEF ServerInv

(* The server is gone, asked to or not: what was answered stays answered.  *)
LEMMA ExitStep ==
  ASSUME ServerInv, server' = "exited", handling' = {}, UNCHANGED <<inbox, read, answered>>
  PROVE  ServerInv'
BY DEF ServerInv, LinesOK, HandlersOK, AnswersOK, NoneLost, AnswersFitTheirLines

LEMMA HandlerStep ==
  ASSUME ServerInv, NEW h \in handling, HandlerReads(h) \/ HandlerReturns(h) \/ HandlerThrows(h)
  PROVE  ServerInv'
<1>1. inbox[h.at] \in Lines
  <2>1. h.at \in 1 .. Len(inbox)
    BY LenProperties DEF ServerInv, LinesOK, HandlersOK
  <2> QED BY <2>1, ElementOfSeq DEF ServerInv, LinesOK
<1>2. CASE HandlerReads(h)
  BY <1>2, HandlerReadsStep
<1>3. CASE HandlerReturns(h)
  BY <1>1, <1>3, LineTypes, HandlerEndsStep DEF HandlerReturns
<1>4. CASE HandlerThrows(h)
  BY <1>4, HandlerEndsStep DEF HandlerThrows, Codes, ServerInv, HandlersOK
<1> QED BY <1>2, <1>3, <1>4

LEMMA ServerStepOK == ServerInv /\ [ServerNext]_serverVars => ServerInv'
<1> SUFFICES ASSUME ServerInv, [ServerNext]_serverVars PROVE ServerInv'
  OBVIOUS
<1>1. CASE ReadLine
  BY <1>1, ReadStep
<1>2. ASSUME NEW h \in handling, HandlerReads(h) \/ HandlerReturns(h) \/ HandlerThrows(h) PROVE ServerInv'
  BY <1>2, HandlerStep
<1>3. CASE StdinEnds
  BY <1>3, ExitStep DEF StdinEnds, ServerExits
<1>4. CASE Feed
  BY <1>4, LineArrives DEF Feed
<1>5. CASE UNCHANGED serverVars
  BY <1>5 DEF serverVars, ServerInv, LinesOK, HandlersOK, AnswersOK, NoneLost, AnswersFitTheirLines, Code
<1> QED BY <1>1, <1>2, <1>3, <1>4, <1>5 DEF ServerNext

LEMMA InvAnswers == ServerInv => ServerAnswers
<1> SUFFICES ASSUME ServerInv, server = "serving", NEW i \in 1 .. read,
                    ~(\E h \in handling : h.at = i), inbox[i].id # NoId
             PROVE  Cardinality({a \in answered : a.at = i}) = 1
  BY DEF ServerAnswers, EveryLineIsAnswered, ServerInv
<1>1. PICK a \in answered : a.at = i
  BY DEF ServerInv, NoneLost
<1>2. {b \in answered : b.at = i} = {a}
  BY <1>1 DEF ServerInv, AnswersOK
<1> QED BY <1>2, FS_Singleton

(* Whatever comes on stdin, every line the server has read is being        *)
(* handled or has its one answer, under its own id, with the dispatcher's  *)
(* code when it was refused (runMcpServer, handleRawRpc).                  *)
THEOREM LinesAreAnswered == ServerSpec => []ServerAnswers
BY ServerInitOK, ServerStepOK, InvAnswers, PTL DEF ServerSpec
-----------------------------------------------------------------------------
(* The client                                                              *)
Opened == [state |-> "open", answers |-> {}]
Answered(c) == [state |-> "answered", answers |-> {c}]

CallsTyped ==
  /\ DOMAIN settled = RpcIds /\ settled = [c \in RpcIds |-> settled[c]]
  /\ \A c \in RpcIds : settled[c] \in {Unsettled, Opened, Rejected, Answered(c)}
  /\ pending \subseteq RpcIds

(* The child reads requests of this client only, and what it wrote is an   *)
(* answer of a handler or a line nobody asked for.                         *)
PipesOK ==
  /\ \A i \in 1 .. Len(inbox) : \E c \in RpcIds : inbox[i] = RequestOf(c)
  /\ outbox \in Seq(Responses)
  /\ \A i \in 1 .. Len(outbox) : outbox[i].id = NullId \/ \E a \in answered : a.response = outbox[i]

StdioInv == ServerInv /\ CallsTyped /\ PipesOK /\ TimersGuardOpenCalls /\ NoCallOutlivesChild

LEMMA RequestIsALine == \A c \in RpcIds : RequestOf(c) \in Lines /\ RequestOf(c).id = c
BY DEF RequestOf, Lines, Line, Methods

(* The one response an answer is made of.                                  *)
LEMMA AnswerWritten ==
  ASSUME NEW line \in Lines, NEW code \in Codes, Answer(line, code) # {}
  PROVE  /\ (CHOOSE r \in Answer(line, code) : TRUE) \in Answer(line, code)
         /\ (CHOOSE r \in Answer(line, code) : TRUE) \in Responses
BY AnswerTypes

LEMMA StdioInitOK == StdioInit => StdioInv
<1> SUFFICES ASSUME StdioInit PROVE StdioInv
  OBVIOUS
<1>1. ServerInv
  BY ServerInitOK DEF StdioInit
<1>2. CallsTyped
  BY DEF StdioInit, CallsTyped
<1>3. PipesOK
  BY EmptySeq DEF StdioInit, ServerInit, PipesOK
<1>4. TimersGuardOpenCalls /\ NoCallOutlivesChild
  BY DEF StdioInit, TimersGuardOpenCalls, NoCallOutlivesChild, Unsettled
<1> QED BY <1>1, <1>2, <1>3, <1>4 DEF StdioInv

(* A step of the child: it writes what a handler answered, and the         *)
(* client's calls are as they were.                                        *)
LEMMA ChildStep ==
  ASSUME StdioInv, ServerInv', UNCHANGED clientVars, inbox' = inbox,
         answered \subseteq answered', PipesOK'
  PROVE  StdioInv'
<1>1. CallsTyped' /\ TimersGuardOpenCalls'
  BY DEF StdioInv, CallsTyped, TimersGuardOpenCalls, clientVars
<1>2. NoCallOutlivesChild'
  BY DEF StdioInv, NoCallOutlivesChild, clientVars, RequestOf, Line
<1> QED BY <1>1, <1>2 DEF StdioInv

LEMMA HandlerWrites ==
  ASSUME StdioInv, NEW h \in handling, NEW code \in Codes, HandlerEnds(h, code)
  PROVE  PipesOK' /\ answered \subseteq answered' /\ inbox' = inbox
<1> DEFINE line == inbox[h.at]
           written == Answer(line, code)
           r == CHOOSE x \in written : TRUE
<1>1. line \in Lines
  <2>1. h.at \in 1 .. Len(inbox)
    BY LenProperties DEF StdioInv, ServerInv, LinesOK, HandlersOK
  <2> QED BY <2>1, ElementOfSeq DEF StdioInv, ServerInv, LinesOK
<1>2. /\ inbox' = inbox
      /\ outbox' = IF written = {} THEN outbox ELSE Append(outbox, r)
      /\ answered' = answered \cup {[at |-> h.at, response |-> x] : x \in written}
  BY DEF HandlerEnds
<1>3. written # {} => r \in written /\ r \in Responses
  BY <1>1, AnswerWritten
<1> HIDE DEF written, r
<1>4. CASE written = {}
  BY <1>2, <1>4 DEF StdioInv, PipesOK, RequestOf, Line
<1>5. CASE written # {}
  <2> DEFINE b == [at |-> h.at, response |-> r]
  <2>1. b \in answered' /\ b.response = r
    BY <1>2, <1>3, <1>5
  <2>2. /\ outbox' \in Seq(Responses) /\ Len(outbox') = Len(outbox) + 1
        /\ \A i \in 1 .. Len(outbox) : outbox'[i] = outbox[i]
        /\ outbox'[Len(outbox) + 1] = r
    BY <1>2, <1>3, <1>5, AppendProperties DEF StdioInv, PipesOK
  <2>3. ASSUME NEW i \in 1 .. Len(outbox')
        PROVE  outbox'[i].id = NullId \/ \E a \in answered' : a.response = outbox'[i]
    <3>1. CASE i = Len(outbox) + 1
      BY <3>1, <2>1, <2>2
    <3>2. CASE i \in 1 .. Len(outbox)
      BY <3>2, <2>2, <1>2 DEF StdioInv, PipesOK
    <3>3. i = Len(outbox) + 1 \/ i \in 1 .. Len(outbox)
      BY <2>2, LenProperties DEF StdioInv, PipesOK
    <3> QED BY <3>1, <3>2, <3>3
  <2> QED BY <2>2, <2>3, <1>2 DEF StdioInv, PipesOK, RequestOf, Line
<1> QED BY <1>2, <1>4, <1>5

LEMMA ServerStepsStep ==
  ASSUME StdioInv, ServerSteps
  PROVE  StdioInv'
<1>1. CASE ReadLine
  <2>1. ServerInv'
    BY <1>1, ReadStep DEF StdioInv
  <2>2. PipesOK' /\ inbox' = inbox /\ answered' = answered
    BY <1>1 DEF StdioInv, PipesOK, ReadLine, RequestOf, Line
  <2> QED BY <2>1, <2>2, ChildStep DEF ServerSteps
<1>2. ASSUME NEW h \in handling, HandlerReads(h) \/ HandlerReturns(h) \/ HandlerThrows(h)
      PROVE  StdioInv'
  <2>1. ServerInv'
    BY <1>2, HandlerStep DEF StdioInv
  <2>2. inbox[h.at] \in Lines
    <3>1. h.at \in 1 .. Len(inbox)
      BY LenProperties DEF StdioInv, ServerInv, LinesOK, HandlersOK
    <3> QED BY <3>1, ElementOfSeq DEF StdioInv, ServerInv, LinesOK
  <2>3. PipesOK' /\ inbox' = inbox /\ answered \subseteq answered'
    <3>1. CASE HandlerReads(h)
      BY <3>1 DEF StdioInv, PipesOK, HandlerReads, RequestOf, Line
    <3>2. CASE HandlerReturns(h)
      BY <3>2, <2>2, LineTypes, HandlerWrites DEF HandlerReturns
    <3>3. CASE HandlerThrows(h)
      BY <3>3, HandlerWrites DEF HandlerThrows, Codes
    <3> QED BY <1>2, <3>1, <3>2, <3>3
  <2> QED BY <2>1, <2>3, ChildStep DEF ServerSteps
<1> QED BY <1>1, <1>2 DEF ServerSteps

(* The child ends, is killed or crashes.                                   *)
LEMMA ChildEndsStep ==
  ASSUME StdioInv, server' = "exited", handling' = {}, UNCHANGED <<inbox, read, outbox, answered>>,
         UNCHANGED <<settled, pending, closed>>
  PROVE  StdioInv'
<1>1. ServerInv'
  BY ExitStep DEF StdioInv
<1>2. CallsTyped' /\ PipesOK' /\ TimersGuardOpenCalls' /\ NoCallOutlivesChild'
  BY DEF StdioInv, CallsTyped, PipesOK, TimersGuardOpenCalls, NoCallOutlivesChild, RequestOf, Line
<1> QED BY <1>1, <1>2 DEF StdioInv

-----------------------------------------------------------------------------
LEMMA RefusedStep ==
  ASSUME StdioInv, NEW c \in RpcIds, RequestWhenClosed(c)
  PROVE  StdioInv'
<1>1. ServerInv'
  BY DEF StdioInv, RequestWhenClosed, serverVars, ServerInv, LinesOK, HandlersOK, AnswersOK, NoneLost,
         AnswersFitTheirLines, Code
<1>2. settled[c] = Unsettled /\ c \notin pending
  BY DEF StdioInv, CallsTyped, RequestWhenClosed, TimersGuardOpenCalls, Opened, Rejected, Answered
<1>3. CallsTyped' /\ TimersGuardOpenCalls'
  BY <1>2 DEF StdioInv, CallsTyped, TimersGuardOpenCalls, RequestWhenClosed, Rejected
<1>4. PipesOK'
  BY DEF StdioInv, PipesOK, RequestWhenClosed, serverVars, RequestOf, Line
<1>5. NoCallOutlivesChild'
  BY <1>2 DEF StdioInv, CallsTyped, NoCallOutlivesChild, RequestWhenClosed, serverVars, Rejected, RequestOf, Line
<1> QED BY <1>1, <1>3, <1>4, <1>5 DEF StdioInv

LEMMA RequestStep ==
  ASSUME StdioInv, NEW c \in RpcIds, Request(c)
  PROVE  StdioInv'
<1>1. settled[c] = Unsettled /\ c \notin pending /\ ~closed
  BY DEF StdioInv, CallsTyped, Request, TimersGuardOpenCalls, Opened, Rejected, Answered
<1>2. settled' = [settled EXCEPT ![c] = Opened] /\ pending' = pending \cup {c} /\ closed' = closed
  <2>1. [settled EXCEPT ![c].state = "open"] = [settled EXCEPT ![c] = Opened]
    <3>1. [settled[c] EXCEPT !.state = "open"] = Opened
      BY <1>1 DEF Unsettled, Opened
    <3> QED BY <3>1
  <2> QED BY <1>1, <2>1 DEF Request
<1>3. CallsTyped' /\ TimersGuardOpenCalls'
  BY <1>2 DEF StdioInv, CallsTyped, TimersGuardOpenCalls, Opened
<1>4. inbox' = inbox \/ inbox' = Append(inbox, RequestOf(c))
  BY DEF Request
<1>5. /\ ServerInv'
      /\ \A i \in 1 .. read : inbox'[i] = inbox[i]
      /\ \A i \in 1 .. Len(inbox') : \E d \in RpcIds : inbox'[i] = RequestOf(d)
  <2>1. CASE inbox' = inbox
    BY <2>1 DEF StdioInv, Request, ServerInv, LinesOK, HandlersOK, AnswersOK, NoneLost, AnswersFitTheirLines,
                Code, PipesOK
  <2>2. CASE inbox' = Append(inbox, RequestOf(c))
    <3>1. ServerInv'
      BY <2>2, RequestIsALine, LineArrives DEF StdioInv, Request
    <3>2. /\ Len(inbox') = Len(inbox) + 1 /\ inbox'[Len(inbox) + 1] = RequestOf(c)
          /\ \A i \in 1 .. Len(inbox) : inbox'[i] = inbox[i]
      BY <2>2, RequestIsALine, AppendProperties DEF StdioInv, ServerInv, LinesOK
    <3>3. \A i \in 1 .. read : inbox'[i] = inbox[i]
      BY <3>2, LenProperties DEF StdioInv, ServerInv, LinesOK
    <3>4. ASSUME NEW i \in 1 .. Len(inbox') PROVE \E d \in RpcIds : inbox'[i] = RequestOf(d)
      <4>1. i = Len(inbox) + 1 \/ i \in 1 .. Len(inbox)
        BY <3>2, LenProperties DEF StdioInv, ServerInv, LinesOK
      <4> QED BY <4>1, <3>2 DEF StdioInv, PipesOK
    <3> QED BY <3>1, <3>3, <3>4
  <2> QED BY <1>4, <2>1, <2>2
<1>6. PipesOK'
  BY <1>5 DEF StdioInv, PipesOK, Request, RequestOf, Line
<1>7. NoCallOutlivesChild'
  <2>1. \A a \in answered : inbox'[a.at] = inbox[a.at]
    BY <1>5 DEF StdioInv, ServerInv, AnswersOK
  <2>2. \A d \in RpcIds : settled'[d].state = "answered" => settled[d].state = "answered"
    BY <1>2 DEF StdioInv, CallsTyped, Opened
  <2>3. answered' = answered
    BY DEF Request
  <2> QED BY <1>1, <1>2, <2>1, <2>2, <2>3 DEF StdioInv, NoCallOutlivesChild, RequestOf, Line
<1> QED BY <1>3, <1>5, <1>6, <1>7 DEF StdioInv

(* Some open calls settle, without an answer or with an answer of the      *)
(* child.                                                                  *)
LEMMA SettleStep ==
  ASSUME StdioInv, ServerInv', PipesOK', UNCHANGED <<inbox, answered>>,
         NEW gone, pending' = pending \ gone,
         settled' = [c \in RpcIds |-> settled'[c]],
         \A c \in RpcIds : c \notin pending \/ c \notin gone => settled'[c] = settled[c],
         \A c \in RpcIds : c \in pending /\ c \in gone =>
           \/ settled'[c] = Rejected
           \/ /\ settled'[c] = Answered(c)
              /\ \E a \in answered : inbox[a.at] = RequestOf(c) /\ a.response.id = c /\ a.response.code = "none",
         closed' => pending' = {}
  PROVE  StdioInv'
<1>1. CallsTyped'
  BY DEF StdioInv, CallsTyped
<1>2. TimersGuardOpenCalls'
  BY DEF StdioInv, CallsTyped, TimersGuardOpenCalls, Rejected, Answered
<1>3. NoCallOutlivesChild'
  BY DEF StdioInv, NoCallOutlivesChild, Rejected, Answered, RequestOf, Line
<1> QED BY <1>1, <1>2, <1>3 DEF StdioInv
(* What the head of outbox says of a call that waits for it is the answer  *)
(* of a handler to that call.                                              *)
LEMMA HeadAnswers ==
  ASSUME StdioInv, outbox # <<>>, Head(outbox).id \in pending
  PROVE  \E a \in answered : a.response = Head(outbox) /\ inbox[a.at] = RequestOf(Head(outbox).id)
<1>1. Head(outbox) = outbox[1] /\ 1 \in 1 .. Len(outbox)
  BY HeadTailProperties, EmptySeq, LenProperties DEF StdioInv, PipesOK
<1>2. Head(outbox).id \in RpcIds /\ Head(outbox).id # NullId
  BY IdsAreDistinct DEF StdioInv, CallsTyped
<1>3. PICK a \in answered : a.response = Head(outbox)
  BY <1>1, <1>2 DEF StdioInv, PipesOK
<1>4. PICK c \in RpcIds : inbox[a.at] = RequestOf(c)
  <2>1. a.at \in 1 .. Len(inbox)
    BY LenProperties DEF StdioInv, ServerInv, LinesOK, AnswersOK
  <2> QED BY <2>1 DEF StdioInv, PipesOK
<1>5. a.response.id = c
  BY <1>4, RequestIsALine DEF StdioInv, ServerInv, AnswersFitTheirLines
<1> QED BY <1>3, <1>4, <1>5

LEMMA OutboxTail ==
  ASSUME StdioInv, outbox # <<>>, outbox' = Tail(outbox), UNCHANGED <<inbox, answered>>
  PROVE  PipesOK'
<1>1. /\ outbox' \in Seq(Responses)
      /\ Len(outbox') = Len(outbox) - 1
      /\ \A i \in 1 .. Len(outbox') : outbox'[i] = outbox[i + 1]
  BY HeadTailProperties, EmptySeq DEF StdioInv, PipesOK
<1>2. \A i \in 1 .. Len(outbox') : i + 1 \in 1 .. Len(outbox)
  BY <1>1, LenProperties DEF StdioInv, PipesOK
<1> QED BY <1>1, <1>2 DEF StdioInv, PipesOK, RequestOf, Line

LEMMA DataLineStep ==
  ASSUME StdioInv, DataLine
  PROVE  StdioInv'
<1> DEFINE r == Head(outbox)
<1>1. ServerInv'
  BY DEF StdioInv, DataLine, ServerInv, LinesOK, HandlersOK, AnswersOK, NoneLost, AnswersFitTheirLines, Code
<1>2. PipesOK'
  BY OutboxTail DEF DataLine
<1>3. CASE r.id \notin pending
  <2>1. UNCHANGED <<inbox, answered, settled, pending, closed>>
    BY <1>3 DEF DataLine, Dispatch
  <2>2. CallsTyped' /\ TimersGuardOpenCalls' /\ NoCallOutlivesChild'
    BY <2>1 DEF StdioInv, CallsTyped, TimersGuardOpenCalls, NoCallOutlivesChild, RequestOf, Line
  <2> QED BY <1>1, <1>2, <2>2 DEF StdioInv
<1>4. CASE r.id \in pending
  <2>1. PICK a \in answered : a.response = r /\ inbox[a.at] = RequestOf(r.id)
    BY <1>4, HeadAnswers DEF DataLine
  <2> HIDE DEF r
  <2>2. /\ pending' = pending \ {r.id}
        /\ settled' = [settled EXCEPT ![r.id] = IF r.code = "none" THEN Answered(r.id) ELSE Rejected]
    BY <1>4 DEF DataLine, Dispatch, Answered, r
  <2>3. \A c \in RpcIds : c \notin pending \/ c \notin {r.id} => settled'[c] = settled[c]
    BY <1>4, <2>2 DEF StdioInv, CallsTyped
  <2>4. \A c \in RpcIds : c \in pending /\ c \in {r.id} =>
          \/ settled'[c] = Rejected
          \/ /\ settled'[c] = Answered(c)
             /\ \E b \in answered : inbox[b.at] = RequestOf(c) /\ b.response.id = c /\ b.response.code = "none"
    BY <1>4, <2>1, <2>2 DEF StdioInv, CallsTyped
  <2>5. settled' = [c \in RpcIds |-> settled'[c]]
    BY <2>2 DEF StdioInv, CallsTyped
  <2>6. closed' => pending' = {}
    BY <2>2 DEF DataLine, StdioInv, NoCallOutlivesChild
  <2> QED BY <1>1, <1>2, <2>2, <2>3, <2>4, <2>5, <2>6, SettleStep DEF DataLine
<1> QED BY <1>3, <1>4

LEMMA TimeoutStep ==
  ASSUME StdioInv, NEW c \in RpcIds, Timeout(c)
  PROVE  StdioInv'
<1>1. ServerInv' /\ PipesOK'
  BY DEF StdioInv, Timeout, serverVars, ServerInv, LinesOK, HandlersOK, AnswersOK, NoneLost,
         AnswersFitTheirLines, Code, PipesOK, RequestOf, Line
<1>2. /\ c \in pending /\ pending' = pending \ {c}
      /\ settled' = [settled EXCEPT ![c] = Rejected]
      /\ UNCHANGED <<inbox, answered, closed>>
  BY DEF Timeout, serverVars
<1>3. /\ settled' = [d \in RpcIds |-> settled'[d]]
      /\ \A d \in RpcIds : d \notin pending \/ d \notin {c} => settled'[d] = settled[d]
      /\ settled'[c] = Rejected
      /\ closed' => pending' = {}
  BY <1>2 DEF StdioInv, CallsTyped, NoCallOutlivesChild
<1> QED BY <1>1, <1>2, <1>3, SettleStep

LEMMA ChildClosedStep ==
  ASSUME StdioInv, ChildClosed
  PROVE  StdioInv'
<1>1. ServerInv' /\ PipesOK'
  BY DEF StdioInv, ChildClosed, serverVars, ServerInv, LinesOK, HandlersOK, AnswersOK, NoneLost,
         AnswersFitTheirLines, Code, PipesOK, RequestOf, Line
<1>2. /\ pending' = pending \ pending
      /\ settled' = [c \in RpcIds |-> IF c \in pending THEN Rejected ELSE settled[c]]
      /\ UNCHANGED <<inbox, answered>>
  BY DEF ChildClosed, serverVars
<1>3. settled' = [d \in RpcIds |-> settled'[d]]
  BY <1>2
<1> QED BY <1>1, <1>2, <1>3, SettleStep

LEMMA NoiseStep ==
  ASSUME StdioInv, Noise
  PROVE  StdioInv'
<1> DEFINE r == NoiseLine
<1>1. ServerInv'
  BY DEF StdioInv, Noise, ServerInv, LinesOK, HandlersOK, AnswersOK, NoneLost, AnswersFitTheirLines, Code
<1>2. r \in Responses
  BY DEF NoiseLine, Responses, Codes, Methods
<1>3. /\ outbox' \in Seq(Responses) /\ Len(outbox') = Len(outbox) + 1
      /\ \A i \in 1 .. Len(outbox) : outbox'[i] = outbox[i]
      /\ outbox'[Len(outbox) + 1] = r
  BY <1>2, AppendProperties DEF StdioInv, PipesOK, Noise
<1>4. \A i \in 1 .. Len(outbox') : i = Len(outbox) + 1 \/ i \in 1 .. Len(outbox)
  BY <1>3, LenProperties DEF StdioInv, PipesOK
<1>5. PipesOK'
  BY <1>3, <1>4 DEF NoiseLine, StdioInv, PipesOK, Noise, RequestOf, Line
<1>6. CallsTyped' /\ TimersGuardOpenCalls' /\ NoCallOutlivesChild'
  BY DEF StdioInv, CallsTyped, TimersGuardOpenCalls, NoCallOutlivesChild, Noise, RequestOf, Line
<1> QED BY <1>1, <1>5, <1>6 DEF StdioInv

(* Nothing but the buffer or the way the client is closing changes.        *)
LEMMA QuietStep ==
  ASSUME StdioInv, UNCHANGED <<serverVars, settled, pending, closed>>
  PROVE  StdioInv'
<1>1. ServerInv'
  BY DEF StdioInv, serverVars, ServerInv, LinesOK, HandlersOK, AnswersOK, NoneLost, AnswersFitTheirLines, Code
<1>2. CallsTyped' /\ TimersGuardOpenCalls'
  BY DEF StdioInv, CallsTyped, TimersGuardOpenCalls
<1>3. PipesOK' /\ NoCallOutlivesChild'
  BY DEF StdioInv, serverVars, PipesOK, NoCallOutlivesChild, RequestOf, Line
<1> QED BY <1>1, <1>2, <1>3 DEF StdioInv

LEMMA StdioStepOK == StdioInv /\ [StdioNext]_stdioVars => StdioInv'
<1> SUFFICES ASSUME StdioInv, [StdioNext]_stdioVars PROVE StdioInv'
  OBVIOUS
<1>1. ASSUME NEW c \in RpcIds, RequestWhenClosed(c) \/ Request(c) \/ Timeout(c) PROVE StdioInv'
  BY <1>1, RefusedStep, RequestStep, TimeoutStep
<1>2. CASE HalfLine \/ Close
  BY <1>2, QuietStep DEF HalfLine, Close
<1>3. CASE DataLine
  BY <1>3, DataLineStep
<1>4. CASE Noise
  BY <1>4, NoiseStep
<1>5. CASE ChildClosed
  BY <1>5, ChildClosedStep
<1>6. CASE ChildCrashes \/ ChildSeesEnd
  BY <1>6, ChildEndsStep DEF ChildCrashes, ChildSeesEnd, StdinEnds, ServerExits, clientVars
<1>7. CASE Kill
  BY <1>7, ChildEndsStep DEF Kill
<1>8. CASE ServerSteps
  BY <1>8, ServerStepsStep
<1>9. CASE UNCHANGED stdioVars
  BY <1>9, QuietStep DEF stdioVars, clientVars
<1> QED BY <1>1, <1>2, <1>3, <1>4, <1>5, <1>6, <1>7, <1>8, <1>9 DEF StdioNext

LEMMA StdioInvariant == StdioSpec => []StdioInv
BY StdioInitOK, StdioStepOK, PTL DEF StdioSpec

(* A promise of the client has a timer exactly while it is open, so it     *)
(* settles once, nothing waits for a child that is gone, and the answer a  *)
(* caller gets is one a handler of the server wrote for that very request, *)
(* whatever crashes, times out or comes split or late (request, dispatch,  *)
(* failAll).                                                               *)
THEOREM ClientCallsSettleOnce == StdioSpec => []CallsSettleOnce
<1>1. StdioInv => CallsSettleOnce
  BY DEF StdioInv, CallsSettleOnce
<1> QED BY <1>1, StdioInvariant, PTL

(* Between a client and a server in two processes the server still answers *)
(* every line it has read.                                                 *)
THEOREM ServerAnswersClient == StdioSpec => []ServerAnswers
<1>1. StdioInv => ServerAnswers
  BY InvAnswers DEF StdioInv
<1> QED BY <1>1, StdioInvariant, PTL

-----------------------------------------------------------------------------
(* Every step of the client is a step of the promise, or none of it.       *)
LEMMA StdioStepIsPromiseStep ==
  ASSUME StdioInv, [StdioNext]_stdioVars
  PROVE  [Promise!AbsNext]_(Promise!absVars)
<1> USE DEF Promise!absVars, Promise!AbsNext
<1>1. ASSUME NEW c \in RpcIds, RequestWhenClosed(c) PROVE Promise!Refuse(c)
  <2>1. settled[c] = Unsettled
    BY <1>1 DEF StdioInv, CallsTyped, RequestWhenClosed, Opened, Rejected, Answered
  <2>2. [settled EXCEPT ![c].state = "failed"] = [settled EXCEPT ![c] = Rejected]
    <3>1. [settled[c] EXCEPT !.state = "failed"] = Rejected
      BY <2>1 DEF Unsettled, Rejected
    <3> QED BY <3>1
  <2> QED BY <1>1, <2>2 DEF RequestWhenClosed, Promise!Refuse
<1>2. ASSUME NEW c \in RpcIds, Request(c) PROVE Promise!Ask(c) \/ Promise!EndOfCaller
  BY <1>2 DEF Request, Promise!Ask, Promise!EndOfCaller
<1>3. ASSUME NEW c \in RpcIds, Timeout(c) PROVE Promise!Settle(c)
  BY <1>3 DEF StdioInv, TimersGuardOpenCalls, Timeout, Promise!Settle, Promise!Failed, Rejected
<1>4. CASE DataLine
  <2> DEFINE c == Head(outbox).id
  <2>1. CASE c \notin pending
    BY <1>4, <2>1 DEF DataLine, Dispatch, Promise!EndOfCaller
  <2>2. CASE c \in pending
    <3>1. c \in RpcIds /\ settled[c].state = "open"
      BY <2>2 DEF StdioInv, CallsTyped, TimersGuardOpenCalls
    <3>2. Head(outbox) # NoiseLine
      BY <3>1, IdsAreDistinct DEF NoiseLine
    <3>3. host' = host
      BY <1>4, <3>2 DEF DataLine
    <3>4. Promise!Settle(c)
      BY <1>4, <2>2, <3>1, <3>3 DEF DataLine, Dispatch, Promise!Settle, Promise!Failed, Promise!Settled, Rejected
    <3> QED BY <3>1, <3>4
  <2> QED BY <2>1, <2>2
<1>5. CASE ChildClosed
  BY <1>5 DEF StdioInv, TimersGuardOpenCalls, ChildClosed, Promise!FailAll, Promise!Failed, Rejected
<1>6. CASE HalfLine \/ Noise \/ ChildCrashes \/ Close \/ ChildSeesEnd \/ Kill \/ ServerSteps
  BY <1>6 DEF HalfLine, Noise, ChildCrashes, Close, ChildSeesEnd, Kill, ServerSteps, clientVars
<1>7. CASE UNCHANGED stdioVars
  BY <1>7 DEF stdioVars, clientVars
<1> QED BY <1>1, <1>2, <1>3, <1>4, <1>5, <1>6, <1>7 DEF StdioNext

(* The client of two pipes implements the promise of Requests, its         *)
(* liveness aside: a call opens once, settles once with its own answer or  *)
(* an error, and never again (the safety of RequestsImplemented).          *)
THEOREM ClientImplementsPromise == StdioSpec => Promise!AbsInit /\ [][Promise!AbsNext]_(Promise!absVars)
<1>1. StdioInit => Promise!AbsInit
  BY DEF StdioInit, Promise!AbsInit, Unsettled, Promise!Fresh
<1>2. StdioInv /\ [StdioNext]_stdioVars => [Promise!AbsNext]_(Promise!absVars)
  BY StdioStepIsPromiseStep
<1> QED BY <1>1, <1>2, StdioInvariant, PTL DEF StdioSpec
-----------------------------------------------------------------------------
(* ModelCalls.  The provider's map is in step with what this response      *)
(* started, and a part is only ever added to the call it was sent for.     *)
PendingCall == [id : Nat, parts : Seq(Nat)]
StreamIsGathered ==
  /\ sent \in Seq(Nat) /\ pendingToolCalls \in Seq(PendingCall)
  /\ Len(pendingToolCalls) = Len(sent)
  /\ \A i \in DOMAIN sent :
       /\ pendingToolCalls[i].id = sent[i]
       /\ \A k \in DOMAIN pendingToolCalls[i].parts : pendingToolCalls[i].parts[k] = sent[i]

ModelInv ==
  /\ format \in {"anthropic", "openai"} /\ made \in Nat /\ attempt \in Nat
  /\ ending \in {"open", "cut", "complete"}
  /\ StreamIsGathered
  /\ CallsAreOfThisResponse /\ NoResponseIsHalved

LEMMA NothingStarted ==
  ASSUME pendingToolCalls' = <<>>, sent' = <<>>
  PROVE  StreamIsGathered'
<1>1. sent' \in Seq(Nat) /\ pendingToolCalls' \in Seq(PendingCall)
  OBVIOUS
<1>2. Len(pendingToolCalls') = Len(sent') /\ DOMAIN sent' = {}
  OBVIOUS
<1> QED BY <1>1, <1>2 DEF StreamIsGathered

LEMMA NoCallsToShow ==
  ASSUME result.calls = {}, result.sent = {}
  PROVE  CallsAreOfThisResponse /\ NoResponseIsHalved
  BY DEF CallsAreOfThisResponse, NoResponseIsHalved

(* What the calls handed out have in common, for either way of ending.     *)
LEMMA CallsOfMap ==
  ASSUME StreamIsGathered, NEW some \in SUBSET DOMAIN pendingToolCalls, NEW kinds,
         NEW calls,
         \A c \in calls : \E j \in some : c = CallOf(pendingToolCalls[j], kinds[j]),
         \A j \in some : CallOf(pendingToolCalls[j], kinds[j]) \in calls
  PROVE  /\ \A c \in calls : c.id \in ToSet(sent) /\ c.parts \subseteq {c.id}
         /\ some = DOMAIN pendingToolCalls => {c.id : c \in calls} = ToSet(sent)
<1>1. DOMAIN pendingToolCalls = DOMAIN sent
  BY DEF StreamIsGathered
<1>2. ASSUME NEW j \in some
      PROVE  LET c == CallOf(pendingToolCalls[j], kinds[j])
             IN c.id = sent[j] /\ c.id \in ToSet(sent) /\ c.parts \subseteq {c.id}
  <2>1. pendingToolCalls[j].id = sent[j] /\ j \in DOMAIN sent
    BY <1>1 DEF StreamIsGathered
  <2>2. ToSet(pendingToolCalls[j].parts) \subseteq {sent[j]}
    BY <2>1 DEF StreamIsGathered, ToSet
  <2>3. sent[j] \in ToSet(sent)
    BY <2>1 DEF ToSet
  <2> QED BY <2>1, <2>2, <2>3 DEF CallOf
<1>3. ASSUME some = DOMAIN pendingToolCalls PROVE {c.id : c \in calls} = ToSet(sent)
  <2>1. ASSUME NEW i \in DOMAIN sent PROVE sent[i] \in {c.id : c \in calls}
    BY <1>1, <1>2, <1>3, <2>1
  <2>2. ToSet(sent) \subseteq {c.id : c \in calls}
    BY <2>1 DEF ToSet
  <2>3. {c.id : c \in calls} \subseteq ToSet(sent)
    BY <1>2
  <2> QED BY <2>2, <2>3
<1> QED BY <1>2, <1>3

LEMMA ModelInitOK == ModelInit => ModelInv
<1> SUFFICES ASSUME ModelInit PROVE ModelInv
  OBVIOUS
<1>1. StreamIsGathered
  BY DEF ModelInit, StreamIsGathered
<1>2. CallsAreOfThisResponse /\ NoResponseIsHalved
  BY NoCallsToShow DEF ModelInit, NoResult
<1> QED BY <1>1, <1>2 DEF ModelInit, ModelInv

LEMMA ResultUntouched ==
  ASSUME ModelInv, UNCHANGED <<result, format>>
  PROVE  CallsAreOfThisResponse' /\ NoResponseIsHalved'
  BY DEF ModelInv, CallsAreOfThisResponse, NoResponseIsHalved

LEMMA StreamUntouched ==
  ASSUME ModelInv, UNCHANGED <<pendingToolCalls, sent>>
  PROVE  StreamIsGathered'
<1> DEFINE gathered(map, ids) ==
      /\ ids \in Seq(Nat) /\ map \in Seq(PendingCall)
      /\ Len(map) = Len(ids)
      /\ \A i \in DOMAIN ids :
           /\ map[i].id = ids[i]
           /\ \A k \in DOMAIN map[i].parts : map[i].parts[k] = ids[i]
<1>1. gathered(pendingToolCalls, sent)
  BY DEF ModelInv, StreamIsGathered
<1>2. gathered(pendingToolCalls', sent')
  BY <1>1
<1> QED BY <1>2 DEF StreamIsGathered

LEMMA StartCallStep == ModelInv /\ StartCall => ModelInv'
<1> SUFFICES ASSUME ModelInv, StartCall PROVE ModelInv'
  OBVIOUS
<1> DEFINE new == [id |-> made', parts |-> <<>>]
<1>1. made' \in Nat
  BY DEF ModelInv, StartCall
<1>2. /\ sent \in Seq(Nat) /\ pendingToolCalls \in Seq(PendingCall)
      /\ Len(pendingToolCalls) = Len(sent) /\ Len(sent) \in Nat
  BY DEF ModelInv, StreamIsGathered
<1>3. new \in PendingCall /\ new.id = made' /\ DOMAIN new.parts = {}
  BY <1>1 DEF PendingCall
<1>4. sent' = Append(sent, made') /\ pendingToolCalls' = Append(pendingToolCalls, new)
  BY DEF StartCall
<1> HIDE DEF new
<1>5. /\ sent' \in Seq(Nat) /\ Len(sent') = Len(sent) + 1 /\ sent'[Len(sent) + 1] = made'
      /\ \A i \in 1..Len(sent) : sent'[i] = sent[i]
  BY <1>1, <1>2, <1>4
<1>6. /\ pendingToolCalls' \in Seq(PendingCall) /\ Len(pendingToolCalls') = Len(sent) + 1
      /\ pendingToolCalls'[Len(sent) + 1] = new
      /\ \A i \in 1..Len(sent) : pendingToolCalls'[i] = pendingToolCalls[i]
  BY <1>2, <1>3, <1>4
<1>7. ASSUME NEW i \in DOMAIN sent'
      PROVE  /\ pendingToolCalls'[i].id = sent'[i]
             /\ \A k \in DOMAIN pendingToolCalls'[i].parts : pendingToolCalls'[i].parts[k] = sent'[i]
  <2>1. i = Len(sent) + 1 \/ i \in 1..Len(sent)
    BY <1>2, <1>5
  <2>2. CASE i = Len(sent) + 1
    BY <1>3, <1>5, <1>6, <2>2
  <2>3. CASE i \in 1..Len(sent)
    <3>1. pendingToolCalls'[i] = pendingToolCalls[i] /\ sent'[i] = sent[i] /\ i \in DOMAIN sent
      BY <1>2, <1>5, <1>6, <2>3
    <3> QED BY <3>1 DEF ModelInv, StreamIsGathered
  <2> QED BY <2>1, <2>2, <2>3
<1>8. StreamIsGathered'
  BY <1>5, <1>6, <1>7 DEF StreamIsGathered
<1>9. CallsAreOfThisResponse' /\ NoResponseIsHalved'
  BY ResultUntouched DEF StartCall
<1> QED BY <1>1, <1>8, <1>9 DEF ModelInv, StartCall

LEMMA ArgumentPartStep == ModelInv /\ ArgumentPart => ModelInv'
<1> SUFFICES ASSUME ModelInv, ArgumentPart PROVE ModelInv'
  OBVIOUS
<1>1. PICK id \in ToSet(sent) :
        /\ format = "anthropic" => id = Last(sent)
        /\ pendingToolCalls' = [i \in DOMAIN pendingToolCalls |->
             IF i \in Target(id) THEN [pendingToolCalls[i] EXCEPT !.parts = Append(@, id)]
             ELSE pendingToolCalls[i]]
  BY DEF ArgumentPart
<1>2. /\ sent \in Seq(Nat) /\ pendingToolCalls \in Seq(PendingCall)
      /\ Len(pendingToolCalls) = Len(sent) /\ Len(sent) \in Nat /\ sent' = sent
      /\ DOMAIN pendingToolCalls = 1..Len(sent) /\ DOMAIN sent = 1..Len(sent)
      /\ \A i \in DOMAIN sent :
           /\ pendingToolCalls[i].id = sent[i]
           /\ \A k \in DOMAIN pendingToolCalls[i].parts : pendingToolCalls[i].parts[k] = sent[i]
  BY DEF ModelInv, StreamIsGathered, ArgumentPart
<1>3. id \in Nat
  BY <1>1, <1>2 DEF ToSet
<1>4. ASSUME NEW i \in DOMAIN pendingToolCalls, i \in Target(id) PROVE sent[i] = id
  <2>1. CASE format = "openai"
    BY <1>2, <1>4, <2>1 DEF Target
  <2>2. CASE format # "openai"
    <3>1. i = Len(sent) /\ id = sent[Len(sent)]
      BY <1>1, <1>2, <1>4, <2>2 DEF Target, Last, ModelInv
    <3> QED BY <3>1
  <2> QED BY <2>1, <2>2
<1>5. ASSUME NEW i \in DOMAIN pendingToolCalls
      PROVE  /\ pendingToolCalls'[i] \in PendingCall
             /\ pendingToolCalls'[i].id = sent[i]
             /\ \A k \in DOMAIN pendingToolCalls'[i].parts : pendingToolCalls'[i].parts[k] = sent[i]
  <2> DEFINE old == pendingToolCalls[i]
  <2>1. /\ old \in PendingCall /\ old.id = sent[i]
        /\ \A k \in DOMAIN old.parts : old.parts[k] = sent[i]
    BY <1>2
  <2>2. pendingToolCalls'[i] = IF i \in Target(id) THEN [old EXCEPT !.parts = Append(@, id)] ELSE old
    BY <1>1
  <2> HIDE DEF old
  <2>3. CASE i \notin Target(id)
    BY <2>1, <2>2, <2>3
  <2>4. CASE i \in Target(id)
    <3>1. sent[i] = id
      BY <1>4, <2>4
    <3>2. /\ pendingToolCalls'[i] \in PendingCall
          /\ pendingToolCalls'[i].id = old.id /\ pendingToolCalls'[i].parts = Append(old.parts, id)
      BY <1>3, <2>1, <2>2, <2>4 DEF PendingCall
    <3>3. old.parts \in Seq(Nat)
      BY <2>1 DEF PendingCall
    <3>4. \A k \in DOMAIN Append(old.parts, id) : Append(old.parts, id)[k] = id
      BY <1>3, <2>1, <3>1, <3>3
    <3> QED BY <2>1, <3>1, <3>2, <3>4
  <2> QED BY <2>3, <2>4
<1>6. /\ DOMAIN pendingToolCalls' = 1..Len(sent)
      /\ pendingToolCalls' \in [1..Len(sent) -> PendingCall]
  BY <1>1, <1>2, <1>5
<1>7. pendingToolCalls' \in Seq(PendingCall)
  BY <1>2, <1>6, SeqDef
<1>8. Len(pendingToolCalls') = Len(sent)
  BY <1>2, <1>6, <1>7
<1>9. StreamIsGathered'
  BY <1>2, <1>5, <1>7, <1>8 DEF StreamIsGathered
<1>10. CallsAreOfThisResponse' /\ NoResponseIsHalved'
  BY ResultUntouched DEF ArgumentPart
<1> QED BY <1>9, <1>10 DEF ModelInv, ArgumentPart

LEMMA AnthropicEndsStep == ModelInv /\ AnthropicEnds => ModelInv'
<1> SUFFICES ASSUME ModelInv, AnthropicEnds PROVE ModelInv'
  OBVIOUS
<1>1. PICK kinds \in [DOMAIN pendingToolCalls -> {"whole", "partial", "empty", "undefined"}] :
        LET dropped == \E i \in DOMAIN kinds : kinds[i] = "undefined"
        IN result' = [finish |-> FinishOf(Emitted(kinds), dropped), calls |-> Emitted(kinds),
                      sent |-> ToSet(sent), cut |-> ending = "cut"]
  BY DEF AnthropicEnds
<1> DEFINE some == {k \in DOMAIN pendingToolCalls : kinds[k] # "undefined"}
           calls == Emitted(kinds)
           dropped == \E i \in DOMAIN kinds : kinds[i] = "undefined"
<1>2. /\ some \in SUBSET DOMAIN pendingToolCalls
      /\ \A c \in calls : \E j \in some : c = CallOf(pendingToolCalls[j], kinds[j])
      /\ \A j \in some : CallOf(pendingToolCalls[j], kinds[j]) \in calls
  BY DEF Emitted
<1>3. ~dropped => some = DOMAIN pendingToolCalls
  BY <1>1
<1>4. /\ result'.calls = calls /\ result'.sent = ToSet(sent)
      /\ dropped => result'.finish = "length"
  BY <1>1 DEF FinishOf
<1>5. StreamIsGathered
  BY DEF ModelInv
<1> HIDE DEF some, calls, dropped
<1>6. /\ \A c \in calls : c.id \in ToSet(sent) /\ c.parts \subseteq {c.id}
      /\ some = DOMAIN pendingToolCalls => {c.id : c \in calls} = ToSet(sent)
  BY <1>2, <1>5, CallsOfMap
<1>7. CallsAreOfThisResponse'
  BY <1>4, <1>6 DEF CallsAreOfThisResponse
<1>8. NoResponseIsHalved'
  BY <1>3, <1>4, <1>6 DEF NoResponseIsHalved, AnthropicEnds
<1>9. StreamIsGathered'
  BY StreamUntouched DEF AnthropicEnds
<1> QED BY <1>7, <1>8, <1>9 DEF ModelInv, AnthropicEnds

LEMMA OpenAiEndsStep == ModelInv /\ OpenAiEnds => ModelInv'
<1> SUFFICES ASSUME ModelInv, OpenAiEnds PROVE ModelInv'
  OBVIOUS
<1>1. PICK finish \in {"tool_calls", "stop", "length"} :
        /\ result'.calls = IF finish # "tool_calls" THEN {}
                           ELSE {CallOf(t, IF Len(t.parts) = 2 THEN "whole" ELSE "empty") : t \in ToSet(pendingToolCalls)}
        /\ result'.sent = ToSet(sent)
  BY DEF OpenAiEnds
<1> DEFINE kinds == [i \in DOMAIN pendingToolCalls |-> IF Len(pendingToolCalls[i].parts) = 2 THEN "whole" ELSE "empty"]
           calls == {CallOf(t, IF Len(t.parts) = 2 THEN "whole" ELSE "empty") : t \in ToSet(pendingToolCalls)}
<1>2. /\ \A c \in calls : \E j \in DOMAIN pendingToolCalls : c = CallOf(pendingToolCalls[j], kinds[j])
      /\ \A j \in DOMAIN pendingToolCalls : CallOf(pendingToolCalls[j], kinds[j]) \in calls
  BY DEF ToSet
<1>3. StreamIsGathered
  BY DEF ModelInv
<1> HIDE DEF kinds
<1>4. /\ \A c \in calls : c.id \in ToSet(sent) /\ c.parts \subseteq {c.id}
      /\ {c.id : c \in calls} = ToSet(sent)
  <2> HIDE DEF calls
  <2> QED BY <1>2, <1>3, CallsOfMap
<1>5. result'.calls = {} \/ result'.calls = calls
  BY <1>1
<1> HIDE DEF calls
<1>6. CallsAreOfThisResponse'
  BY <1>1, <1>4, <1>5 DEF CallsAreOfThisResponse
<1>7. format' = "openai"
  BY DEF OpenAiEnds
<1>8. NoResponseIsHalved'
  BY <1>1, <1>4, <1>5, <1>7 DEF NoResponseIsHalved
<1>9. StreamIsGathered'
  BY StreamUntouched DEF OpenAiEnds
<1> QED BY <1>6, <1>8, <1>9 DEF ModelInv, OpenAiEnds

LEMMA StreamFailsStep == ModelInv /\ (StreamFails \/ Complete) => ModelInv'
<1> SUFFICES ASSUME ModelInv, StreamFails \/ Complete PROVE ModelInv'
  OBVIOUS
<1>1. CASE Complete
  <2>1. StreamIsGathered'
    BY <1>1, NothingStarted DEF Complete, BeginStream, Cleared
  <2>2. result'.calls = {} /\ result'.sent = {}
    BY <1>1 DEF Complete, NoResult
  <2>3. CallsAreOfThisResponse' /\ NoResponseIsHalved'
    BY <2>2 DEF CallsAreOfThisResponse, NoResponseIsHalved
  <2> QED BY <1>1, <2>1, <2>3 DEF Complete, ModelInv, BeginStream
<1>2. CASE StreamFails /\ attempt < MaxAttempts
  <2>1. StreamIsGathered'
    BY <1>2, NothingStarted DEF StreamFails, BeginStream, Cleared
  <2>2. CallsAreOfThisResponse' /\ NoResponseIsHalved'
    BY <1>2, ResultUntouched DEF StreamFails
  <2> QED BY <1>2, <2>1, <2>2 DEF StreamFails, ModelInv, BeginStream
<1>3. CASE StreamFails /\ ~(attempt < MaxAttempts)
  <2>1. StreamIsGathered'
    BY <1>3, StreamUntouched DEF StreamFails
  <2>2. result'.calls = {} /\ result'.sent = {}
    BY <1>3 DEF StreamFails, NoResult
  <2>3. CallsAreOfThisResponse' /\ NoResponseIsHalved'
    BY <2>2 DEF CallsAreOfThisResponse, NoResponseIsHalved
  <2> QED BY <1>3, <2>1, <2>3 DEF StreamFails, ModelInv
<1> QED BY <1>1, <1>2, <1>3

LEMMA ModelStepOK == ModelInv /\ [ModelNext]_modelVars => ModelInv'
<1> SUFFICES ASSUME ModelInv, [ModelNext]_modelVars PROVE ModelInv'
  OBVIOUS
<1>1. CASE Stops \/ UNCHANGED modelVars
  <2>1. StreamIsGathered'
    BY <1>1, StreamUntouched DEF Stops, modelVars
  <2>2. CallsAreOfThisResponse' /\ NoResponseIsHalved'
    BY <1>1, ResultUntouched DEF Stops, modelVars
  <2> QED BY <1>1, <2>1, <2>2 DEF ModelInv, Stops, modelVars
<1> QED BY <1>1, StartCallStep, ArgumentPartStep, AnthropicEndsStep, OpenAiEndsStep, StreamFailsStep DEF ModelNext

(* For any number of attempts, completions and calls: a call that is       *)
(* executed was sent in this very response, with its own arguments         *)
(* (complete() of the providers, on one object that lives on).             *)
THEOREM CallsStayOfTheirResponse == ModelSpec => []CallsAreOfThisResponse
<1>1. ModelInv => CallsAreOfThisResponse
  BY DEF ModelInv
<1> QED BY <1>1, ModelInitOK, ModelStepOK, PTL DEF ModelSpec

(* And the loop takes no part of a response for the whole: calls it will    *)
(* not see are announced in the finish reason, unless openai.ts loses all.  *)
THEOREM ResponsesAreNotHalved == ModelSpec => []NoResponseIsHalved
<1>1. ModelInv => NoResponseIsHalved
  BY DEF ModelInv
<1> QED BY <1>1, ModelInitOK, ModelStepOK, PTL DEF ModelSpec
-----------------------------------------------------------------------------
(* Message history.  The calls of a message are answered by later messages *)
(* only, with no other answer of the model in between, and the calls of a  *)
(* turn are new ones.                                                      *)
CallIds == Nat \X Nat
Message == [role : {"user", "assistant", "system", "tool"}, said : BOOLEAN,
            calls : SUBSET CallIds, of : SUBSET CallIds, refs : SUBSET CallIds]

MessageOK(m, before) ==
  /\ m \in Message
  /\ m.calls # {} => m.role = "assistant"
  /\ m.of # {} => m.role = "tool"
  /\ \A id \in m.calls \cup m.of : id[1] < before

AnswersFollow(h) ==
  \A i, j \in DOMAIN h : \A id \in h[i].calls \cap h[j].of :
    i < j /\ \A k \in DOMAIN h : i < k /\ k < j => h[k].role # "assistant"

HistoryInv ==
  /\ messages \in Seq(Message) /\ turns \in Nat /\ overlapped \in BOOLEAN
  /\ \A i \in DOMAIN messages : MessageOK(messages[i], turns)
  /\ ~overlapped => AnswersFollow(messages)

(* Turns of a request, as a function on some of its places.                *)
BlockSet == [type : {"text", "tool_use", "tool_result"}, id : CallIds]
Turns(ts) ==
  /\ DOMAIN ts \subseteq Nat \ {0}
  /\ \A i \in DOMAIN ts : ts[i].role \in {"user", "assistant"} /\ ts[i].content \subseteq BlockSet
UsedAt(ts, i, id) == Block("tool_use", id) \in ts[i].content
AnsweredAt(ts, i, id) == Block("tool_result", id) \in ts[i].content
Ordered(ts) ==
  \A i, j \in DOMAIN ts, id \in CallIds : UsedAt(ts, i, id) /\ AnsweredAt(ts, j, id) =>
    /\ ts[i].role = "assistant" /\ ts[j].role = "user" /\ i < j
    /\ \A k \in DOMAIN ts : i < k /\ k < j => ts[k].role = "user"

Begins(ts, i) == i \in DOMAIN ts /\ \A k \in DOMAIN ts : k < i => ~Joined(ts, k, i)

LEMMA MergedDomain ==
  ASSUME NEW ts
  PROVE  /\ DOMAIN MergedTurns(ts) = {i \in DOMAIN ts : Begins(ts, i)}
         /\ \A i \in DOMAIN MergedTurns(ts) :
              /\ MergedTurns(ts)[i].role = ts[i].role
              /\ \A b : b \in MergedTurns(ts)[i].content <=>
                         \E j \in DOMAIN ts : Joined(ts, i, j) /\ b \in ts[j].content
<1>1. DOMAIN MergedTurns(ts) = {i \in DOMAIN ts : Begins(ts, i)}
  BY DEF MergedTurns, Begins
<1>2. ASSUME NEW i \in DOMAIN MergedTurns(ts)
      PROVE  /\ MergedTurns(ts)[i].role = ts[i].role
             /\ MergedTurns(ts)[i].content = UNION {ts[j].content : j \in {j \in DOMAIN ts : Joined(ts, i, j)}}
  BY <1>2 DEF MergedTurns
<1>3. ASSUME NEW i \in DOMAIN MergedTurns(ts), NEW b
      PROVE  b \in MergedTurns(ts)[i].content <=> \E j \in DOMAIN ts : Joined(ts, i, j) /\ b \in ts[j].content
  BY <1>2
<1> QED BY <1>1, <1>2, <1>3

LEMMA SomeNumberIsLeast ==
  ASSUME NEW S \in SUBSET Nat, S # {}
  PROVE  \E i \in S : \A j \in S : i <= j
<1> DEFINE less == {pair \in Nat \X Nat : pair[1] < pair[2]}
<1>1. IsWellFoundedOn(less, Nat)
  BY NatLessThanWellFounded DEF OpToRel
<1>2. PICK i \in S : \A j \in S : ~(<<j, i>> \in less)
  <2> HIDE DEF less
  <2> QED BY <1>1, WFMin
<1>3. ASSUME NEW j \in S PROVE i <= j
  <2>1. i \in Nat /\ j \in Nat /\ <<j, i>> \in Nat \X Nat
    OBVIOUS
  <2>2. ~(j < i)
    BY <1>2, <2>1
  <2> QED BY <2>1, <2>2
<1> QED BY <1>3

(* Every turn is merged into the one that begins its run.                  *)
LEMMA RunBegins ==
  ASSUME NEW ts, Turns(ts), NEW j \in DOMAIN ts
  PROVE  \E i \in DOMAIN ts : Begins(ts, i) /\ Joined(ts, i, j)
<1> DEFINE S == {i \in DOMAIN ts : Joined(ts, i, j)}
<1>1. S \in SUBSET Nat /\ j \in S
  BY DEF Turns, Joined
<1>2. PICK i \in S : \A k \in S : i <= k
  BY <1>1, SomeNumberIsLeast
<1>3. ASSUME NEW k \in DOMAIN ts, k < i, Joined(ts, k, i) PROVE FALSE
  <2>1. i \in Nat /\ j \in Nat /\ k \in Nat /\ Joined(ts, i, j)
    BY <1>1, <1>2, <1>3 DEF Turns
  <2>2. ASSUME NEW m \in DOMAIN ts, m \in k .. j PROVE ts[m].role = ts[k].role
    BY <1>3, <2>1, <2>2 DEF Turns, Joined
  <2>3. Joined(ts, k, j)
    BY <1>3, <2>1, <2>2 DEF Joined
  <2> QED BY <1>2, <1>3, <2>1, <2>3
<1> QED BY <1>1, <1>2, <1>3 DEF Begins

LEMMA MergeKeepsBlocks ==
  ASSUME NEW ts, Turns(ts)
  PROVE  /\ Turns(MergedTurns(ts)) /\ BlocksOf(MergedTurns(ts)) = BlocksOf(ts)
<1> DEFINE T == MergedTurns(ts)
<1>1. Turns(T)
  <2>1. DOMAIN T \subseteq DOMAIN ts
    BY MergedDomain
  <2>2. ASSUME NEW i \in DOMAIN T PROVE T[i].role \in {"user", "assistant"} /\ T[i].content \subseteq BlockSet
    BY <2>1, <2>2, MergedDomain DEF Turns
  <2> QED BY <2>1, <2>2 DEF Turns
<1>2. ASSUME NEW b \in BlocksOf(T) PROVE b \in BlocksOf(ts)
  <2>1. PICK i \in DOMAIN T : b \in T[i].content
    BY <1>2 DEF BlocksOf
  <2>2. PICK j \in DOMAIN ts : b \in ts[j].content
    BY <2>1, MergedDomain
  <2> QED BY <2>2 DEF BlocksOf
<1>3. ASSUME NEW b \in BlocksOf(ts) PROVE b \in BlocksOf(T)
  <2>1. PICK j \in DOMAIN ts : b \in ts[j].content
    BY <1>3 DEF BlocksOf
  <2>2. PICK i \in DOMAIN ts : Begins(ts, i) /\ Joined(ts, i, j)
    BY RunBegins
  <2>3. i \in DOMAIN T /\ b \in T[i].content
    BY <2>1, <2>2, MergedDomain
  <2> QED BY <2>3 DEF BlocksOf
<1> QED BY <1>1, <1>2, <1>3

(* Adjoining turns of a merge differ in role.                              *)
LEMMA MergeAlternates ==
  ASSUME NEW ts, Turns(ts), NEW i, NEW j,
         i \in DOMAIN MergedTurns(ts), j \in DOMAIN MergedTurns(ts), Adjoining(MergedTurns(ts), i, j)
  PROVE  MergedTurns(ts)[i].role # MergedTurns(ts)[j].role
<1> DEFINE T == MergedTurns(ts)
<1>1. SUFFICES ASSUME ts[i].role = ts[j].role PROVE FALSE
  BY MergedDomain
<1>2. /\ i \in DOMAIN ts /\ j \in DOMAIN ts /\ Begins(ts, i) /\ Begins(ts, j)
      /\ i \in Nat /\ j \in Nat /\ i < j
  BY MergedDomain DEF Turns, Adjoining
<1>3. ASSUME NEW k \in DOMAIN ts, i <= k, k < j PROVE ts[k].role = ts[i].role
  <2>1. PICK m \in DOMAIN ts : Begins(ts, m) /\ Joined(ts, m, k)
    BY RunBegins
  <2>2. m \in Nat /\ k \in Nat /\ m <= k /\ m \in DOMAIN T
    BY <2>1, MergedDomain DEF Turns, Joined
  <2>3. m <= i
    BY <1>2, <1>3, <2>2 DEF Adjoining
  <2>4. CASE m < i
    <3>1. Joined(ts, m, i)
      BY <1>2, <1>3, <2>1, <2>2, <2>4 DEF Joined, Turns
    <3> QED BY <1>2, <2>4, <3>1 DEF Begins
  <2>5. CASE m = i
    BY <1>3, <2>1, <2>2, <2>5 DEF Joined
  <2> QED BY <1>2, <2>2, <2>3, <2>4, <2>5
<1>4. Joined(ts, i, j)
  BY <1>1, <1>2, <1>3 DEF Joined, Turns
<1> QED BY <1>2, <1>4 DEF Begins

(* A call and its answer, with only the user's turns between, end up in    *)
(* adjoining turns.                                                        *)
LEMMA MergeAdjoins ==
  ASSUME NEW ts, Turns(ts), NEW p \in DOMAIN ts, NEW q \in DOMAIN ts, p < q,
         ts[p].role = "assistant", ts[q].role = "user",
         \A k \in DOMAIN ts : p < k /\ k < q => ts[k].role = "user",
         NEW i, NEW j, Begins(ts, i), Joined(ts, i, p), Begins(ts, j), Joined(ts, j, q)
  PROVE  Adjoining(MergedTurns(ts), i, j)
<1>1. /\ {i, j, p, q} \subseteq DOMAIN ts
      /\ i \in Nat /\ j \in Nat /\ p \in Nat /\ q \in Nat /\ i <= p /\ j <= q
  BY DEF Turns, Begins, Joined
<1>2. ts[i].role = "assistant" /\ ts[j].role = "user"
  BY <1>1 DEF Joined
<1>3. p < j
  BY <1>1, <1>2 DEF Joined
<1>4. ASSUME NEW m \in DOMAIN ts, Begins(ts, m), i < m, m < j PROVE FALSE
  <2>1. m \in Nat
    BY DEF Turns
  <2>2. CASE m <= p
    <3>1. Joined(ts, i, m)
      BY <1>1, <1>4, <2>1, <2>2 DEF Joined, Turns
    <3> QED BY <1>1, <1>4, <3>1 DEF Begins
  <2>3. CASE p < m
    <3>1. Joined(ts, m, j)
      BY <1>1, <1>2, <1>4, <2>1, <2>3 DEF Joined, Turns
    <3> QED BY <1>1, <1>4, <3>1 DEF Begins
  <2> QED BY <1>1, <2>1, <2>2, <2>3
<1> HIDE DEF Begins
<1>5. \A m \in DOMAIN MergedTurns(ts) : m \in DOMAIN ts /\ Begins(ts, m) /\ m \in Nat
  BY MergedDomain DEF Turns
<1> QED BY <1>1, <1>3, <1>4, <1>5 DEF Adjoining

LEMMA MergeOrders ==
  ASSUME NEW ts, Turns(ts), Ordered(ts)
  PROVE  /\ Ordered(MergedTurns(ts))
         /\ \A i, j \in DOMAIN MergedTurns(ts), id \in CallIds :
              UsedAt(MergedTurns(ts), i, id) /\ AnsweredAt(MergedTurns(ts), j, id)
                => Adjoining(MergedTurns(ts), i, j)
<1> DEFINE T == MergedTurns(ts)
<1>1. ASSUME NEW i \in DOMAIN T, NEW j \in DOMAIN T, NEW id \in CallIds, UsedAt(T, i, id), AnsweredAt(T, j, id)
      PROVE  Adjoining(T, i, j) /\ T[i].role = "assistant" /\ T[j].role = "user"
  <2>1. PICK p \in DOMAIN ts : Joined(ts, i, p) /\ UsedAt(ts, p, id)
    BY <1>1, MergedDomain DEF UsedAt
  <2>2. PICK q \in DOMAIN ts : Joined(ts, j, q) /\ AnsweredAt(ts, q, id)
    BY <1>1, MergedDomain DEF AnsweredAt
  <2>3. /\ ts[p].role = "assistant" /\ ts[q].role = "user" /\ p < q
        /\ \A k \in DOMAIN ts : p < k /\ k < q => ts[k].role = "user"
    BY <2>1, <2>2 DEF Ordered
  <2>4. /\ i \in DOMAIN ts /\ j \in DOMAIN ts /\ Begins(ts, i) /\ Begins(ts, j)
        /\ T[i].role = ts[i].role /\ T[j].role = ts[j].role
    BY <1>1, MergedDomain
  <2>5. Adjoining(T, i, j)
    BY <2>1, <2>2, <2>3, <2>4, MergeAdjoins
  <2>6. ts[i].role = ts[p].role /\ ts[j].role = ts[q].role
    BY <2>1, <2>2 DEF Joined, Turns
  <2> QED BY <2>3, <2>4, <2>5, <2>6
<1>2. \A k \in DOMAIN T : k \in Nat
  BY MergedDomain DEF Turns
<1> HIDE DEF T
<1>3. Ordered(T)
  BY <1>1, <1>2 DEF Ordered, Adjoining
<1> QED BY <1>1, <1>3 DEF T

LEMMA ScrubbedDomain ==
  ASSUME NEW ts
  PROVE  /\ DOMAIN Scrubbed(ts) = {i \in DOMAIN ts : \E b \in ts[i].content : Partnered(ts, b)}
         /\ \A i \in DOMAIN Scrubbed(ts) :
              /\ Scrubbed(ts)[i].role = ts[i].role
              /\ Scrubbed(ts)[i].content = {b \in ts[i].content : Partnered(ts, b)}
<1> DEFINE left(i) == {b \in ts[i].content : Partnered(ts, b)}
           some == {i \in DOMAIN ts : left(i) # {}}
<1>1. some = {i \in DOMAIN ts : \E b \in ts[i].content : Partnered(ts, b)}
  OBVIOUS
<1>2. Scrubbed(ts) = [i \in some |-> [role |-> ts[i].role, content |-> left(i)]]
  BY DEF Scrubbed
<1> HIDE DEF some
<1>3. DOMAIN Scrubbed(ts) = some
  BY <1>2
<1>4. ASSUME NEW i \in some
      PROVE  Scrubbed(ts)[i].role = ts[i].role /\ Scrubbed(ts)[i].content = left(i)
  <2>1. Scrubbed(ts)[i] = [role |-> ts[i].role, content |-> left(i)]
    BY <1>2
  <2> HIDE DEF left
  <2> QED BY <2>1
<1> QED BY <1>1, <1>3, <1>4

(* What is left of the turns keeps its order and has no block without its  *)
(* partner.                                                                *)
Paired(ts) ==
  \A id \in CallIds : Block("tool_use", id) \in BlocksOf(ts) <=> Block("tool_result", id) \in BlocksOf(ts)

LEMMA ScrubPairs ==
  ASSUME NEW ts, Turns(ts), Ordered(ts)
  PROVE  Turns(Scrubbed(ts)) /\ Ordered(Scrubbed(ts)) /\ Paired(Scrubbed(ts))
<1> DEFINE S == Scrubbed(ts)
<1>1. DOMAIN S \subseteq DOMAIN ts
  BY ScrubbedDomain
<1>2. \A i \in DOMAIN S : S[i].role = ts[i].role /\ S[i].content = {b \in ts[i].content : Partnered(ts, b)}
  BY ScrubbedDomain
<1>3. \A i \in DOMAIN ts : \A b \in ts[i].content : Partnered(ts, b) => i \in DOMAIN S
  BY ScrubbedDomain
<1> HIDE DEF S
<1>4. ASSUME NEW b PROVE b \in BlocksOf(S) <=> b \in BlocksOf(ts) /\ Partnered(ts, b)
  <2>1. ASSUME b \in BlocksOf(S) PROVE b \in BlocksOf(ts) /\ Partnered(ts, b)
    <3>1. PICK i \in DOMAIN S : b \in S[i].content
      BY <2>1 DEF BlocksOf
    <3>2. i \in DOMAIN ts /\ b \in ts[i].content /\ Partnered(ts, b)
      BY <1>1, <1>2, <3>1
    <3> QED BY <3>2 DEF BlocksOf
  <2>2. ASSUME b \in BlocksOf(ts), Partnered(ts, b) PROVE b \in BlocksOf(S)
    <3>1. PICK i \in DOMAIN ts : b \in ts[i].content
      BY <2>2 DEF BlocksOf
    <3>2. i \in DOMAIN S /\ b \in S[i].content
      BY <1>2, <1>3, <2>2, <3>1
    <3> QED BY <3>2 DEF BlocksOf
  <2> QED BY <2>1, <2>2
<1>5. Turns(S)
  BY <1>1, <1>2 DEF Turns
<1>6. Ordered(S)
  BY <1>1, <1>2 DEF Ordered, UsedAt, AnsweredAt
<1>7. Paired(S)
  <2> SUFFICES ASSUME NEW id \in CallIds
               PROVE  Block("tool_use", id) \in BlocksOf(S) <=> Block("tool_result", id) \in BlocksOf(S)
    BY DEF Paired
  <2>1. /\ Block("tool_use", id).type = "tool_use" /\ Block("tool_use", id).id = id
        /\ Block("tool_result", id).type = "tool_result" /\ Block("tool_result", id).id = id
    BY DEF Block
  <2>2. /\ Partnered(ts, Block("tool_use", id)) <=> Block("tool_result", id) \in BlocksOf(ts)
        /\ Partnered(ts, Block("tool_result", id)) <=> Block("tool_use", id) \in BlocksOf(ts)
    BY <2>1 DEF Partnered
  <2> QED BY <1>4, <2>2
<1> QED BY <1>5, <1>6, <1>7 DEF S

LEMMA BlockOfKind ==
  ASSUME NEW b \in BlockSet
  PROVE  b.id \in CallIds /\ b = Block(b.type, b.id)
BY DEF BlockSet, Block

(* What mapAnthropicMessages makes of turns in that order is valid.        *)
Valid(ts) ==
  /\ \E i \in DOMAIN ts : ts[i].role = "user" /\ \A j \in DOMAIN ts : i <= j
  /\ \A i, j \in DOMAIN ts : Adjoining(ts, i, j) => ts[i].role # ts[j].role
  /\ \A i \in DOMAIN ts : \A b \in ts[i].content :
       /\ b.type = "tool_use" =>
            \E j \in DOMAIN ts : Adjoining(ts, i, j) /\ Block("tool_result", b.id) \in ts[j].content
       /\ b.type = "tool_result" =>
            \E j \in DOMAIN ts : Adjoining(ts, j, i) /\ Block("tool_use", b.id) \in ts[j].content

LEMMA UserGoesFirst ==
  ASSUME NEW ts, Turns(ts), 1 \in DOMAIN ts, ts[1].role = "user", TextBlock \in ts[1].content
  PROVE  /\ 1 \in DOMAIN MergedTurns(ts) /\ MergedTurns(ts)[1].role = "user"
         /\ TextBlock \in MergedTurns(ts)[1].content
         /\ 1 \in DOMAIN Scrubbed(ts) /\ Scrubbed(ts)[1].role = "user" /\ TextBlock \in Scrubbed(ts)[1].content
<1>1. \A k \in DOMAIN ts : ~(k < 1)
  BY DEF Turns
<1>2. 1 \in DOMAIN MergedTurns(ts)
  BY <1>1, MergedDomain DEF Begins
<1>3. Joined(ts, 1, 1)
  BY DEF Joined
<1>4. TextBlock.type = "text"
  BY DEF TextBlock, Block
<1>5. Partnered(ts, TextBlock)
  BY <1>4 DEF Partnered
<1>6. MergedTurns(ts)[1].role = "user" /\ TextBlock \in MergedTurns(ts)[1].content
  BY <1>2, <1>3, MergedDomain
<1>7. 1 \in DOMAIN Scrubbed(ts)
  BY <1>5, ScrubbedDomain
<1>8. Scrubbed(ts)[1].role = "user" /\ TextBlock \in Scrubbed(ts)[1].content
  <2>1. Scrubbed(ts)[1].role = ts[1].role /\ Scrubbed(ts)[1].content = {b \in ts[1].content : Partnered(ts, b)}
    BY <1>7, ScrubbedDomain
  <2> QED BY <1>5, <2>1
<1> QED BY <1>2, <1>6, <1>7, <1>8

LEMMA TranslationIsValid ==
  ASSUME NEW ts, Turns(ts), Ordered(ts), 1 \in DOMAIN ts, ts[1].role = "user", TextBlock \in ts[1].content
  PROVE  Valid(MergedTurns(Scrubbed(MergedTurns(ts))))
<1> DEFINE A == MergedTurns(ts)
           S == Scrubbed(A)
           T == MergedTurns(S)
<1>1. Turns(A) /\ Ordered(A) /\ 1 \in DOMAIN A /\ A[1].role = "user" /\ TextBlock \in A[1].content
  BY MergeKeepsBlocks, MergeOrders, UserGoesFirst
<1> HIDE DEF A
<1>2. /\ Turns(S) /\ Ordered(S) /\ Paired(S)
      /\ 1 \in DOMAIN S /\ S[1].role = "user" /\ TextBlock \in S[1].content
  BY <1>1, ScrubPairs, UserGoesFirst
<1> HIDE DEF S
<1>3. /\ Turns(T) /\ Ordered(T) /\ BlocksOf(T) = BlocksOf(S)
      /\ \A i, j \in DOMAIN T, id \in CallIds : UsedAt(T, i, id) /\ AnsweredAt(T, j, id) => Adjoining(T, i, j)
  BY <1>2, MergeKeepsBlocks, MergeOrders
<1>4. 1 \in DOMAIN T /\ T[1].role = "user"
  BY <1>2, UserGoesFirst
<1>5. \A i, j \in DOMAIN T : Adjoining(T, i, j) => T[i].role # T[j].role
  BY <1>2, MergeAlternates
<1> HIDE DEF T
<1>6. \A j \in DOMAIN T : 1 <= j
  BY <1>3 DEF Turns
<1>7. ASSUME NEW i \in DOMAIN T, NEW b \in T[i].content
      PROVE  /\ b.type = "tool_use" =>
                  \E j \in DOMAIN T : Adjoining(T, i, j) /\ Block("tool_result", b.id) \in T[j].content
             /\ b.type = "tool_result" =>
                  \E j \in DOMAIN T : Adjoining(T, j, i) /\ Block("tool_use", b.id) \in T[j].content
  <2>1. b.id \in CallIds /\ b = Block(b.type, b.id)
    BY <1>3, BlockOfKind DEF Turns
  <2>2. b \in BlocksOf(S)
    BY <1>3 DEF BlocksOf
  <2>3. ASSUME b.type = "tool_use"
        PROVE  \E j \in DOMAIN T : Adjoining(T, i, j) /\ Block("tool_result", b.id) \in T[j].content
    <3>1. Block("tool_result", b.id) \in BlocksOf(T)
      BY <1>2, <1>3, <2>1, <2>2, <2>3 DEF Paired
    <3>2. PICK j \in DOMAIN T : Block("tool_result", b.id) \in T[j].content
      BY <3>1 DEF BlocksOf
    <3> QED BY <1>3, <2>1, <2>3, <3>2 DEF UsedAt, AnsweredAt
  <2>4. ASSUME b.type = "tool_result"
        PROVE  \E j \in DOMAIN T : Adjoining(T, j, i) /\ Block("tool_use", b.id) \in T[j].content
    <3>1. Block("tool_use", b.id) \in BlocksOf(T)
      BY <1>2, <1>3, <2>1, <2>2, <2>4 DEF Paired
    <3>2. PICK j \in DOMAIN T : Block("tool_use", b.id) \in T[j].content
      BY <3>1 DEF BlocksOf
    <3> QED BY <1>3, <2>1, <2>4, <3>2 DEF UsedAt, AnsweredAt
  <2> QED BY <2>3, <2>4
<1>8. Valid(T)
  BY <1>4, <1>5, <1>6, <1>7 DEF Valid
<1> QED BY <1>8 DEF T, S, A

(* What runCompletion assembles from such a history is in that order.      *)
LEMMA AssembledRequest ==
  ASSUME messages \in Seq(Message)
  PROVE  LET request == Assembled(messages, FALSE)
         IN /\ DOMAIN request = 1 .. (Len(messages) + 1)
            /\ request[1] = Task
            /\ \A i \in 1 .. Len(messages) : request[i + 1] = messages[i]
<1>1. Task \in Message
  BY DEF Task, Text, Message
<1>2. Assembled(messages, FALSE) = (<<Task>> \o messages) \o <<>>
  BY DEF Assembled
<1>3. <<Task>> \o messages \in Seq(Message)
  BY <1>1
<1>4. Assembled(messages, FALSE) = <<Task>> \o messages
  BY <1>2, <1>3, ConcatEmptySeq
<1>5. Len(<<Task>> \o messages) = Len(messages) + 1 /\ (<<Task>> \o messages)[1] = Task
  BY <1>1
<1>6. ASSUME NEW i \in 1 .. Len(messages) PROVE (<<Task>> \o messages)[i + 1] = messages[i]
  BY <1>1
<1>7. DOMAIN (<<Task>> \o messages) = 1 .. (Len(messages) + 1)
  BY <1>3, <1>5
<1> QED BY <1>4, <1>5, <1>6, <1>7, Zenon

LEMMA NormalizedIsOrdered ==
  ASSUME HistoryInv, ~overlapped
  PROVE  LET ts == Normalized(Assembled(messages, FALSE))
         IN Turns(ts) /\ Ordered(ts) /\ 1 \in DOMAIN ts /\ ts[1].role = "user" /\ TextBlock \in ts[1].content
<1> DEFINE request == Assembled(messages, FALSE)
           ts == Normalized(request)
           n == Len(messages)
<1>1. /\ messages \in Seq(Message) /\ turns \in Nat /\ n \in Nat /\ DOMAIN messages = 1 .. n
      /\ \A i \in 1 .. n : MessageOK(messages[i], turns)
      /\ AnswersFollow(messages)
  BY DEF HistoryInv
<1>2. /\ DOMAIN request = 1 .. (n + 1) /\ request[1] = Task
      /\ \A i \in 1 .. n : request[i + 1] = messages[i]
  BY <1>1, AssembledRequest
<1> HIDE DEF request
<1>3. /\ DOMAIN ts = 1 .. (n + 1)
      /\ \A i \in 1 .. (n + 1) :
           /\ ts[i].role = IF request[i].role = "assistant" THEN "assistant" ELSE "user"
           /\ ts[i].content = Blocks(request[i])
  BY <1>2 DEF Normalized
<1> HIDE DEF ts, n
<1>4. \A i \in 1 .. (n + 1) : i = 1 \/ (i - 1 \in 1 .. n /\ request[i] = messages[i - 1])
  <2> SUFFICES ASSUME NEW i \in 1 .. (n + 1), i # 1 PROVE i - 1 \in 1 .. n /\ request[i] = messages[i - 1]
    OBVIOUS
  <2>1. i - 1 \in 1 .. n /\ (i - 1) + 1 = i
    BY <1>1
  <2> QED BY <1>2, <2>1
<1>5. Task \in Message /\ Task.calls = {} /\ Task.of = {} /\ Task.role = "user" /\ Task.said = TRUE
  BY DEF Task, Text, Message
<1>6. TextBlock \in BlockSet /\ TextBlock.type = "text"
  BY DEF TextBlock, Block, BlockSet, CallIds
<1>7. ASSUME NEW m \in Message
      PROVE  /\ Blocks(m) \subseteq BlockSet
             /\ \A id : Block("tool_use", id) \in Blocks(m) => id \in m.calls
             /\ \A id : Block("tool_result", id) \in Blocks(m) => id \in m.of /\ m.role = "tool"
  <2>1. \A type, id : Block(type, id).type = type /\ Block(type, id).id = id
    BY DEF Block
  <2>3. m.calls \subseteq CallIds /\ m.of \subseteq CallIds
    BY DEF Message
  <2>4. \A id \in CallIds : Block("tool_use", id) \in BlockSet /\ Block("tool_result", id) \in BlockSet
    BY DEF Block, BlockSet
  <2>5. CASE m.role = "tool"
    <3>1. Blocks(m) = {Block("tool_result", id) : id \in m.of}
      BY <2>5 DEF Blocks
    <3>2. Blocks(m) \subseteq BlockSet
      BY <2>3, <2>4, <3>1
    <3>3. ASSUME NEW id PROVE Block("tool_use", id) \notin Blocks(m)
      BY <2>1, <3>1
    <3>4. ASSUME NEW id, Block("tool_result", id) \in Blocks(m) PROVE id \in m.of
      BY <2>1, <3>1, <3>4
    <3> QED BY <2>5, <3>2, <3>3, <3>4
  <2>6. CASE m.role # "tool"
    <3>1. Blocks(m) = {TextBlock : said \in {m.said} \cap {TRUE}} \cup {Block("tool_use", id) : id \in m.calls}
      BY <2>6 DEF Blocks
    <3>2. ASSUME NEW b \in Blocks(m) PROVE b = TextBlock \/ \E id \in m.calls : b = Block("tool_use", id)
      BY <3>1, <3>2
    <3>3. Blocks(m) \subseteq BlockSet
      BY <1>6, <2>3, <2>4, <3>2
    <3>4. ASSUME NEW id, Block("tool_use", id) \in Blocks(m) PROVE id \in m.calls
      BY <1>6, <2>1, <3>2, <3>4
    <3>5. ASSUME NEW id PROVE Block("tool_result", id) \notin Blocks(m)
      BY <1>6, <2>1, <3>2
    <3> QED BY <3>3, <3>4, <3>5
  <2> QED BY <2>5, <2>6
<1>8. \A i \in 1 .. (n + 1) : request[i] \in Message
  BY <1>1, <1>2, <1>4, <1>5 DEF MessageOK
<1>9. Turns(ts)
  BY <1>1, <1>3, <1>7, <1>8 DEF Turns
<1>10. ASSUME NEW i \in 1 .. (n + 1), NEW j \in 1 .. (n + 1), NEW id \in CallIds, UsedAt(ts, i, id), AnsweredAt(ts, j, id)
       PROVE  /\ ts[i].role = "assistant" /\ ts[j].role = "user" /\ i < j
              /\ \A k \in 1 .. (n + 1) : i < k /\ k < j => ts[k].role = "user"
  <2>1. id \in request[i].calls /\ id \in request[j].of /\ request[j].role = "tool"
    BY <1>3, <1>7, <1>8, <1>10 DEF UsedAt, AnsweredAt
  <2>2. /\ i - 1 \in 1 .. n /\ request[i] = messages[i - 1]
        /\ j - 1 \in 1 .. n /\ request[j] = messages[j - 1]
    BY <1>2, <1>4, <1>5, <2>1
  <2>3. /\ i - 1 < j - 1
        /\ \A k \in 1 .. n : i - 1 < k /\ k < j - 1 => messages[k].role # "assistant"
    BY <1>1, <2>1, <2>2 DEF AnswersFollow
  <2>4. request[i].role = "assistant"
    BY <1>1, <2>1, <2>2 DEF MessageOK
  <2>5. ASSUME NEW k \in 1 .. (n + 1), i < k, k < j PROVE ts[k].role = "user"
    <3>1. k - 1 \in 1 .. n /\ request[k] = messages[k - 1] /\ i - 1 < k - 1 /\ k - 1 < j - 1
      BY <1>1, <1>4, <2>2, <2>5
    <3> QED BY <1>3, <2>3, <3>1
  <2> QED BY <1>1, <1>3, <2>1, <2>2, <2>3, <2>4, <2>5
<1>11. Ordered(ts)
  BY <1>3, <1>10 DEF Ordered
<1>12. 1 \in DOMAIN ts /\ ts[1].role = "user" /\ TextBlock \in ts[1].content
  <2>1. 1 \in 1 .. (n + 1)
    BY <1>1
  <2>2. TextBlock \in Blocks(Task)
    BY <1>5 DEF Blocks
  <2> QED BY <1>2, <1>3, <1>5, <2>1, <2>2
<1> QED BY <1>9, <1>11, <1>12 DEF ts, request

(* A turn adds its messages at the end; its calls have names no earlier    *)
(* message knows.                                                          *)
Added(add) ==
  /\ add \in Seq(Message)
  /\ \A i \in DOMAIN add :
       /\ MessageOK(add[i], turns + 1)
       /\ \A id \in add[i].calls \cup add[i].of : id[1] = turns
  /\ AnswersFollow(add)

LEMMA AppendKeeps ==
  ASSUME turns \in Nat, NEW h \in Seq(Message), \A i \in DOMAIN h : MessageOK(h[i], turns),
         NEW add, Added(add)
  PROVE  /\ h \o add \in Seq(Message)
         /\ \A i \in DOMAIN (h \o add) : MessageOK((h \o add)[i], turns + 1)
         /\ AnswersFollow(h) => AnswersFollow(h \o add)
<1> DEFINE c == h \o add
           n == Len(h)
<1>1. /\ add \in Seq(Message) /\ n \in Nat /\ Len(add) \in Nat
      /\ DOMAIN h = 1 .. n /\ DOMAIN add = 1 .. Len(add)
  BY DEF Added
<1>2. /\ c \in Seq(Message) /\ DOMAIN c = 1 .. (n + Len(add))
      /\ \A i \in 1 .. (n + Len(add)) : c[i] = IF i <= n THEN h[i] ELSE add[i - n]
  BY <1>1
<1> HIDE DEF c, n
<1>3. ASSUME NEW i \in DOMAIN c
      PROVE  \/ i \in DOMAIN h /\ c[i] = h[i] /\ i <= n
             \/ i - n \in DOMAIN add /\ c[i] = add[i - n] /\ i > n
  <2>1. CASE i <= n
    BY <1>1, <1>2, <2>1
  <2>2. CASE ~(i <= n)
    <3>1. i - n \in 1 .. Len(add) /\ i > n
      BY <1>1, <1>2, <2>2
    <3> QED BY <1>1, <1>2, <2>2, <3>1
  <2> QED BY <2>1, <2>2
<1>4. ASSUME NEW m, MessageOK(m, turns) PROVE MessageOK(m, turns + 1)
  <2>1. \A id \in m.calls \cup m.of : id[1] \in Nat
    BY <1>4 DEF MessageOK, Message, CallIds
  <2> QED BY <1>4, <2>1 DEF MessageOK
<1>5. \A i \in DOMAIN c : MessageOK(c[i], turns + 1)
  BY <1>3, <1>4 DEF Added
<1>6. ASSUME AnswersFollow(h), NEW i \in DOMAIN c, NEW j \in DOMAIN c, NEW id \in c[i].calls \cap c[j].of
      PROVE  i < j /\ \A k \in DOMAIN c : i < k /\ k < j => c[k].role # "assistant"
  <2>1. CASE i \in DOMAIN h /\ c[i] = h[i] /\ i <= n /\ j \in DOMAIN h /\ c[j] = h[j] /\ j <= n
    <3>1. i < j /\ \A k \in DOMAIN h : i < k /\ k < j => h[k].role # "assistant"
      BY <1>6, <2>1 DEF AnswersFollow
    <3>2. ASSUME NEW k \in DOMAIN c, i < k, k < j PROVE k \in DOMAIN h /\ c[k] = h[k]
      BY <1>1, <1>2, <2>1, <3>2
    <3> QED BY <3>1, <3>2
  <2>2. CASE i - n \in DOMAIN add /\ c[i] = add[i - n] /\ i > n /\ j - n \in DOMAIN add /\ c[j] = add[j - n] /\ j > n
    <3>1. i - n < j - n /\ \A k \in DOMAIN add : i - n < k /\ k < j - n => add[k].role # "assistant"
      BY <1>6, <2>2 DEF Added, AnswersFollow
    <3>2. i < j
      BY <1>1, <1>2, <3>1
    <3>3. ASSUME NEW k \in DOMAIN c, i < k, k < j
          PROVE  k - n \in DOMAIN add /\ c[k] = add[k - n] /\ i - n < k - n /\ k - n < j - n
      <4>1. ~(k <= n) /\ k - n \in 1 .. Len(add) /\ i - n < k - n /\ k - n < j - n
        BY <1>1, <1>2, <2>2, <3>3
      <4> QED BY <1>1, <1>2, <4>1
    <3> QED BY <3>1, <3>2, <3>3
  <2>3. ASSUME NEW a \in DOMAIN h, NEW b \in DOMAIN add
        PROVE  (h[a].calls \cup h[a].of) \cap (add[b].calls \cup add[b].of) = {}
    <3>1. \A x \in h[a].calls \cup h[a].of : x[1] < turns /\ x \in CallIds
      BY DEF MessageOK, Message
    <3>2. \A x \in add[b].calls \cup add[b].of : x[1] = turns
      BY DEF Added
    <3> QED BY <3>1, <3>2
  <2>4. CASE i \in DOMAIN h /\ c[i] = h[i] /\ i <= n /\ j - n \in DOMAIN add /\ c[j] = add[j - n] /\ j > n
    BY <1>6, <2>3, <2>4
  <2>5. CASE i - n \in DOMAIN add /\ c[i] = add[i - n] /\ i > n /\ j \in DOMAIN h /\ c[j] = h[j] /\ j <= n
    BY <1>6, <2>3, <2>5
  <2> QED BY <1>3, <2>1, <2>2, <2>4, <2>5
<1>7. AnswersFollow(h) => AnswersFollow(c)
  BY <1>6 DEF AnswersFollow
<1> QED BY <1>2, <1>5, <1>7 DEF c

LEMMA MessagesMade ==
  ASSUME turns \in Nat
  PROVE  /\ Text("user") \in Message /\ MessageOK(Text("user"), turns + 1)
         /\ Text("user").calls = {} /\ Text("user").of = {} /\ Text("user").role = "user"
         /\ \A said \in BOOLEAN, ids \in SUBSET ({turns} \X Nat) :
              LET m == Assistant(said, ids)
              IN m \in Message /\ MessageOK(m, turns + 1) /\ m.calls = ids /\ m.of = {} /\ m.role = "assistant"
         /\ \A i \in Nat :
              LET m == Result(<<turns, i>>)
              IN m \in Message /\ MessageOK(m, turns + 1) /\ m.calls = {} /\ m.of = {<<turns, i>>} /\ m.role = "tool"
<1>1. /\ Text("user") \in Message /\ Text("user").calls = {} /\ Text("user").of = {} /\ Text("user").role = "user"
  BY DEF Text, Message
<1>2. ASSUME NEW said \in BOOLEAN, NEW ids \in SUBSET ({turns} \X Nat)
      PROVE  LET m == Assistant(said, ids)
             IN m \in Message /\ MessageOK(m, turns + 1) /\ m.calls = ids /\ m.of = {} /\ m.role = "assistant"
  <2> DEFINE m == Assistant(said, ids)
  <2>1. ids \subseteq CallIds /\ \A id \in ids : id[1] < turns + 1
    BY DEF CallIds
  <2>2. m \in Message /\ m.calls = ids /\ m.of = {} /\ m.role = "assistant"
    BY <2>1 DEF Assistant, Text, Message
  <2> HIDE DEF m
  <2>3. MessageOK(m, turns + 1)
    BY <2>1, <2>2 DEF MessageOK
  <2> QED BY <2>2, <2>3 DEF m
<1>3. ASSUME NEW i \in Nat
      PROVE  LET m == Result(<<turns, i>>)
             IN m \in Message /\ MessageOK(m, turns + 1) /\ m.calls = {} /\ m.of = {<<turns, i>>} /\ m.role = "tool"
  <2> DEFINE m == Result(<<turns, i>>)
  <2>1. <<turns, i>> \in CallIds /\ <<turns, i>>[1] < turns + 1
    BY DEF CallIds
  <2>2. m \in Message /\ m.calls = {} /\ m.of = {<<turns, i>>} /\ m.role = "tool"
    BY <2>1 DEF Result, Text, Message
  <2> HIDE DEF m
  <2>3. MessageOK(m, turns + 1)
    BY <2>1, <2>2 DEF MessageOK
  <2> QED BY <2>2, <2>3 DEF m
<1> QED BY <1>1, <1>2, <1>3 DEF MessageOK

LEMMA PlainAdded ==
  ASSUME turns \in Nat
  PROVE  /\ Added(<<Text("user")>>)
         /\ \A said \in BOOLEAN : Added(<<Assistant(said, {}), Text("user")>>)
<1>1. Added(<<Text("user")>>)
  BY MessagesMade DEF Added, AnswersFollow
<1>2. ASSUME NEW said \in BOOLEAN PROVE Added(<<Assistant(said, {}), Text("user")>>)
  <2> DEFINE a == Assistant(said, {})
             u == Text("user")
  <2>1. /\ a \in Message /\ MessageOK(a, turns + 1) /\ a.calls = {} /\ a.of = {}
        /\ u \in Message /\ MessageOK(u, turns + 1) /\ u.calls = {} /\ u.of = {}
    BY MessagesMade
  <2> HIDE DEF a, u
  <2>2. /\ <<a, u>> \in Seq(Message) /\ DOMAIN <<a, u>> = 1 .. 2
        /\ \A i \in 1 .. 2 : <<a, u>>[i] = a \/ <<a, u>>[i] = u
    BY <2>1
  <2>3. Added(<<a, u>>)
    BY <2>1, <2>2 DEF Added, AnswersFollow
  <2> QED BY <2>3 DEF a, u
<1> QED BY <1>1, <1>2

(* The answer of the model comes before its results, with no other answer  *)
(* among them.                                                             *)
LEMMA CallsAdded ==
  ASSUME turns \in Nat, NEW nudge, nudge \in {<<>>, <<Text("user")>>},
         NEW said \in BOOLEAN, NEW ids \in SUBSET ({turns} \X Nat), NEW rest \in Seq(Message),
         \A i \in DOMAIN rest :
           /\ MessageOK(rest[i], turns + 1) /\ rest[i].calls = {} /\ rest[i].role # "assistant"
           /\ \A id \in rest[i].of : id[1] = turns
  PROVE  Added(nudge \o <<Assistant(said, ids)>> \o rest)
<1> DEFINE u == Text("user")
           a == Assistant(said, ids)
           p == Len(nudge) + 1
           add == nudge \o <<a>> \o rest
<1>1. /\ u \in Message /\ MessageOK(u, turns + 1) /\ u.calls = {} /\ u.of = {} /\ u.role = "user"
      /\ a \in Message /\ MessageOK(a, turns + 1) /\ a.calls = ids /\ a.of = {} /\ a.role = "assistant"
  BY MessagesMade
<1> HIDE DEF u, a
<1>2. /\ nudge \in Seq(Message) /\ Len(nudge) \in {0, 1} /\ p \in {1, 2}
      /\ \A i \in 1 .. Len(nudge) : nudge[i] = u
  <2>1. CASE nudge = <<>>
    BY <2>1
  <2>2. CASE nudge = <<u>>
    BY <1>1, <2>2
  <2> QED BY <2>1, <2>2 DEF u
<1>3. /\ add \in Seq(Message) /\ DOMAIN add = 1 .. (p + Len(rest))
      /\ \A i \in 1 .. (p + Len(rest)) :
           add[i] = IF i < p THEN nudge[i] ELSE IF i = p THEN a ELSE rest[i - p]
  BY <1>1, <1>2
<1>4. Len(rest) \in Nat /\ DOMAIN rest = 1 .. Len(rest)
  OBVIOUS
<1> HIDE DEF add, p
<1>5. ASSUME NEW i \in DOMAIN add
      PROVE  \/ i < p /\ add[i] = u
             \/ i = p /\ add[i] = a
             \/ i > p /\ i - p \in DOMAIN rest /\ add[i] = rest[i - p]
  <2>1. CASE i < p
    BY <1>2, <1>3, <2>1 DEF p
  <2>2. CASE i > p
    <3>1. i - p \in 1 .. Len(rest) /\ ~(i < p) /\ i # p
      BY <1>2, <1>3, <1>4, <2>2
    <3> QED BY <1>3, <1>4, <2>2, <3>1
  <2> QED BY <1>2, <1>3, <2>1, <2>2
<1>6. ASSUME NEW i \in DOMAIN add
      PROVE  /\ MessageOK(add[i], turns + 1)
             /\ \A id \in add[i].calls \cup add[i].of : id[1] = turns
             /\ add[i].calls # {} => i = p
             /\ add[i].of # {} => i > p
             /\ i > p => add[i].role # "assistant"
  BY <1>1, <1>2, <1>3, <1>5
<1>7. AnswersFollow(add)
  BY <1>2, <1>3, <1>6 DEF AnswersFollow
<1>8. Added(add)
  BY <1>3, <1>6, <1>7 DEF Added
<1> QED BY <1>8 DEF add, a

LEMMA ToolsAdded ==
  ASSUME turns \in Nat, NEW n \in 1 .. 2, NEW said \in BOOLEAN, NEW nudged \in BOOLEAN, NEW asked \in BOOLEAN
  PROVE  LET id(i) == <<turns, i>>
             results == [i \in 1 .. n |-> Result(id(i))]
         IN Added((IF nudged THEN <<Text("user")>> ELSE <<>>)
                  \o <<Assistant(said, {id(i) : i \in 1 .. n})>>
                  \o (IF asked THEN <<results[1], Text("user")>> \o Tail(results) ELSE results))
<1> DEFINE id(i) == <<turns, i>>
           results == [i \in 1 .. n |-> Result(id(i))]
           u == Text("user")
           nudge == IF nudged THEN <<Text("user")>> ELSE <<>>
           ids == {id(i) : i \in 1 .. n}
           rest == IF asked THEN <<results[1], u>> \o Tail(results) ELSE results
           Fine(m) == /\ m \in Message /\ MessageOK(m, turns + 1) /\ m.calls = {} /\ m.role # "assistant"
                      /\ \A x \in m.of : x[1] = turns
<1>1. Fine(u) /\ u \in Message
  BY MessagesMade
<1>2. ASSUME NEW i \in 1 .. n PROVE Fine(Result(id(i)))
  BY MessagesMade
<1>3. ids \in SUBSET ({turns} \X Nat)
  OBVIOUS
<1>4. nudge \in {<<>>, <<Text("user")>>}
  OBVIOUS
<1> HIDE DEF Fine, u
<1>5. results \in Seq(Message) /\ Len(results) = n /\ \A i \in 1 .. n : Fine(results[i]) /\ results[i] \in Message
  <2>1. \A i \in 1 .. n : Result(id(i)) \in Message
    BY <1>2 DEF Fine
  <2> QED BY <1>2, <2>1
<1> HIDE DEF results
<1>6. rest \in Seq(Message) /\ \A i \in DOMAIN rest : Fine(rest[i])
  <2>1. CASE ~asked
    BY <1>5, <2>1
  <2>2. CASE asked
    <3> DEFINE t == Tail(results)
               two == <<results[1], u>>
    <3>1. t \in Seq(Message) /\ Len(t) = n - 1 /\ \A i \in 1 .. (n - 1) : t[i] = results[i + 1]
      BY <1>5
    <3>2. \A i \in DOMAIN t : Fine(t[i])
      <4> SUFFICES ASSUME NEW i \in 1 .. (n - 1) PROVE Fine(t[i])
        BY <3>1
      <4>1. i + 1 \in 1 .. n
        OBVIOUS
      <4> QED BY <1>5, <3>1, <4>1
    <3>3. 1 \in 1 .. n
      OBVIOUS
    <3>4. /\ two \in Seq(Message) /\ Len(two) = 2
          /\ \A i \in 1 .. 2 : two[i] = results[1] \/ two[i] = u
      BY <1>1, <1>5, <3>3
    <3>5. rest = two \o t
      BY <2>2
    <3> HIDE DEF t, two, rest
    <3>6. /\ rest \in Seq(Message) /\ DOMAIN rest = 1 .. (2 + Len(t))
          /\ \A i \in 1 .. (2 + Len(t)) : rest[i] = IF i <= 2 THEN two[i] ELSE t[i - 2]
      <4>1. \A i \in 1 .. Len(two) + Len(t) : (two \o t)[i] = IF i <= Len(two) THEN two[i] ELSE t[i - Len(two)]
        BY <3>1, <3>4, ConcatProperties
      <4>2. two \o t \in Seq(Message) /\ Len(two \o t) = Len(two) + Len(t)
        BY <3>1, <3>4, ConcatProperties
      <4> QED BY <3>4, <3>5, <4>1, <4>2
    <3>7. ASSUME NEW i \in DOMAIN rest PROVE Fine(rest[i])
      <4>1. CASE i <= 2
        BY <1>1, <1>5, <3>3, <3>4, <3>6, <4>1
      <4>2. CASE ~(i <= 2)
        <5>1. i - 2 \in DOMAIN t /\ rest[i] = t[i - 2]
          BY <3>1, <3>6, <4>2
        <5> QED BY <3>2, <5>1
      <4> QED BY <4>1, <4>2
    <3> QED BY <3>6, <3>7
  <2> QED BY <2>1, <2>2
<1>7. Added(nudge \o <<Assistant(said, ids)>> \o rest)
  BY <1>3, <1>4, <1>6, CallsAdded DEF Fine
<1> QED BY <1>7 DEF results, u

(* A compaction keeps messages in their order, with a note between; calls  *)
(* and answers of a history that was long enough stay as they were.        *)
LEMMA NoteMade ==
  ASSUME messages \in Seq(Message)
  PROVE  LET m == Note(messages)
         IN m \in Message /\ m.role = "system" /\ m.calls = {} /\ m.of = {}
<1> DEFINE found == UNION {m.refs : m \in {m \in ToSet(Middle(messages)) : m.role = "tool"}}
           e == IF Len(messages) > KeepEnd THEN Len(messages) - KeepEnd ELSE 0
<1>1. KeepStart \in Nat /\ KeepEnd \in Nat /\ Len(messages) \in Nat
  BY LengthsAreNumbers
<1>2. KeepStart + 1 \in Int /\ e \in Int /\ e <= Len(messages)
  BY <1>1
<1>3. \A i \in KeepStart + 1 .. e : messages[i] \in Message
  BY <1>1, <1>2
<1> HIDE DEF e
<1>4. Middle(messages) \in Seq(Message)
  BY <1>2, <1>3, SubSeqProperties DEF Middle, e
<1>5. ToSet(Middle(messages)) \subseteq Message
  BY <1>4 DEF ToSet
<1>6. found \subseteq CallIds
  BY <1>5 DEF Message
<1>7. Note(messages) = [Text("system") EXCEPT !.refs = found]
  BY DEF Note
<1> HIDE DEF found
<1> QED BY <1>6, <1>7 DEF Text, Message

LEMMA CompactedKeeps ==
  ASSUME HistoryInv, NEW force \in BOOLEAN
  PROVE  LET c == Compacted(messages, force)
         IN /\ c \in Seq(Message)
            /\ \A i \in DOMAIN c : MessageOK(c[i], turns)
            /\ ~overlapped /\ (c = messages \/ ~(Len(messages) < KeepStart + KeepEnd)) => AnswersFollow(c)
<1> DEFINE c == Compacted(messages, force)
           n == Len(messages)
           head == Start(messages)
           tail == End(messages)
           note == Note(messages)
<1>1. /\ messages \in Seq(Message) /\ n \in Nat /\ DOMAIN messages = 1 .. n
      /\ \A i \in 1 .. n : messages[i] \in Message
      /\ KeepStart \in Nat /\ KeepEnd \in Nat
  BY LengthsAreNumbers DEF HistoryInv
<1>2. CASE c = messages
  BY <1>2 DEF HistoryInv
<1>3. CASE c # messages
  <2>1. c = head \o <<note>> \o tail
    BY <1>3 DEF Compacted
  <2> DEFINE a == IF KeepStart < n THEN KeepStart ELSE n
             b == IF n > KeepEnd THEN n - KeepEnd + 1 ELSE 1
  <2>2. a \in Nat /\ a <= n /\ b \in Nat /\ 1 <= b /\ b <= n + 1
    BY <1>1
  <2>3. ~(n < KeepStart + KeepEnd) => a < b
    BY <1>1, LengthsAreNumbers
  <2> HIDE DEF a, b
  <2>4. head \in Seq(Message) /\ Len(head) = a /\ \A i \in 1 .. a : head[i] = messages[i]
    BY <1>1, <2>2, SubSeqProperties DEF Start, a
  <2>5. /\ tail \in Seq(Message) /\ Len(tail) = n - b + 1
        /\ \A i \in 1 .. (n - b + 1) : tail[i] = messages[i + b - 1]
    <3>1. tail = SubSeq(messages, b, n)
      BY DEF End, b
    <3>2. \A i \in b .. n : messages[i] \in Message
      BY <1>1, <2>2
    <3> HIDE DEF tail, n
    <3> QED BY <1>1, <2>2, <3>1, <3>2, SubSeqProperties
  <2>6. note \in Message /\ note.role = "system" /\ note.calls = {} /\ note.of = {}
    BY <1>1, NoteMade
  <2> HIDE DEF head, tail, note
  <2> DEFINE ht == head \o <<note>>
  <2>7. /\ ht \in Seq(Message) /\ Len(ht) = a + 1
        /\ \A i \in 1 .. (a + 1) : ht[i] = IF i <= a THEN messages[i] ELSE note
    BY <2>2, <2>4, <2>6
  <2> HIDE DEF ht
  <2>8. c = ht \o tail
    BY <2>1 DEF ht
  <2>9. ht \o tail \in Seq(Message) /\ Len(ht \o tail) = Len(ht) + Len(tail)
    BY <2>5, <2>7, ConcatProperties
  <2>10. \A i \in 1 .. Len(ht) + Len(tail) : (ht \o tail)[i] = IF i <= Len(ht) THEN ht[i] ELSE tail[i - Len(ht)]
    BY <2>5, <2>7, ConcatProperties
  <2> HIDE DEF c
  <2>11. c \in Seq(Message) /\ DOMAIN c = 1 .. (a + 1 + (n - b + 1))
    BY <2>5, <2>7, <2>8, <2>9
  <2> DEFINE from(i) == IF i <= a THEN i ELSE i + b - a - 2
  <2>12. ASSUME NEW i \in DOMAIN c, i # a + 1
         PROVE  from(i) \in 1 .. n /\ c[i] = messages[from(i)]
    <3>1. CASE i <= a
      <4>1. i \in 1 .. (a + 1) /\ i \in 1 .. Len(ht) + Len(tail) /\ i <= Len(ht) /\ from(i) = i /\ i \in 1 .. n
        BY <1>1, <2>2, <2>5, <2>7, <2>11, <3>1
      <4> QED BY <2>7, <2>8, <2>10, <3>1, <4>1
    <3>2. CASE ~(i <= a)
      <4>1. /\ i \in 1 .. Len(ht) + Len(tail) /\ ~(i <= Len(ht)) /\ i - Len(ht) \in 1 .. (n - b + 1)
            /\ from(i) = (i - Len(ht)) + b - 1 /\ from(i) \in 1 .. n
        <5>1. i \in 1 .. (a + 1 + (n - b + 1)) /\ Len(ht) = a + 1 /\ Len(tail) = n - b + 1
          BY <2>5, <2>7, <2>11
        <5>2. i > a + 1
          BY <2>2, <2>12, <3>2, <5>1
        <5> QED BY <1>1, <2>2, <3>2, <5>1, <5>2
      <4> QED BY <2>5, <2>8, <2>10, <4>1
    <3> QED BY <3>1, <3>2
  <2>13. c[a + 1] = note
    <3>1. a + 1 \in 1 .. (a + 1) /\ a + 1 \in 1 .. Len(ht) + Len(tail) /\ a + 1 <= Len(ht) /\ ~(a + 1 <= a)
      BY <1>1, <2>2, <2>5, <2>7
    <3> QED BY <2>7, <2>8, <2>10, <3>1
  <2>14. \A i \in DOMAIN c : MessageOK(c[i], turns)
    <3>1. MessageOK(note, turns)
      BY <2>6 DEF MessageOK
    <3>2. \A i \in 1 .. n : MessageOK(messages[i], turns)
      BY <1>1 DEF HistoryInv
    <3> QED BY <2>12, <2>13, <3>1, <3>2
  <2>15. ASSUME ~overlapped, ~(n < KeepStart + KeepEnd),
                NEW i \in DOMAIN c, NEW j \in DOMAIN c, NEW id \in c[i].calls \cap c[j].of
         PROVE  i < j /\ \A k \in DOMAIN c : i < k /\ k < j => c[k].role # "assistant"
    <3>1. i # a + 1 /\ j # a + 1
      BY <2>6, <2>13, <2>15
    <3>2. from(i) \in 1 .. n /\ from(j) \in 1 .. n /\ id \in messages[from(i)].calls \cap messages[from(j)].of
      BY <2>12, <2>15, <3>1
    <3>3. from(i) < from(j) /\ \A k \in 1 .. n : from(i) < k /\ k < from(j) => messages[k].role # "assistant"
      BY <1>1, <2>15, <3>2 DEF HistoryInv, AnswersFollow
    <3>4. a < b
      BY <2>3, <2>15
    <3>5. \A k, m \in DOMAIN c : k # a + 1 /\ m # a + 1 /\ k < m => from(k) < from(m)
      BY <1>1, <2>2, <2>11, <3>4
    <3>6. i < j
      <4>1. i \in Nat /\ j \in Nat /\ from(i) \in Nat /\ from(j) \in Nat
        BY <1>1, <2>2, <2>11, <3>2
      <4>2. j < i => from(j) < from(i)
        BY <3>1, <3>5
      <4>3. i # j
        BY <3>3, <4>1
      <4> QED BY <3>3, <4>1, <4>2, <4>3
    <3>7. ASSUME NEW k \in DOMAIN c, i < k, k < j PROVE c[k].role # "assistant"
      <4>1. CASE k = a + 1
        BY <2>6, <2>13, <4>1
      <4>2. CASE k # a + 1
        <5>1. from(k) \in 1 .. n /\ c[k] = messages[from(k)] /\ from(i) < from(k) /\ from(k) < from(j)
          BY <2>12, <3>1, <3>5, <3>7, <4>2
        <5> QED BY <3>3, <5>1
      <4> QED BY <4>1, <4>2
    <3> QED BY <3>6, <3>7
  <2>16. ~overlapped /\ ~(n < KeepStart + KeepEnd) => AnswersFollow(c)
    BY <2>15 DEF AnswersFollow
  <2> QED BY <1>3, <2>11, <2>14, <2>16 DEF c
<1> QED BY <1>2, <1>3

LEMMA HistoryInitOK == HistoryInit => HistoryInv
<1> SUFFICES ASSUME HistoryInit PROVE HistoryInv
  OBVIOUS
<1>1. messages = <<>> /\ DOMAIN messages = {} /\ turns = 0 /\ overlapped = FALSE
  BY DEF HistoryInit
<1>2. messages \in Seq(Message)
  <2>1. <<>> \in Seq(Message)
    OBVIOUS
  <2> QED BY <1>1, <2>1, Zenon
<1>3. \A i \in DOMAIN messages : MessageOK(messages[i], turns)
  BY <1>1
<1>4. AnswersFollow(messages)
  BY <1>1 DEF AnswersFollow
<1> QED BY <1>1, <1>2, <1>3, <1>4 DEF HistoryInv

LEMMA HistoryStepOK == HistoryInv /\ [HistoryNext]_historyVars => HistoryInv'
<1> SUFFICES ASSUME HistoryInv, [HistoryNext]_historyVars PROVE HistoryInv'
  OBVIOUS
<1>1. /\ messages \in Seq(Message) /\ turns \in Nat /\ overlapped \in BOOLEAN
      /\ \A i \in DOMAIN messages : MessageOK(messages[i], turns)
      /\ ~overlapped => AnswersFollow(messages)
  BY DEF HistoryInv
<1>2. CASE CompactAtOverflow
  <2>1. messages' = Compacted(messages, FALSE) /\ turns' = turns
        /\ overlapped' = (overlapped \/ Len(messages) < KeepStart + KeepEnd)
    BY <1>2 DEF CompactAtOverflow
  <2> QED BY <1>1, <2>1, CompactedKeeps DEF HistoryInv
<1>3. ASSUME NEW base, base \in Seq(Message), \A i \in DOMAIN base : MessageOK(base[i], turns),
             ~overlapped' => AnswersFollow(base), overlapped' \in BOOLEAN,
             NEW add, Added(add), messages' = base \o add, turns' = turns + 1
      PROVE  HistoryInv'
  <2>1. messages' \in Seq(Message) /\ \A i \in DOMAIN messages' : MessageOK(messages'[i], turns')
    BY <1>1, <1>3, AppendKeeps
  <2>2. ~overlapped' => AnswersFollow(messages')
    BY <1>1, <1>3, AppendKeeps
  <2>3. turns' \in Nat
    BY <1>1, <1>3
  <2> QED BY <1>3, <2>1, <2>2, <2>3 DEF HistoryInv, AnswersFollow, MessageOK
<1>4. CASE ToolTurn
  <2>1. PICK n \in 1 .. 2, said, nudged, asked \in BOOLEAN :
          LET id(i) == <<turns, i>>
              results == [i \in 1 .. n |-> Result(id(i))]
          IN messages' = messages \o ((IF nudged THEN <<Text("user")>> ELSE <<>>)
                  \o <<Assistant(said, {id(i) : i \in 1 .. n})>>
                  \o (IF asked THEN <<results[1], Text("user")>> \o Tail(results) ELSE results))
    BY <1>4 DEF ToolTurn, Turn
  <2>2. turns' = turns + 1 /\ overlapped' = overlapped
    BY <1>4 DEF ToolTurn, Turn
  <2> QED BY <1>1, <1>3, <2>1, <2>2, ToolsAdded
<1>5. CASE QuietTurn
  <2>1. PICK said \in BOOLEAN : messages' = messages \o <<Assistant(said, {}), Text("user")>>
    BY <1>5 DEF QuietTurn, Turn
  <2>2. turns' = turns + 1 /\ overlapped' = overlapped
    BY <1>5 DEF QuietTurn, Turn
  <2> QED BY <1>1, <1>3, <2>1, <2>2, PlainAdded
<1>6. CASE ErrorTurn
  <2> DEFINE forced == errors' >= 2
             base == IF forced THEN Compacted(messages, TRUE) ELSE messages
  <2>1. /\ messages' = base \o <<Text("user")>> /\ turns' = turns + 1
        /\ overlapped' = (overlapped \/ (forced /\ Len(messages) > MinForced /\ Len(messages) < KeepStart + KeepEnd))
    BY <1>6 DEF ErrorTurn, Turn
  <2>2. ~(Len(messages) > MinForced) => Compacted(messages, TRUE) = messages
    BY <1>1, LengthsAreNumbers DEF Compacted
  <2>3. base \in Seq(Message) /\ \A i \in DOMAIN base : MessageOK(base[i], turns)
    BY <1>1, CompactedKeeps
  <2>4. ~overlapped' => AnswersFollow(base)
    BY <1>1, <2>1, <2>2, CompactedKeeps
  <2>5. overlapped' \in BOOLEAN
    BY <1>1, <2>1
  <2> QED BY <1>1, <1>3, <2>1, <2>3, <2>4, <2>5, PlainAdded
<1>7. CASE UNCHANGED historyVars
  BY <1>7 DEF historyVars, HistoryInv, AnswersFollow, MessageOK
<1> QED BY <1>2, <1>4, <1>5, <1>6, <1>7 DEF HistoryNext

(* For any number of turns, calls and compactions, and for any lengths the *)
(* compaction keeps: the request begins with the user, its roles           *)
(* alternate, and every tool call in it is answered in the very next turn, *)
(* as long as no compaction found less than what it keeps                  *)
(* (compactMessages, runCompletion, mapAnthropicMessages).                 *)
THEOREM RequestsStayValid == HistorySpec => []RequestIsValid
<1>1. HistoryInv => RequestIsValid
  <2> SUFFICES ASSUME HistoryInv, ~overlapped PROVE Valid(AnthropicMessages(Assembled(messages, FALSE)))
    BY DEF RequestIsValid, Valid
  <2> DEFINE ts == Normalized(Assembled(messages, FALSE))
  <2>1. Turns(ts) /\ Ordered(ts) /\ 1 \in DOMAIN ts /\ ts[1].role = "user" /\ TextBlock \in ts[1].content
    BY NormalizedIsOrdered
  <2> HIDE DEF ts
  <2>2. Valid(MergedTurns(Scrubbed(MergedTurns(ts))))
    BY <2>1, TranslationIsValid
  <2> QED BY <2>2 DEF AnthropicMessages, ts
<1> QED BY <1>1, HistoryInitOK, HistoryStepOK, PTL DEF HistorySpec
=============================================================================
