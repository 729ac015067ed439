--------------------------- MODULE MessageHistory ---------------------------
(***************************************************************************)
(* The working history of a run: what each turn of agent-loop.ts appends   *)
(* to internal.messages, compactMessages, the request runCompletion        *)
(* assembles from it, and its translation for Anthropic-format endpoints   *)
(* (mapAnthropicMessages of forge-provider/src/base.ts).                   *)
(*                                                                         *)
(* A message is its role, whether it has text, the tool calls it makes,    *)
(* the call it answers and the artifact references in its text (one per    *)
(* tool result).                                                           *)
(***************************************************************************)
EXTENDS Naturals, Sequences, FiniteSets, SequencesExt

CONSTANTS KeepStart,  \* 4 in the code: messages kept at the head
          KeepEnd,    \* 30: messages kept at the tail
          MinForced,  \* 12: no forced compaction up to this length
          MinPlain,   \* 30: no other compaction up to this length
          MaxTurns    \* bound: turns of the run

ASSUME LengthsAreNumbers == {KeepStart, KeepEnd, MinForced, MinPlain, MaxTurns} \subseteq Nat \ {0}

VARIABLES messages,   \* internal.messages
          errors,     \* consecutiveErrors
          turns,      \* turns so far; a turn's calls are named after it
          overlapped, \* history: some compaction found less than start and end
          system      \* body.system of the last request, as a set of messages

historyVars == <<messages, errors, turns, overlapped, system>>

Text(role) == [role |-> role, said |-> TRUE, calls |-> {}, of |-> {}, refs |-> {}]
Assistant(said, ids) == [Text("assistant") EXCEPT !.said = said, !.calls = ids]
Result(id) == [Text("tool") EXCEPT !.of = {id}, !.refs = {id}]

-----------------------------------------------------------------------------
(* compactMessages: slice(0, KeepStart), a note of role system, and        *)
(* slice(-KeepEnd); the note names what the tool results between them name.*)
Start(h) == SubSeq(h, 1, IF KeepStart < Len(h) THEN KeepStart ELSE Len(h))
End(h) == SubSeq(h, IF Len(h) > KeepEnd THEN Len(h) - KeepEnd + 1 ELSE 1, Len(h))
Middle(h) == SubSeq(h, KeepStart + 1, IF Len(h) > KeepEnd THEN Len(h) - KeepEnd ELSE 0)

Note(h) ==
  [Text("system") EXCEPT
     !.refs = UNION {m.refs : m \in {m \in ToSet(Middle(h)) : m.role = "tool"}}]

Compacted(h, force) ==
  IF (~force /\ Len(h) <= MinPlain) \/ Len(h) <= MinForced THEN h
  ELSE Start(h) \o <<Note(h)>> \o End(h)

(* The top of an iteration, when the last prompt was over the budget.      *)
CompactAtOverflow ==
  /\ Compacted(messages, FALSE) # messages
  /\ messages' = Compacted(messages, FALSE)
  /\ overlapped' = (overlapped \/ Len(messages) < KeepStart + KeepEnd)
  /\ UNCHANGED <<errors, turns, system>>

-----------------------------------------------------------------------------
(* runCompletion: the task, the history, and the situation report when     *)
(* tests are failing.  The system prompt is handed over beside them.       *)
Task == Text("user")
Assembled(h, report) == <<Task>> \o h \o (IF report THEN <<Text("user")>> ELSE <<>>)

(* getSystemMessage: every provider takes its system parameter from the    *)
(* first inline message of role system.                                    *)
SystemOf(request) ==
  IF \E m \in ToSet(request) : m.role = "system"
  THEN {SelectSeq(request, LAMBDA m : m.role = "system")[1]} ELSE {}

(* mapAnthropicMessages.  A turn keeps the place of the first message it   *)
(* is made of, so the turns are a function on some of the places; its      *)
(* content is a set of blocks.                                             *)
Block(type, id) == [type |-> type, id |-> id]
TextBlock == Block("text", <<0, 0>>)

Blocks(m) ==
  IF m.role = "tool" THEN {Block("tool_result", id) : id \in m.of}
  ELSE {TextBlock : said \in {m.said} \cap {TRUE}} \cup {Block("tool_use", id) : id \in m.calls}

Normalized(request) ==
  [i \in DOMAIN request |->
     [role |-> IF request[i].role = "assistant" THEN "assistant" ELSE "user",
      content |-> Blocks(request[i])]]

\* The turns from i to j are all of one role; no turn is between i and j.
Joined(ts, i, j) == i <= j /\ \A k \in DOMAIN ts : k \in i .. j => ts[k].role = ts[i].role
Adjoining(ts, i, j) == i < j /\ \A k \in DOMAIN ts : k <= i \/ j <= k

MergedTurns(ts) ==
  [i \in {i \in DOMAIN ts : \A k \in DOMAIN ts : k < i => ~Joined(ts, k, i)} |->
     [role |-> ts[i].role,
      content |-> UNION {ts[j].content : j \in {j \in DOMAIN ts : Joined(ts, i, j)}}]]

BlocksOf(ts) == UNION {ts[i].content : i \in DOMAIN ts}

\* Mutant: blocks without a partner are kept.
PartneredAll(ts, b) == TRUE

Partnered(ts, b) ==
  \/ b.type = "text"
  \/ b.type = "tool_use" /\ Block("tool_result", b.id) \in BlocksOf(ts)
  \/ b.type = "tool_result" /\ Block("tool_use", b.id) \in BlocksOf(ts)

Scrubbed(ts) ==
  LET left(i) == {b \in ts[i].content : Partnered(ts, b)}
  IN [i \in {i \in DOMAIN ts : left(i) # {}} |-> [role |-> ts[i].role, content |-> left(i)]]

AnthropicMessages(request) == MergedTurns(Scrubbed(MergedTurns(Normalized(request))))

-----------------------------------------------------------------------------
(* handleCompletion, by what the model answered.                           *)
Turn(before, added) ==
  /\ turns < MaxTurns /\ turns' = turns + 1
  /\ \E report \in BOOLEAN : system' = SystemOf(Assembled(messages, report))
  /\ messages' = before \o added

(* Tool calls: nudges of the tool loop go to the history at once, the      *)
(* assistant's message and its results after the loop, a note on a         *)
(* question right after its result.                                        *)
ToolTurn ==
  \E n \in 1..2, said, nudged, asked \in BOOLEAN :
    LET id(i) == <<turns, i>>
        results == [i \in 1..n |-> Result(id(i))] IN
    /\ Turn(messages,
            (IF nudged THEN <<Text("user")>> ELSE <<>>)
            \o <<Assistant(said, {id(i) : i \in 1..n})>>
            \o (IF asked THEN <<results[1], Text("user")>> \o Tail(results) ELSE results))
    /\ errors' = 0
    /\ UNCHANGED overlapped

(* The run's last turn may leave results out: the loop breaks at           *)
(* finish_task, and a resumed run starts with another history.             *)

(* No tool call, or cut at the token limit: an answer and a nudge.         *)
QuietTurn ==
  /\ \E said \in BOOLEAN : Turn(messages, <<Assistant(said, {}), Text("user")>>)
  /\ errors' = 0
  /\ UNCHANGED overlapped

(* A failed call: from the second in a row on, a forced compaction.        *)
ErrorTurn ==
  /\ errors < 4
  /\ errors' = errors + 1
  /\ LET forced == errors' >= 2 IN
       /\ Turn(IF forced THEN Compacted(messages, TRUE) ELSE messages, <<Text("user")>>)
       /\ overlapped' = (overlapped \/ (forced /\ Len(messages) > MinForced
                                               /\ Len(messages) < KeepStart + KeepEnd))

HistoryInit ==
  /\ messages = <<>> /\ errors = 0 /\ turns = 0 /\ overlapped = FALSE
  /\ system = {}

HistoryNext == CompactAtOverflow \/ ToolTurn \/ QuietTurn \/ ErrorTurn

HistorySpec == HistoryInit /\ [][HistoryNext]_historyVars
-----------------------------------------------------------------------------
(* The request is one an Anthropic endpoint takes, after any turns and any *)
(* compactions: it begins with the user, roles alternate, and each tool    *)
(* call is answered in the very next turn, each answer is to the turn      *)
(* before.  A compaction of a history shorter than its two ends repeats    *)
(* messages; from then on the promise is off.                              *)
RequestIsValid ==
  ~overlapped =>
    LET ts == AnthropicMessages(Assembled(messages, FALSE)) IN
    /\ \E i \in DOMAIN ts : ts[i].role = "user" /\ \A j \in DOMAIN ts : i <= j
    /\ \A i, j \in DOMAIN ts : Adjoining(ts, i, j) => ts[i].role # ts[j].role
    /\ \A i \in DOMAIN ts : \A b \in ts[i].content :
         /\ b.type = "tool_use" =>
              \E j \in DOMAIN ts : Adjoining(ts, i, j) /\ Block("tool_result", b.id) \in ts[j].content
         /\ b.type = "tool_result" =>
              \E j \in DOMAIN ts : Adjoining(ts, j, i) /\ Block("tool_use", b.id) \in ts[j].content

(* "System proper is passed separately": a request carries the prompt of   *)
(* the agent as its system parameter.                                      *)
SystemPrompt == Text("prompt")
SystemProperIsPassed == [][turns' # turns => system' = {SystemPrompt}]_historyVars
=============================================================================
