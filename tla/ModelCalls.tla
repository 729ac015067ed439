----------------------------- MODULE ModelCalls -----------------------------
(***************************************************************************)
(* One completion of the agent loop (runCompletion of agent-loop.ts): at   *)
(* most MaxAttempts streams of a provider (anthropic.ts, minimax.ts and    *)
(* openai.ts of forge-provider), whose events are gathered into tool calls *)
(* and merged into one result.  The provider object lives on from stream   *)
(* to stream with its map of pending tool calls.                           *)
(*                                                                         *)
(* The arguments of a call arrive in two parts; a part is kept as the call *)
(* it was sent for, so that parts which reach a wrong call are seen.       *)
(***************************************************************************)
EXTENDS Naturals, Sequences, FiniteSets, SequencesExt

CONSTANTS MaxAttempts,    \* attempts of runCompletion
          MaxCompletions, \* bound: completions with one provider object
          MaxToolCalls    \* bound: tool calls of one response

ASSUME AttemptsArePositive == MaxAttempts \in Nat \ {0}

VARIABLES format,   \* wire format of the provider
          pendingToolCalls, \* the provider's map: sequence of [id, parts], by insertion
          attempt,  \* 0 when no completion runs
          sent,     \* what this response started: sequence of call ids
          ending,   \* "open", "cut" (out of tokens), "complete": what the model did
          result,   \* last completion's result: [finish, calls] with what was sent;
                    \* the calls as a set, their order being that of the map
          made      \* ids used so far

modelVars == <<format, pendingToolCalls, attempt, sent, ending, result, made>>

NoResult == [finish |-> "none", calls |-> {}, sent |-> {}, cut |-> FALSE]

\* Mutant: the map is not cleared when a completion begins.
ClearedNot(map) == map

(* complete(): this.pendingToolCalls.clear().                              *)
Cleared(map) == <<>>

BeginStream ==
  /\ pendingToolCalls' = Cleared(pendingToolCalls)
  /\ sent' = <<>> /\ ending' = "open"

Complete ==
  /\ attempt = 0 /\ attempt' = 1
  /\ made < MaxCompletions * MaxToolCalls
  /\ BeginStream
  /\ result' = NoResult
  /\ UNCHANGED <<format, made>>

-----------------------------------------------------------------------------
(* Events of a stream.  Anthropic sends block after block; the deltas of   *)
(* OpenAI carry the index of their call, in any order.                     *)
Parts(id) == Len(pendingToolCalls[CHOOSE i \in DOMAIN pendingToolCalls : pendingToolCalls[i].id = id].parts)
AllSent == \A i \in DOMAIN pendingToolCalls :
             pendingToolCalls[i].id \in ToSet(sent) => Len(pendingToolCalls[i].parts) = 2

StartCall ==
  /\ attempt > 0 /\ ending = "open" /\ Len(sent) < MaxToolCalls
  /\ format = "anthropic" => AllSent
  /\ made' = made + 1
  /\ sent' = Append(sent, made')
  /\ pendingToolCalls' = Append(pendingToolCalls, [id |-> made', parts |-> <<>>])
  /\ UNCHANGED <<format, attempt, ending, result>>

(* The call a part is added to: the one of its index (openai.ts); the one  *)
(* inserted last (anthropic.ts, minimax.ts).                               *)
\* Mutant: the first call of the map takes every part.
TargetFirst(id) == IF format = "openai" THEN {i \in DOMAIN pendingToolCalls : pendingToolCalls[i].id = id}
                   ELSE {1}

Target(id) == IF format = "openai" THEN {i \in DOMAIN pendingToolCalls : pendingToolCalls[i].id = id}
              ELSE {Len(pendingToolCalls)}

ArgumentPart ==
  /\ attempt > 0 /\ ending = "open"
  /\ \E id \in ToSet(sent) :
       /\ Parts(id) < 2
       /\ format = "anthropic" => id = Last(sent)
       /\ pendingToolCalls' = [i \in DOMAIN pendingToolCalls |->
            IF i \in Target(id) THEN [pendingToolCalls[i] EXCEPT !.parts = Append(@, id)]
            ELSE pendingToolCalls[i]]
  /\ UNCHANGED <<format, attempt, sent, ending, result, made>>

(* The model ends its message: with its calls whole, with none, or cut off.*)
Stops ==
  /\ attempt > 0 /\ ending = "open"
  /\ ending' \in IF AllSent THEN {"complete", "cut"} ELSE {"cut"}
  /\ UNCHANGED <<format, pendingToolCalls, attempt, sent, result, made>>

(* safeParseToolInput: whole, repaired to what there is, or unparseable.   *)
Parses(t) == IF Len(t.parts) = 1 THEN {"partial", "undefined"}
             ELSE IF t.parts = <<>> THEN {"empty"} ELSE {"whole"}

\* Mutant: calls that cannot be parsed are dropped without a word.
FinishOfQuiet(calls, dropped) == IF calls # {} THEN "tool_calls" ELSE "stop"

(* anthropic.ts, minimax.ts: the stop reason is overwritten by             *)
(* message_stop, the calls are emitted after it, a dropped call last.      *)
FinishOf(calls, dropped) ==
  IF dropped THEN "length" ELSE IF calls # {} THEN "tool_calls" ELSE "stop"

CallOf(t, input) == [id |-> t.id, input |-> input, parts |-> ToSet(t.parts)]
Emitted(inputs) == {CallOf(pendingToolCalls[j], inputs[j]) : j \in {k \in DOMAIN pendingToolCalls : inputs[k] # "undefined"}}

AnthropicEnds ==
  /\ attempt > 0 /\ ending # "open" /\ format = "anthropic"
  /\ \E inputs \in [DOMAIN pendingToolCalls -> {"whole", "partial", "empty", "undefined"}] :
       /\ \A i \in DOMAIN pendingToolCalls : inputs[i] \in Parses(pendingToolCalls[i])
       /\ LET calls == Emitted(inputs)
              dropped == \E i \in DOMAIN inputs : inputs[i] = "undefined"
          IN result' = [finish |-> FinishOf(calls, dropped), calls |-> calls,
                        sent |-> ToSet(sent), cut |-> ending = "cut"]
  /\ attempt' = 0
  /\ UNCHANGED <<format, pendingToolCalls, sent, ending, made>>

(* openai.ts: the calls go out with finish_reason 'tool_calls' only; with  *)
(* another reason the server gives, or none before the body ends ('stop'),  *)
(* they stay in the map.  Arguments that do not parse become {}.            *)
OpenAiEnds ==
  /\ attempt > 0 /\ ending # "open" /\ format = "openai"
  /\ \E finish \in {"tool_calls", "stop", "length"} :
       result' = [finish |-> finish,
                  calls |-> IF finish # "tool_calls" THEN {}
                            ELSE {CallOf(t, IF Len(t.parts) = 2 THEN "whole" ELSE "empty") : t \in ToSet(pendingToolCalls)},
                  sent |-> ToSet(sent), cut |-> ending = "cut"]
  /\ attempt' = 0
  /\ UNCHANGED <<format, pendingToolCalls, sent, ending, made>>

(* An HTTP error, a broken connection: the next attempt, on the same       *)
(* object, or 'error' after the last one.                                  *)
StreamFails ==
  /\ attempt > 0
  /\ IF attempt < MaxAttempts
     THEN attempt' = attempt + 1 /\ BeginStream /\ result' = result
     ELSE /\ attempt' = 0 /\ result' = [NoResult EXCEPT !.finish = "error"]
          /\ UNCHANGED <<pendingToolCalls, sent, ending>>
  /\ UNCHANGED <<format, made>>

ModelInit ==
  /\ format \in {"anthropic", "openai"}
  /\ pendingToolCalls = <<>> /\ attempt = 0 /\ sent = <<>>
  /\ ending = "open" /\ result = NoResult /\ made = 0

ModelNext ==
  \/ Complete \/ StartCall \/ ArgumentPart \/ Stops
  \/ AnthropicEnds \/ OpenAiEnds \/ StreamFails

ModelSpec == ModelInit /\ [][ModelNext]_modelVars
-----------------------------------------------------------------------------
(* A tool call that is executed was asked for in this very response, with  *)
(* arguments sent for it: nothing is left over from a stream that failed   *)
(* or from an earlier turn, although the provider object is the same.      *)
CallsAreOfThisResponse ==
  \A c \in result.calls : c.id \in result.sent /\ c.parts \subseteq {c.id}

(* The loop does not take a part of what the model asked for as the whole:  *)
(* a response that loses some of its calls says so, as 'length' or as an    *)
(* error.  Only openai.ts loses all of them without a word, and then the    *)
(* response asks for nothing.                                               *)
NoResponseIsHalved ==
  {c.id : c \in result.calls} # result.sent =>
    \/ result.finish \in {"length", "error"}
    \/ format = "openai" /\ result.calls = {}
=============================================================================
