--------------------------- MODULE PermissionGate ---------------------------
(* PermissionEngine and the part of the tool loop that obeys it: the rules  *)
(* of a mode with those of the configuration appended, the verdict on a     *)
(* call, and what becomes of the call and of the run.  A path or command is *)
(* the class of values the patterns tell apart; what a call has the shell   *)
(* do is told apart from that, since not every command is shown to them.    *)
EXTENDS Naturals, Sequences

CONSTANT MaxCalls    \* calls a model makes in the runs of one task

VARIABLES
  rules,      \* the rule chain of the engine
  readOnly,   \* mode explore, review or research
  executed,   \* the calls handed to the executor
  refused,    \* results "Permission denied" and "Blocked (not executed)"
  declined,   \* entries of the decision ledger: shell commands declined
  question,   \* tools with an open question of the task
  runState,   \* "unset", "running" or "blocked"
  tried       \* calls made so far

gateVars == <<rules, readOnly, executed, refused, declined, question, runState, tried>>

WriteTools == {"write_file", "edit_file"}
FreeTools == {"search_code", "finish_task", "run_tests", "run_verification", "rollback_checkpoint"}
Values == {"inDomain", "domainDots", "inRepo", "dots", "destructive", "plain", "missing"}

(* pickPatternValue: a call of another tool counts as the pattern itself.   *)
ArgumentOf ==
  [t \in WriteTools \cup FreeTools \cup {"read_file", "run_command", "capability", "unknown"} |->
     CASE t \in WriteTools \cup {"read_file"} -> {"inDomain", "domainDots", "inRepo", "dots", "missing"}
       [] t = "run_command" -> {"destructive", "plain", "missing"}
       [] OTHER -> {"star"}]

(* What a call hands to a shell: run_tests whatever command it is given,    *)
(* run_verification the scripts of package.json.                            *)
CommandsOf(tool, value) ==
  CASE tool = "run_command" /\ value # "missing" -> {value}
    [] tool = "run_tests" -> {"destructive", "plain"}
    [] tool = "run_verification" -> {"plain"}
    [] OTHER -> {"none"}

ToolCallsMade ==
  {c \in [tool : DOMAIN ArgumentOf, value : Values \cup {"star"}, command : {"destructive", "plain", "none"}] :
     c.value \in ArgumentOf[c.tool] /\ c.command \in CommandsOf(c.tool, c.value)}

(* matchPattern                                                             *)
Matched == [all |-> Values \cup {"star"}, domain |-> {"inDomain", "domainDots"}, dots |-> {"domainDots", "dots"}]

Rule(tool, pattern, action) == [tool |-> tool, pattern |-> pattern, action |-> action]
AllowAll(tools) == [i \in DOMAIN tools |-> Rule(tools[i], "all", "allow")]

ReadOnlyRules ==
  <<Rule("write_file", "all", "deny"), Rule("edit_file", "all", "deny"),
    Rule("run_command", "all", "ask"), Rule("read_file", "all", "allow")>>

(* defaultRules: the rules of the active domains come before those of the   *)
(* whole repository.                                                        *)
DefaultRules(inReadOnly) ==
  IF inReadOnly THEN ReadOnlyRules
  ELSE AllowAll(<<"read_file", "search_code", "run_command", "finish_task", "run_tests",
                  "run_verification", "rollback_checkpoint", "capability">>)
       \o <<Rule("write_file", "domain", "allow"), Rule("edit_file", "domain", "allow")>>
       \o <<Rule("write_file", "dots", "deny"), Rule("write_file", "all", "allow"),
            Rule("edit_file", "dots", "deny"), Rule("edit_file", "all", "allow")>>

(* config.permissionRules: nobody validates them.                           *)
ConfiguredRules ==
  [tool : {"write_file", "run_command", "run_tests", "unknown", "any"},
   pattern : {"all", "domain"}, action : {"allow", "deny", "ask"}]

Applies(rule, call) ==
  rule.tool \in {call.tool, "any"} /\ call.value # "missing" /\ call.value \in Matched[rule.pattern]

(* Only the command of run_command is classified.                           *)
IsDestructive(call) == call.tool = "run_command" /\ call.value = "destructive"

(* The places of the rules that match, and the first of them.               *)
Matching(chain, call) == {i \in DOMAIN chain : Applies(chain[i], call)}
FirstRule(places) == CHOOSE i \in places : \A j \in places : i <= j

\* Mutant: the first rule that matches decides, denies included.
DecisionFirstMatch(chain, call) ==
  LET matching == Matching(chain, call) IN
  IF IsDestructive(call) THEN "ask"
  ELSE IF matching = {} THEN "deny" ELSE chain[FirstRule(matching)].action

(* evaluate: destructive commands ask, any deny wins, then the first match; *)
(* nothing matched is a deny.                                               *)
Decision(chain, call) ==
  LET matching == Matching(chain, call) IN
  IF IsDestructive(call) THEN "ask"
  ELSE IF matching = {} \/ \E i \in matching : chain[i].action = "deny" THEN "deny"
  ELSE chain[FirstRule(matching)].action

GateInit ==
  /\ rules = <<>> /\ readOnly = FALSE
  /\ executed = {} /\ refused = {} /\ declined = 0 /\ question = {}
  /\ runState = "unset" /\ tried = 0

(* initSubsystems, at the start of a run and again when it is resumed       *)
(* perhaps in another mode and with another configuration.                  *)
InitEngine ==
  /\ runState \in {"unset", "blocked"} /\ tried < MaxCalls
  /\ runState' = "running"
  /\ executed' = {} /\ refused' = {}
  /\ \E mode \in BOOLEAN, extra \in {<<>>} \cup {<<r>> : r \in ConfiguredRules} :
       readOnly' = mode /\ rules' = DefaultRules(mode) \o extra
  /\ UNCHANGED <<declined, question, tried>>

Execute(call) ==
  /\ Decision(rules, call) = "allow"
  /\ executed' = executed \cup {call}
  /\ UNCHANGED <<refused, declined, question, runState>>

Deny(call) ==
  /\ Decision(rules, call) = "deny"
  /\ refused' = refused \cup {call}
  /\ UNCHANGED <<executed, declined, question, runState>>

(* A shell command that needs approval is declined and the run goes on.     *)
Decline(call) ==
  /\ Decision(rules, call) = "ask" /\ call.tool = "run_command"
  /\ refused' = refused \cup {call} /\ declined' = declined + 1
  /\ UNCHANGED <<executed, question, runState>>

(* Any other call that needs approval ends the run with a question.         *)
AskHuman(call) ==
  /\ Decision(rules, call) = "ask" /\ call.tool # "run_command"
  /\ question' = question \cup {call.tool} /\ runState' = "blocked"
  /\ UNCHANGED <<executed, refused, declined>>

ToolCall(call) ==
  /\ runState = "running" /\ tried < MaxCalls
  /\ tried' = tried + 1
  /\ Execute(call) \/ Deny(call) \/ Decline(call) \/ AskHuman(call)
  /\ UNCHANGED <<rules, readOnly>>

GateNext == InitEngine \/ \E call \in ToolCallsMade : ToolCall(call)

GateSpec == GateInit /\ [][GateNext]_gateVars
-----------------------------------------------------------------------------
(* Whatever rules the configuration appends: a read-only run writes no file *)
(* and calls no run_command, and what it does besides reading, a rule of    *)
(* the configuration allows; no run writes through a path with ".."; a      *)
(* destructive command runs by way of run_tests or not at all; no call is   *)
(* both executed and refused, only a run with an open question waits for a  *)
(* human, and one more deny rule than the run begins with takes permissions *)
(* away and never gives any.                                                *)
PermissionsHold ==
  /\ \A c \in executed :
       /\ readOnly =>
            /\ c.tool \notin WriteTools \cup {"run_command"}
            /\ \/ c.tool = "read_file"
               \/ \E i \in DOMAIN rules :
                    i > Len(ReadOnlyRules) /\ rules[i].action = "allow" /\ Applies(rules[i], c)
       /\ c.tool \in WriteTools => c.value \notin Matched["dots"]
       /\ c.command = "destructive" => c.tool = "run_tests"
  /\ executed \cap refused = {}
  /\ runState = "blocked" => question # {}
  /\ runState = "running" /\ executed \cup refused = {} =>
       \A r \in {r \in ConfiguredRules : r.action = "deny"}, c \in ToolCallsMade :
         Decision(Append(rules, r), c) \in {"deny", Decision(rules, c)}
=============================================================================
