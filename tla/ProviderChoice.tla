--------------------------- MODULE ProviderChoice ---------------------------
(***************************************************************************)
(* The provider catalog of forge-provider (catalog.ts, index.ts): the      *)
(* cheapest provider that meets a policy, its default configuration, the   *)
(* key it is given, the adapter that is made and its read-only probe.      *)
(***************************************************************************)
EXTENDS Naturals, FiniteSets

VARIABLES policy,   \* [asked, vision, context, cost, preferred] of the run
          keys,     \* providers whose environment variable is set
          choice,   \* [name: entry or "none", adapter: "none", "made" or "threw"]
          probe     \* last ProviderProbeReport's error, "none" before it

choiceVars == <<policy, keys, choice, probe>>

(* PROVIDER_CATALOG: costs, context windows in thousands, vision, key; all *)
(* entries claim tools and streaming.                                      *)
Catalog ==
  [anthropic    |-> [cost |-> 3, context |-> 200, vision |-> TRUE,  key |-> TRUE],
   openai       |-> [cost |-> 3, context |-> 128, vision |-> TRUE,  key |-> TRUE],
   openrouter   |-> [cost |-> 2, context |-> 200, vision |-> TRUE,  key |-> TRUE],
   minimax      |-> [cost |-> 2, context |-> 128, vision |-> FALSE, key |-> TRUE],
   ollamaCloud  |-> [cost |-> 1, context |-> 32,  vision |-> FALSE, key |-> TRUE],
   ollama       |-> [cost |-> 0, context |-> 32,  vision |-> FALSE, key |-> FALSE],
   nous         |-> [cost |-> 2, context |-> 128, vision |-> FALSE, key |-> TRUE]]
Names == DOMAIN Catalog
Alphabet == <<"anthropic", "minimax", "nous", "ollama", "ollamaCloud", "openai", "openrouter">>
Place(n) == CHOOSE i \in DOMAIN Alphabet : Alphabet[i] = n

Meets(n, p) ==
  /\ p.vision => Catalog[n].vision
  /\ Catalog[n].context >= p.context
  /\ Catalog[n].cost <= p.cost

\* Mutant: the preferred provider wins before the policy is looked at.
PickPreferred(p) ==
  IF p.preferred \in Names THEN p.preferred
  ELSE IF \E n \in Names : Meets(n, p) THEN CHOOSE n \in Names : Meets(n, p) ELSE "none"

(* selectProvider.                                                         *)
Pick(p) ==
  LET matched == {n \in Names : Meets(n, p)} IN
  IF matched = {} THEN "none"
  ELSE IF p.preferred \in matched THEN p.preferred
  ELSE CHOOSE n \in matched : \A m \in matched :
         Catalog[n].cost < Catalog[m].cost \/ (Catalog[n].cost = Catalog[m].cost /\ Place(n) <= Place(m))

(* A command or the local layer states what it needs; the user has some    *)
(* keys in the environment.                                                *)
Ask ==
  /\ ~policy.asked
  /\ policy' \in [asked : {TRUE}, vision : BOOLEAN, context : {0, 100, 150, 500}, cost : 0..3,
                  preferred : Names \cup {"none"}]
  /\ keys' \in SUBSET {"anthropic", "minimax"}
  /\ UNCHANGED <<choice, probe>>

Select ==
  /\ policy.asked /\ choice.name = "none" /\ choice.adapter = "none"
  /\ choice' = [choice EXCEPT !.name = Pick(policy)]
  /\ UNCHANGED <<policy, keys, probe>>

(* createProvider: resolveApiKey, then a constructor which throws without  *)
(* a key; the ollama adapter asks for none.                                *)
NeedsKey(n) == n \notin {"ollama", "ollamaCloud"}

CreateProvider ==
  /\ choice.name # "none" /\ choice.adapter = "none"
  /\ choice' = [choice EXCEPT !.adapter =
                  IF NeedsKey(choice.name) /\ choice.name \notin keys THEN "threw" ELSE "made"]
  /\ UNCHANGED <<policy, keys, probe>>

(* probeProvider: one request, aborted by its own timer; never throws.  To *)
(* the empty body it sends, anthropic answers 400 at best.                 *)
ProbeProvider ==
  /\ choice.name # "none"
  /\ probe' \in {"ProviderProbeError", "ProviderTimeoutError", "ProviderUnreachableError"}
                \cup (IF choice.name = "anthropic" THEN {} ELSE {"ok"})
                \cup (IF NeedsKey(choice.name) THEN {"ProviderAuthError"} ELSE {})
  /\ UNCHANGED <<policy, keys, choice>>

ChoiceInit ==
  /\ policy = [asked |-> FALSE, vision |-> FALSE, context |-> 0, cost |-> 3, preferred |-> "none"]
  /\ keys = {}
  /\ choice = [name |-> "none", adapter |-> "none"] /\ probe = "none"

ChoiceNext == Ask \/ Select \/ CreateProvider \/ ProbeProvider
ChoiceSpec == ChoiceInit /\ [][ChoiceNext]_choiceVars
-----------------------------------------------------------------------------
(* What a policy asks for is kept: the choice meets it, and no provider    *)
(* that also meets it is cheaper unless the choice was the preferred one.  *)
ChoiceKeepsPolicy ==
  choice.name # "none" =>
    /\ Meets(choice.name, policy)
    /\ choice.name # policy.preferred =>
         \A n \in Names : Meets(n, policy) => Catalog[choice.name].cost <= Catalog[n].cost
=============================================================================
