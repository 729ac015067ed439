-------------------------- MODULE CapabilityRouter --------------------------
(***************************************************************************)
(* CapabilityRouter of forge-integrations: which domains, and which of     *)
(* their capabilities, a task is given.  What the task's words are worth   *)
(* to a domain (tokens, keywords, name and tag hits) is abstracted to the  *)
(* evidence found for it: "raw" in tenths, the score in hundredths.  The   *)
(* lists the router returns are kept as sets: each is in falling score.    *)
(***************************************************************************)
EXTENDS Naturals, Sequences, FiniteSets, SequencesExt

CONSTANTS Domains,        \* names in the order of DOMAINS.all
          Tests,          \* the domain that is co-routed
          MaxSelectedDomains, MaxSelectedCapabilities

ASSUME RouterAssumption ==
  /\ Domains \in Seq(ToSet(Domains)) /\ Tests \in ToSet(Domains)
  /\ MaxSelectedDomains \in Nat /\ MaxSelectedCapabilities \in Nat

VARIABLES raw,      \* per domain: the sum of its matches
          caps,     \* per domain: how many capabilities it offers
          routed    \* [done, selected, adjacent, withheld, capabilities]

routerVars == <<raw, caps, routed>>

DomainSet == ToSet(Domains)
RawWeights == {0, 2, 5, 10, 40}
SelectedFloor == 35
WithheldCeiling == 25

(* scoreDomain: clamp(0.25 + 0.32 * sqrt(raw)); a weak partial match is    *)
(* worth 0.2, a tag 0.5, a keyword 1.0; the floor of a domain nothing      *)
(* points to is 0.02.                                                      *)
Score(d) ==
  [r \in RawWeights |-> CASE r = 0 -> 2 [] r = 2 -> 39 [] r = 5 -> 47 [] r = 10 -> 57 [] r = 40 -> 89][raw[d]]
Position(d) == CHOOSE i \in DOMAIN Domains : Domains[i] = d

(* scored.sort: by falling score, stable.                                  *)
Before(a, b) == Score(a) > Score(b) \/ (Score(a) = Score(b) /\ Position(a) < Position(b))

\* Mutant: the domains beyond the cap are withheld.
AdjacentBelowFloor(selected) ==
  {d \in DomainSet \ selected : Score(d) >= WithheldCeiling /\ Score(d) < SelectedFloor}

Adjacent(selected) == {d \in DomainSet \ selected : Score(d) >= WithheldCeiling}

(* The best of those above the floor, as many as the cap allows.           *)
AboveFloor == {d \in DomainSet : Score(d) >= SelectedFloor}
Better(d) == {e \in AboveFloor : Before(e, d)}
Picked == {d \in AboveFloor : Cardinality(Better(d)) < MaxSelectedDomains}

(* tests goes along with any selected domain while there is room; it stays *)
(* in adjacent as well.                                                    *)
CoRouted(selected) ==
  IF selected # {} /\ Tests \notin selected /\ Cardinality(selected) < MaxSelectedDomains
  THEN selected \cup {Tests} ELSE selected

OfferedBy(selected) == UNION {{<<d, n>> : n \in 1..caps[d]} : d \in selected}

Route ==
  /\ ~routed.done /\ \A d \in DomainSet : caps[d] > 0
  /\ LET selected == CoRouted(Picked)
         adjacent == Adjacent(Picked)
         offered == OfferedBy(selected)
     IN \E some \in SUBSET offered :   \* by gain and score, which stay open here
          /\ Cardinality(some) = IF Cardinality(offered) < MaxSelectedCapabilities
                                 THEN Cardinality(offered) ELSE MaxSelectedCapabilities
          /\ routed' = [done |-> TRUE, selected |-> selected, adjacent |-> adjacent,
                        withheld |-> DomainSet \ (selected \cup adjacent),
                        capabilities |-> some]
  /\ UNCHANGED <<raw, caps>>

(* A task comes in, with what its words are worth to each domain.          *)
TaskComes ==
  /\ ~routed.done /\ \A d \in DomainSet : raw[d] = 0 /\ caps[d] = 0
  /\ raw' \in [DomainSet -> RawWeights] /\ caps' \in [DomainSet -> 1..2]
  /\ UNCHANGED routed

RouterInit ==
  /\ raw = [d \in DomainSet |-> 0] /\ caps = [d \in DomainSet |-> 0]
  /\ routed = [done |-> FALSE, selected |-> {}, adjacent |-> {}, withheld |-> {}, capabilities |-> {}]

RouterSpec == RouterInit /\ [][TaskComes \/ Route]_routerVars
-----------------------------------------------------------------------------
(* High recall: a domain anything in the task points to is selected or at  *)
(* least adjacent, however many domains are in demand; only a domain       *)
(* nothing points to is withheld.  No domain but tests is selected over    *)
(* one with a better score, and none is both handed out and withheld.      *)
RoutingKeepsRecall ==
  routed.done =>
    /\ Cardinality(routed.selected) <= MaxSelectedDomains
    /\ \A d \in DomainSet : raw[d] > 0 => d \in routed.selected \cup routed.adjacent
    /\ routed.withheld \cap (routed.selected \cup routed.adjacent) = {}
    /\ \A d \in routed.selected \ {Tests}, e \in DomainSet \ routed.selected : Score(d) >= Score(e)
=============================================================================
