----------------------------- MODULE BeliefStore -----------------------------
(***************************************************************************)
(* One task's beliefs in the durable store: BeliefStore (store.ts of       *)
(* forge-belief), truth maintenance (truth.ts) and the assurance case      *)
(* (assurance.ts).  Each mutation is one transaction with its trace event; *)
(* truth maintenance reads with autocommit statements and adds an event of *)
(* its own in a second transaction, so anything may happen between its     *)
(* reads, its write and that event.                                        *)
(*                                                                         *)
(* Confidences are in percent: clamp01 rounds every stored one to two      *)
(* decimals.  A claim_confidence_updated event is kept as the last state   *)
(* it reported.                                                            *)
(***************************************************************************)
EXTENDS Integers, FiniteSets

CONSTANTS Claims, Evidence,
          MaxTime,      \* bound: the clock
          StaleAfter,   \* the freshness window, in ticks
          MaxPasses,    \* bound: truth-maintenance passes
          NoMtime       \* evidence without a source file time

ASSUME TimesAreNumbers == MaxTime \in Nat /\ StaleAfter \in Nat /\ MaxPasses \in Nat /\ NoMtime = -1

VARIABLES claim,     \* rows of claims: [there, status, confidence]
          link,      \* claim_evidence_links: [claim, evidence, type]
          evidence,  \* rows of evidence: [there, at, mtime]
          reported,  \* per claim: its last claim_confidence_updated event
          maintained,\* claims with a truth_maintenance_update event
          promoted,  \* history: claims truth maintenance made verified
          tm,        \* truth maintenance: the pass in progress, passes begun
          clock

beliefVars == <<claim, link, evidence, reported, maintained, promoted, tm, clock>>
events == <<reported, maintained>>

ClaimStatus == {"unverified", "partially_verified", "verified", "contradicted", "conflicted",
                "stale", "needs_human_review", "not_applicable"}
Confidence == 0..100
Polarity == {"supports", "contradicts"}

Clamp01(x) == IF x < 0 THEN 0 ELSE IF x > 100 THEN 100 ELSE x

NoClaim == [there |-> FALSE, status |-> "unverified", confidence |-> 0]
NoEvent == [told |-> FALSE, status |-> "unverified", confidence |-> 0]
Told(status, confidence) == [told |-> TRUE, status |-> status, confidence |-> confidence]

-----------------------------------------------------------------------------
(* Mutations: one tx each, row and event together.                         *)

(* addClaim, createTaskBeliefState: a new claim is unverified, 0, unless   *)
(* the caller says otherwise; its event reports neither.                   *)
AddClaim(c) ==
  /\ ~claim[c].there
  /\ \E row \in {NoClaim, [NoClaim EXCEPT !.status = "verified", !.confidence = Clamp01(120)]} :
       claim' = [claim EXCEPT ![c] = [row EXCEPT !.there = TRUE]]
  /\ UNCHANGED <<link, evidence, events, promoted, tm, clock>>

(* updateClaimConfidence: throws when the row is missing.                  *)
ClaimSet(c, confidence, status) ==
  /\ claim[c].there
  /\ claim' = [claim EXCEPT ![c].confidence = Clamp01(confidence), ![c].status = status]
  /\ reported' = [reported EXCEPT ![c] = Told(status, Clamp01(confidence))]

UpdateClaimConfidence(c) ==
  /\ ClaimSet(c, 120, "verified") \/ ClaimSet(c, 40, "not_applicable")
  /\ promoted' = promoted \ {c}
  /\ UNCHANGED <<link, evidence, maintained, tm, clock>>

(* attachEvidence, addContradiction: the unique key makes a repeat a no-op.*)
AttachEvidence(c, e) ==
  /\ claim[c].there /\ evidence[e].there
  /\ \E polarity \in Polarity :
       link' = link \cup {[claim |-> c, evidence |-> e, type |-> polarity]}
  /\ UNCHANGED <<claim, evidence, events, promoted, tm, clock>>

(* store.repos.evidence.insert / update, by the caller.                    *)
InsertEvidence(e) ==
  /\ ~evidence[e].there
  /\ \E mtime \in {NoMtime, clock} :
       evidence' = [evidence EXCEPT ![e] = [there |-> TRUE, at |-> clock, mtime |-> mtime]]
  /\ UNCHANGED <<claim, link, events, promoted, tm, clock>>

TouchSource(e) ==
  /\ evidence[e].there
  /\ evidence' = [evidence EXCEPT ![e].mtime = clock]
  /\ UNCHANGED <<claim, link, events, promoted, tm, clock>>

Tick ==
  /\ clock < MaxTime /\ clock' = clock + 1
  /\ UNCHANGED <<claim, link, evidence, events, promoted, tm>>

-----------------------------------------------------------------------------
(* runTruthMaintenance: list the claims once; for each, read its links,    *)
(* read their evidence, decide, write.                                     *)

IdleTm == [pc |-> "idle", todo |-> {}, links |-> {}, verdict |-> {}, passes |-> 0]

TmStart ==
  /\ tm.pc = "idle" /\ tm.passes < MaxPasses
  /\ tm' = [tm EXCEPT !.pc = "links", !.passes = @ + 1,
              !.todo = {[id |-> c, status |-> claim[c].status, confidence |-> claim[c].confidence] :
                          c \in {c \in Claims : claim[c].there}}]
  /\ UNCHANGED <<claim, link, evidence, events, promoted, clock>>

TmReadLinks ==
  /\ tm.pc = "links"
  /\ \E row \in tm.todo :
       tm' = [tm EXCEPT !.pc = "evidence", !.todo = @ \ {row},
                        !.links = {l \in link : l.claim = row.id}, !.verdict = {row}]
  /\ UNCHANGED <<claim, link, evidence, events, promoted, clock>>

Count(links, polarity) == Cardinality({l \in links : l.type = polarity})

(* recomputeConfidence: prior + supports (1 - prior) - contradicts prior,  *)
(* each link weighing 0.6; a prior of 0 counts as 0.5.                     *)
Recomputed(confidence, links) ==
  LET prior == IF confidence = 0 THEN 50 ELSE confidence
      hundredfold == 100 * prior + 60 * Count(links, "supports") * (100 - prior)
                     - 60 * Count(links, "contradicts") * prior
  IN IF hundredfold < 0 THEN 0 ELSE Clamp01((hundredfold + 50) \div 100)

(* detectStale: all of it older than the window, or a source file edited   *)
(* after the newest of it was recorded.                                    *)
Stale(links) ==
  LET refs == {evidence[l.evidence] : l \in links} IN
  /\ links # {}
  /\ \/ \A e \in refs : clock - e.at > StaleAfter
     \/ \E e \in refs : e.mtime > 0 /\ \A f \in refs : e.mtime > f.at

\* Mutant: one supporting link is enough to promote.
NextStatusOneSupport(row, links, stale) ==
  LET supports == Count(links, "supports")
      contradicts == Count(links, "contradicts")
      base == IF stale THEN "stale"
              ELSE IF supports > 0 /\ contradicts > 0 THEN "conflicted" ELSE row.status
  IN IF /\ base \notin {"conflicted", "stale"}
        /\ supports >= 1 /\ contradicts = 0
        /\ Recomputed(row.confidence, links) >= 85
     THEN "verified" ELSE base

(* The order matters: conflict, then staleness over it, then promotion.    *)
NextStatus(row, links, stale) ==
  LET supports == Count(links, "supports")
      contradicts == Count(links, "contradicts")
      base == IF stale THEN "stale"
              ELSE IF supports > 0 /\ contradicts > 0 THEN "conflicted" ELSE row.status
  IN IF /\ base \notin {"conflicted", "stale"}
        /\ supports >= 2 /\ contradicts = 0
        /\ Recomputed(row.confidence, links) >= 85
     THEN "verified" ELSE base

NextConfidence(row, links, stale) ==
  LET c == Recomputed(row.confidence, links) IN IF stale /\ c > 49 THEN 49 ELSE c

TmDecide ==
  /\ tm.pc = "evidence"
  /\ LET row == CHOOSE r \in tm.verdict : TRUE
         stale == Stale(tm.links)
     IN tm' = [tm EXCEPT !.pc = "write",
                 !.verdict = {[id |-> row.id,
                               was |-> [status |-> row.status, confidence |-> row.confidence],
                               status |-> NextStatus(row, tm.links, stale),
                               confidence |-> NextConfidence(row, tm.links, stale)]}]
  /\ UNCHANGED <<claim, link, evidence, events, promoted, clock>>

(* updateClaimConfidence, if anything changed.                             *)
TmWrite ==
  /\ tm.pc = "write"
  /\ LET v == CHOOSE v \in tm.verdict : TRUE IN
       \/ /\ v.status # v.was.status \/ v.confidence # v.was.confidence
          /\ ClaimSet(v.id, v.confidence, v.status)
          /\ promoted' = IF v.status = "verified" /\ v.was.status # "verified"
                         THEN promoted \cup {v.id}
                         ELSE IF v.status = "verified" THEN promoted ELSE promoted \ {v.id}
          /\ tm' = [tm EXCEPT !.pc = "trace", !.links = {}]
       \/ /\ v.status = v.was.status /\ v.confidence = v.was.confidence
          /\ tm' = [tm EXCEPT !.pc = "links", !.links = {}, !.verdict = {}]
          /\ UNCHANGED <<claim, reported, promoted>>
  /\ UNCHANGED <<link, evidence, maintained, clock>>

(* The event of its own, in a second transaction.                          *)
TmTrace ==
  /\ tm.pc = "trace"
  /\ LET v == CHOOSE v \in tm.verdict : TRUE
     IN maintained' = maintained \cup {v.id}
  /\ tm' = [tm EXCEPT !.pc = "links", !.verdict = {}]
  /\ UNCHANGED <<claim, link, evidence, reported, promoted, clock>>

(* A statement throws, or the process dies.                                *)
TmFails ==
  /\ tm.pc # "idle"
  /\ tm' = [tm EXCEPT !.pc = "idle", !.todo = {}, !.links = {}, !.verdict = {}]
  /\ UNCHANGED <<claim, link, evidence, events, promoted, clock>>

TmReturn ==
  /\ tm.pc = "links" /\ tm.todo = {}
  /\ tm' = [tm EXCEPT !.pc = "idle"]
  /\ UNCHANGED <<claim, link, evidence, events, promoted, clock>>

-----------------------------------------------------------------------------
(* generateAssuranceCase: the list a claim is reported in.                 *)
Buckets == [verified    |-> {"verified"},
            contradicted |-> {"contradicted"},
            stale       |-> {"stale"},
            needsHuman  |-> {"needs_human_review"},
            unverified  |-> {"unverified", "partially_verified", "conflicted"}]

Listed(c) == {b \in DOMAIN Buckets : claim[c].status \in Buckets[b]}

-----------------------------------------------------------------------------
BeliefInit ==
  /\ claim = [c \in Claims |-> NoClaim]
  /\ link = {}
  /\ evidence = [e \in Evidence |-> [there |-> FALSE, at |-> 0, mtime |-> NoMtime]]
  /\ reported = [c \in Claims |-> NoEvent] /\ maintained = {}
  /\ promoted = {}
  /\ tm = IdleTm
  /\ clock = 0

TmNext == TmStart \/ TmReadLinks \/ TmDecide \/ TmWrite \/ TmTrace \/ TmReturn \/ TmFails

BeliefNext ==
  \/ \E c \in Claims : AddClaim(c) \/ UpdateClaimConfidence(c)
  \/ \E c \in Claims, e \in Evidence : AttachEvidence(c, e)
  \/ \E e \in Evidence : InsertEvidence(e) \/ TouchSource(e)
  \/ TmNext
  \/ Tick

BeliefSpec == BeliefInit /\ [][BeliefNext]_beliefVars
-----------------------------------------------------------------------------
BeliefTypeOK ==
  /\ claim \in [Claims -> [there : BOOLEAN, status : ClaimStatus, confidence : Confidence]]
  /\ link \subseteq [claim : Claims, evidence : Evidence, type : Polarity]
  /\ evidence \in [Evidence -> [there : BOOLEAN, at : 0..MaxTime, mtime : -1..MaxTime]]
  /\ \A c \in Claims : reported[c].status \in ClaimStatus
  /\ maintained \subseteq Claims
  /\ promoted \subseteq Claims /\ clock \in 0..MaxTime
  /\ tm.pc \in {"idle", "links", "evidence", "write", "trace"}

(* A claim that truth maintenance promoted has two pieces of support in    *)
(* the database, whatever was written between its reads and its write.     *)
PromotionBacked == \A c \in promoted : Count({l \in link : l.claim = c}, "supports") >= 2

(* The audit trail ends with the row: once a claim was updated, its last   *)
(* claim_confidence_updated event says what the row says, and truth        *)
(* maintenance never reports a change without one.  Its own events may be  *)
(* behind the row, and claim_added reports no state.                       *)
TraceTellsTheClaim ==
  \A c \in Claims :
    /\ reported[c].told => claim[c].there /\ reported[c] = Told(claim[c].status, claim[c].confidence)
    /\ c \in maintained => reported[c].told

(* Every claim that applies is in exactly one list of the assurance case.  *)
AssuranceListsEveryClaim ==
  \A c \in Claims : claim[c].there /\ claim[c].status # "not_applicable" => Cardinality(Listed(c)) = 1

(* The claims, their trail and their review agree while evidence, manual   *)
(* decisions and truth maintenance interleave.                             *)
BeliefsSound == BeliefTypeOK /\ PromotionBacked /\ TraceTellsTheClaim /\ AssuranceListsEveryClaim
=============================================================================
