---------------------------- MODULE BeliefProofs ----------------------------
(* One task's beliefs: the claims in the database with their trail, and    *)
(* the engine in memory that asks for the next observation; the graph of   *)
(* the repository they are about; and the planner of what to check next.   *)
EXTENDS BeliefStore, BeliefEngine, RepoGraph, VerificationPlan, FiniteSetTheorems, WellFoundedInduction, TLAPS

(* A pass of truth maintenance has read one claim and some of its links,   *)
(* then knows what it will write and, for a promotion, that two links      *)
(* support it.                                                             *)
Row == [id : Claims, status : ClaimStatus, confidence : Confidence]
Verdict == [id : Claims, was : [status : ClaimStatus, confidence : Confidence],
            status : ClaimStatus, confidence : Confidence]
Link == [claim : Claims, evidence : Evidence, type : Polarity]
ClaimEvent == [told : BOOLEAN, status : ClaimStatus, confidence : Confidence]
LinksOf(c) == {l \in link : l.claim = c}

BeliefTypes ==
  /\ claim \in [Claims -> [there : BOOLEAN, status : ClaimStatus, confidence : Confidence]]
  /\ link \in SUBSET Link /\ IsFiniteSet(link)
  /\ evidence \in [Evidence -> [there : BOOLEAN, at : 0..MaxTime, mtime : -1..MaxTime]]
  /\ reported \in [Claims -> ClaimEvent] /\ maintained \in SUBSET Claims
  /\ promoted \in SUBSET Claims /\ clock \in 0..MaxTime
  /\ tm \in [pc : {"idle", "links", "evidence", "write", "trace"}, todo : SUBSET Row, links : SUBSET Link,
             verdict : SUBSET (Row \cup Verdict), passes : Nat]

PassOK ==
  /\ tm.pc = "evidence" => \E row \in Row : tm.verdict = {row} /\ tm.links \subseteq LinksOf(row.id)
  /\ tm.pc = "write" => \E v \in Verdict :
       /\ tm.verdict = {v}
       /\ v.status = "verified" /\ v.was.status # "verified" => Count(LinksOf(v.id), "supports") >= 2
  /\ tm.pc = "trace" => \E v \in Verdict : tm.verdict = {v} /\ reported[v.id].told

TrailOK ==
  \A c \in Claims :
    /\ reported[c].told =>
         claim[c].there /\ reported[c].status = claim[c].status /\ reported[c].confidence = claim[c].confidence
    /\ c \in maintained => reported[c].told

BackedOK == \A c \in promoted : Count(LinksOf(c), "supports") >= 2

BeliefInv == BeliefTypes /\ PassOK /\ TrailOK /\ BackedOK

(* Counting links.                                                         *)
LEMMA CountIsNumber ==
  ASSUME NEW S, IsFiniteSet(S), NEW p PROVE Count(S, p) \in Nat
<1>1. IsFiniteSet({l \in S : l.type = p})
  BY FS_Subset
<1> QED BY <1>1, FS_CardinalityType DEF Count

LEMMA CountGrows ==
  ASSUME NEW T, IsFiniteSet(T), NEW S \in SUBSET T, NEW p
  PROVE  Count(S, p) \in Nat /\ Count(T, p) \in Nat /\ Count(S, p) <= Count(T, p)
<1> DEFINE s == {l \in S : l.type = p}
           t == {l \in T : l.type = p}
<1>1. s \in SUBSET t
  OBVIOUS
<1>2. IsFiniteSet(t)
  BY FS_Subset
<1>3. IsFiniteSet(s) /\ Cardinality(s) <= Cardinality(t)
  BY <1>1, <1>2, FS_Subset
<1> QED BY <1>2, <1>3, FS_CardinalityType DEF Count

(* Whatever was counted, a confidence is a percentage.                     *)
LEMMA RecomputedIsConfidence ==
  ASSUME NEW confidence \in Confidence, NEW S, IsFiniteSet(S)
  PROVE  Recomputed(confidence, S) \in Confidence
<1> DEFINE prior == IF confidence = 0 THEN 50 ELSE confidence
           supports == Count(S, "supports")
           contradicts == Count(S, "contradicts")
           hundredfold == 100 * prior + 60 * supports * (100 - prior) - 60 * contradicts * prior
<1>1. supports \in Int /\ contradicts \in Int
  BY CountIsNumber
<1>2. prior \in Int
  BY DEF Confidence
<1> HIDE DEF prior, supports, contradicts
<1>3. hundredfold \in Int
  BY <1>1, <1>2
<1> HIDE DEF hundredfold
<1>4. (hundredfold + 50) \div 100 \in Int
  BY <1>3
<1>5. \A x \in Int : Clamp01(x) \in Confidence
  BY DEF Clamp01, Confidence
<1>6. 0 \in Confidence
  BY DEF Confidence
<1> QED BY <1>4, <1>5, <1>6 DEF Recomputed, hundredfold, prior, supports, contradicts

LEMMA VerdictIsSound ==
  ASSUME NEW row \in Row, NEW S, IsFiniteSet(S), NEW stale \in BOOLEAN
  PROVE  /\ NextStatus(row, S, stale) \in ClaimStatus
         /\ NextConfidence(row, S, stale) \in Confidence
         /\ NextStatus(row, S, stale) = "verified" /\ row.status # "verified" => Count(S, "supports") >= 2
<1>1. row.status \in ClaimStatus /\ row.confidence \in Confidence
  BY DEF Row
<1>2. NextConfidence(row, S, stale) \in Confidence
  <2>1. Recomputed(row.confidence, S) \in Confidence
    BY <1>1, RecomputedIsConfidence
  <2> QED BY <2>1 DEF NextConfidence, Confidence
<1>3. NextStatus(row, S, stale) \in ClaimStatus
  BY <1>1 DEF NextStatus, ClaimStatus
<1>4. ASSUME NextStatus(row, S, stale) = "verified", row.status # "verified" PROVE Count(S, "supports") >= 2
  BY <1>4 DEF NextStatus
<1> QED BY <1>2, <1>3, <1>4

LEMMA BeliefInitOK == BeliefInit => BeliefInv
<1> SUFFICES ASSUME BeliefInit PROVE BeliefInv
  OBVIOUS
<1>1. BeliefTypes
  BY TimesAreNumbers, FS_EmptySet DEF BeliefInit, BeliefTypes, NoClaim, NoEvent, ClaimEvent, ClaimStatus, Confidence, IdleTm
<1>2. PassOK /\ TrailOK /\ BackedOK
  BY DEF BeliefInit, PassOK, TrailOK, BackedOK, IdleTm, NoClaim, NoEvent
<1> QED BY <1>1, <1>2 DEF BeliefInv

(* Links are only added, so what supported a promotion still does.         *)
LEMMA AttachEvidenceStep ==
  ASSUME BeliefInv, NEW c \in Claims, NEW e \in Evidence, AttachEvidence(c, e) PROVE BeliefInv'
<1> USE DEF BeliefInv
<1>1. PICK polarity \in Polarity : link' = link \cup {[claim |-> c, evidence |-> e, type |-> polarity]}
  BY DEF AttachEvidence
<1>2. link' \in SUBSET Link /\ IsFiniteSet(link')
  <2>1. [claim |-> c, evidence |-> e, type |-> polarity] \in Link
    BY DEF Link
  <2> QED BY <1>1, <2>1, FS_AddElement DEF BeliefTypes
<1>3. UNCHANGED <<claim, evidence, reported, maintained, promoted, tm, clock>>
  BY DEF AttachEvidence, events
<1>4. \A k \in Claims : /\ LinksOf(k) \subseteq LinksOf(k)'
                       /\ Count(LinksOf(k), "supports") \in Nat /\ Count(LinksOf(k), "supports")' \in Nat
                       /\ Count(LinksOf(k), "supports") <= Count(LinksOf(k), "supports")'
  <2> SUFFICES ASSUME NEW k \in Claims
               PROVE  /\ LinksOf(k) \subseteq LinksOf(k)'
                      /\ Count(LinksOf(k), "supports") \in Nat /\ Count(LinksOf(k)', "supports") \in Nat
                      /\ Count(LinksOf(k), "supports") <= Count(LinksOf(k)', "supports")
    BY DEF Count
  <2>1. LinksOf(k) \in SUBSET LinksOf(k)'
    BY <1>1 DEF LinksOf
  <2>2. IsFiniteSet(LinksOf(k)')
    BY <1>2, FS_Subset DEF LinksOf
  <2> QED BY <2>1, <2>2, CountGrows
<1>5. BeliefTypes'
  BY <1>2, <1>3 DEF BeliefTypes
<1>6. TrailOK'
  BY <1>3 DEF TrailOK
<1>7. BackedOK'
  BY <1>3, <1>4 DEF BackedOK, BeliefTypes
<1>8. PassOK'
  BY <1>3, <1>4 DEF PassOK, Row, Verdict
<1> QED BY <1>5, <1>6, <1>7, <1>8

(* A claim is updated together with its event.                             *)
LEMMA ClaimWritten ==
  ASSUME BeliefInv, NEW c \in Claims,
         NEW row \in [there : BOOLEAN, status : ClaimStatus, confidence : Confidence], row.there,
         claim' = [claim EXCEPT ![c] = row],
         reported' = [reported EXCEPT ![c] = Told(row.status, row.confidence)],
         maintained' = maintained
  PROVE  /\ claim' \in [Claims -> [there : BOOLEAN, status : ClaimStatus, confidence : Confidence]]
         /\ reported' \in [Claims -> ClaimEvent] /\ reported'[c].told
         /\ \A k \in Claims : reported[k].told => reported'[k].told
         /\ TrailOK'
<1> USE DEF BeliefInv
<1> DEFINE event == Told(row.status, row.confidence)
<1>1. reported \in [Claims -> ClaimEvent]
  BY DEF BeliefTypes
<1>2. /\ claim' \in [Claims -> [there : BOOLEAN, status : ClaimStatus, confidence : Confidence]]
      /\ claim'[c] = row /\ \A k \in Claims \ {c} : claim'[k] = claim[k]
  BY DEF BeliefTypes
<1>3. event \in ClaimEvent /\ event.told /\ event.status = row.status /\ event.confidence = row.confidence
  BY DEF Told, ClaimEvent
<1>4. reported' = [reported EXCEPT ![c] = event]
  OBVIOUS
<1> HIDE DEF event
<1>5. /\ reported' \in [Claims -> ClaimEvent] /\ reported'[c] = event
      /\ \A k \in Claims \ {c} : reported'[k] = reported[k]
  BY <1>1, <1>3, <1>4
<1>6. TrailOK'
  BY <1>2, <1>3, <1>5 DEF TrailOK
<1> QED BY <1>2, <1>3, <1>5, <1>6

LEMMA ClaimSetWrites ==
  ASSUME BeliefInv, NEW c \in Claims, NEW status \in ClaimStatus, NEW confidence \in Int,
         ClaimSet(c, confidence, status), maintained' = maintained
  PROVE  /\ claim' \in [Claims -> [there : BOOLEAN, status : ClaimStatus, confidence : Confidence]]
         /\ reported' \in [Claims -> ClaimEvent] /\ reported'[c].told
         /\ \A k \in Claims : reported[k].told => reported'[k].told
         /\ TrailOK'
<1> DEFINE Claim == [there : BOOLEAN, status : ClaimStatus, confidence : Confidence]
           kept == Clamp01(confidence)
           row == [claim[c] EXCEPT !.confidence = kept, !.status = status]
<1>1. kept \in Confidence
  BY DEF Clamp01, Confidence
<1>2. claim \in [Claims -> Claim] /\ claim[c] \in Claim
  BY DEF BeliefInv, BeliefTypes
<1>3. claim' = [claim EXCEPT ![c].confidence = kept, ![c].status = status]
      /\ reported' = [reported EXCEPT ![c] = Told(status, kept)] /\ claim[c].there
  BY DEF ClaimSet
<1> HIDE DEF kept
<1>4. row \in Claim /\ row.status = status /\ row.confidence = kept /\ row.there
  BY <1>1, <1>2, <1>3
<1>5. claim' = [claim EXCEPT ![c] = row]
  BY <1>2, <1>3
<1> HIDE DEF row
<1> QED BY <1>3, <1>4, <1>5, ClaimWritten

LEMMA AddClaimStep ==
  ASSUME BeliefInv, NEW c \in Claims, AddClaim(c) PROVE BeliefInv'
<1> USE DEF BeliefInv
<1> DEFINE Claim == [there : BOOLEAN, status : ClaimStatus, confidence : Confidence]
<1> DEFINE given == [NoClaim EXCEPT !.status = "verified", !.confidence = Clamp01(120)]
<1>1. PICK from \in {NoClaim, given} : claim' = [claim EXCEPT ![c] = [from EXCEPT !.there = TRUE]]
  BY DEF AddClaim
<1>2. ~claim[c].there /\ UNCHANGED <<link, evidence, reported, maintained, promoted, tm, clock>>
  BY DEF AddClaim, events
<1> DEFINE row == [from EXCEPT !.there = TRUE]
<1>3. row \in Claim
  <2>1. NoClaim \in Claim /\ Clamp01(120) \in Confidence /\ "verified" \in ClaimStatus
    BY DEF NoClaim, ClaimStatus, Confidence, Clamp01
  <2> QED BY <1>1, <2>1
<1>4. claim' = [claim EXCEPT ![c] = row]
  BY <1>1
<1> HIDE DEF row
<1>5. claim' \in [Claims -> Claim] /\ \A k \in Claims \ {c} : claim'[k] = claim[k]
  BY <1>3, <1>4 DEF BeliefTypes
<1>6. ~reported[c].told
  BY <1>2 DEF TrailOK
<1>7. TrailOK'
  BY <1>2, <1>5, <1>6 DEF TrailOK
<1>8. BeliefTypes'
  BY <1>2, <1>5 DEF BeliefTypes
<1>9. PassOK' /\ BackedOK'
  BY <1>2 DEF PassOK, BackedOK, LinksOf, Count
<1> QED BY <1>7, <1>8, <1>9

LEMMA UpdateClaimConfidenceStep ==
  ASSUME BeliefInv, NEW c \in Claims, UpdateClaimConfidence(c) PROVE BeliefInv'
<1> USE DEF BeliefInv
<1>1. PICK status \in {"verified", "not_applicable"}, confidence \in {40, 120} : ClaimSet(c, confidence, status)
  BY DEF UpdateClaimConfidence
<1>2. promoted' = promoted \ {c} /\ UNCHANGED <<link, evidence, maintained, tm, clock>>
  BY DEF UpdateClaimConfidence
<1>3. status \in ClaimStatus /\ confidence \in Int
  BY DEF ClaimStatus
<1>4. /\ claim' \in [Claims -> [there : BOOLEAN, status : ClaimStatus, confidence : Confidence]]
      /\ reported' \in [Claims -> ClaimEvent] /\ \A k \in Claims : reported[k].told => reported'[k].told
      /\ TrailOK'
  BY <1>1, <1>2, <1>3, ClaimSetWrites
<1>5. BeliefTypes'
  BY <1>2, <1>4 DEF BeliefTypes
<1>6. PassOK' /\ BackedOK'
  BY <1>2, <1>4 DEF PassOK, BackedOK, LinksOf, Count, Verdict
<1> QED BY <1>4, <1>5, <1>6

LEMMA EvidenceStep ==
  ASSUME BeliefInv, (\E e \in Evidence : InsertEvidence(e) \/ TouchSource(e)) \/ Tick PROVE BeliefInv'
<1> USE DEF BeliefInv
<1>1. UNCHANGED <<claim, link, reported, maintained, promoted, tm>>
  BY DEF InsertEvidence, TouchSource, Tick, events
<1>2. evidence' \in [Evidence -> [there : BOOLEAN, at : 0..MaxTime, mtime : -1..MaxTime]] /\ clock' \in 0..MaxTime
  <2> DEFINE E == [there : BOOLEAN, at : 0..MaxTime, mtime : -1..MaxTime]
  <2>1. evidence \in [Evidence -> E] /\ clock \in 0..MaxTime /\ MaxTime \in Nat /\ NoMtime = -1
    BY TimesAreNumbers DEF BeliefTypes
  <2>2. CASE Tick
    BY <2>1, <2>2 DEF Tick
  <2>3. ASSUME NEW e \in Evidence, InsertEvidence(e) PROVE evidence' \in [Evidence -> E] /\ clock' = clock
    <3>1. PICK mtime \in {NoMtime, clock} :
            evidence' = [evidence EXCEPT ![e] = [there |-> TRUE, at |-> clock, mtime |-> mtime]]
      BY <2>3 DEF InsertEvidence
    <3>2. [there |-> TRUE, at |-> clock, mtime |-> mtime] \in E
      BY <2>1
    <3> QED BY <2>1, <2>3, <3>1, <3>2 DEF InsertEvidence
  <2>4. ASSUME NEW e \in Evidence, TouchSource(e) PROVE evidence' \in [Evidence -> E] /\ clock' = clock
    <3>1. [evidence[e] EXCEPT !.mtime = clock] \in E
      BY <2>1
    <3>2. evidence' = [evidence EXCEPT ![e] = [evidence[e] EXCEPT !.mtime = clock]]
      BY <2>1, <2>4 DEF TouchSource
    <3> QED BY <2>1, <2>4, <3>1, <3>2 DEF TouchSource
  <2> QED BY <2>1, <2>2, <2>3, <2>4
<1>3. BeliefTypes'
  BY <1>1, <1>2 DEF BeliefTypes
<1>4. PassOK' /\ TrailOK' /\ BackedOK'
  BY <1>1 DEF PassOK, TrailOK, BackedOK, LinksOf, Count
<1> QED BY <1>3, <1>4

(* A pass: it keeps the claims it listed, then the links of one of them,   *)
(* which stay in the database, then what it decided from those.            *)
Pass == [pc : {"idle", "links", "evidence", "write", "trace"}, todo : SUBSET Row, links : SUBSET Link,
         verdict : SUBSET (Row \cup Verdict), passes : Nat]

LEMMA TmStartStep ==
  ASSUME BeliefInv, TmStart PROVE BeliefInv'
<1> USE DEF BeliefInv
<1> DEFINE rows == {[id |-> c, status |-> claim[c].status, confidence |-> claim[c].confidence] :
                      c \in {c \in Claims : claim[c].there}}
<1>1. rows \in SUBSET Row
  BY DEF BeliefTypes, Row
<1>2. tm' = [tm EXCEPT !.pc = "links", !.passes = @ + 1, !.todo = rows]
      /\ UNCHANGED <<claim, link, evidence, reported, maintained, promoted, clock>>
  BY DEF TmStart, events
<1> HIDE DEF rows
<1>3. tm' \in Pass /\ tm'.pc = "links"
  <2>1. tm \in Pass /\ tm.passes + 1 \in Nat
    BY DEF BeliefTypes, Pass
  <2> QED BY <1>1, <1>2, <2>1 DEF Pass
<1>4. BeliefTypes'
  BY <1>2, <1>3 DEF BeliefTypes, Pass
<1>5. PassOK' /\ TrailOK' /\ BackedOK'
  BY <1>2, <1>3 DEF PassOK, TrailOK, BackedOK, LinksOf, Count
<1> QED BY <1>4, <1>5

LEMMA TmReadLinksStep ==
  ASSUME BeliefInv, TmReadLinks PROVE BeliefInv'
<1> USE DEF BeliefInv
<1>1. PICK row \in tm.todo :
        tm' = [tm EXCEPT !.pc = "evidence", !.todo = @ \ {row},
                         !.links = {l \in link : l.claim = row.id}, !.verdict = {row}]
  BY DEF TmReadLinks
<1>2. UNCHANGED <<claim, link, evidence, reported, maintained, promoted, clock>>
  BY DEF TmReadLinks, events
<1>3. tm \in Pass /\ row \in Row /\ LinksOf(row.id) \in SUBSET Link
  BY DEF BeliefTypes, Pass, LinksOf
<1>4. tm' = [tm EXCEPT !.pc = "evidence", !.todo = tm.todo \ {row}, !.links = LinksOf(row.id), !.verdict = {row}]
  BY <1>1, <1>3 DEF Pass, LinksOf
<1>5. tm' \in Pass /\ tm'.pc = "evidence" /\ tm'.verdict = {row} /\ tm'.links = LinksOf(row.id)
  <2>1. tm.todo \ {row} \in SUBSET Row /\ {row} \in SUBSET (Row \cup Verdict)
    BY <1>3 DEF Pass
  <2> QED BY <1>3, <1>4, <2>1 DEF Pass
<1>6. BeliefTypes'
  BY <1>2, <1>5 DEF BeliefTypes, Pass
<1>7. PassOK'
  <2>1. LinksOf(row.id)' = LinksOf(row.id)
    BY <1>2 DEF LinksOf
  <2>2. tm'.verdict = {row} /\ tm'.links \subseteq LinksOf(row.id)'
    BY <1>5, <2>1
  <2> QED BY <1>3, <1>5, <2>2 DEF PassOK
<1>8. TrailOK' /\ BackedOK'
  BY <1>2 DEF TrailOK, BackedOK, LinksOf, Count
<1> QED BY <1>6, <1>7, <1>8

LEMMA TmDecideStep ==
  ASSUME BeliefInv, TmDecide PROVE BeliefInv'
<1> USE DEF BeliefInv
<1>1. PICK row \in Row : tm.verdict = {row} /\ tm.links \subseteq LinksOf(row.id)
  BY DEF PassOK, TmDecide
<1>2. (CHOOSE r \in tm.verdict : TRUE) = row
  BY <1>1
<1> DEFINE stale == Stale(tm.links)
           was == [status |-> row.status, confidence |-> row.confidence]
           status == NextStatus(row, tm.links, stale)
           confidence == NextConfidence(row, tm.links, stale)
           v == [id |-> row.id, was |-> was, status |-> status, confidence |-> confidence]
<1>3. tm' = [tm EXCEPT !.pc = "write", !.verdict = {v}]
      /\ UNCHANGED <<claim, link, evidence, reported, maintained, promoted, clock>>
  BY <1>2 DEF TmDecide, events
<1>4. IsFiniteSet(link) /\ IsFiniteSet(LinksOf(row.id)) /\ IsFiniteSet(tm.links)
  <2>1. IsFiniteSet(link) /\ LinksOf(row.id) \subseteq link
    BY DEF BeliefTypes, LinksOf
  <2> QED BY <1>1, <2>1, FS_Subset
<1>5. stale \in BOOLEAN
  BY DEF Stale
<1>6. /\ status \in ClaimStatus /\ confidence \in Confidence
      /\ status = "verified" /\ row.status # "verified" => Count(tm.links, "supports") >= 2
  <2> HIDE DEF stale
  <2> QED BY <1>4, <1>5, VerdictIsSound
<1>7. Count(tm.links, "supports") >= 2 => Count(LinksOf(row.id), "supports") >= 2
  BY <1>1, <1>4, CountGrows
<1> HIDE DEF status, confidence, stale
<1>8. PICK w \in Verdict : w = v /\ w.id = row.id /\ w.status = status /\ w.was.status = row.status
  <2>1. /\ v \in Verdict /\ v.id = row.id /\ v.status = status
        /\ v.was.status = row.status
    BY <1>6 DEF Row, Verdict
  <2> HIDE DEF v
  <2> QED BY <2>1
<1> HIDE DEF v
<1>9. tm' \in Pass /\ tm'.pc = "write" /\ tm'.verdict = {w}
  <2>1. tm \in Pass /\ {w} \in SUBSET (Row \cup Verdict)
    BY <1>8 DEF BeliefTypes, Pass
  <2> QED BY <1>3, <1>8, <2>1 DEF Pass
<1>10. BeliefTypes'
  BY <1>3, <1>9 DEF BeliefTypes, Pass
<1>11. PassOK'
  <2>1. w.status = "verified" /\ w.was.status # "verified" => Count(LinksOf(w.id), "supports") >= 2
    BY <1>6, <1>7, <1>8
  <2>2. Count(LinksOf(w.id), "supports")' = Count(LinksOf(w.id), "supports")
    BY <1>3 DEF Count, LinksOf
  <2> QED BY <1>8, <1>9, <2>1, <2>2 DEF PassOK
<1>12. TrailOK' /\ BackedOK'
  BY <1>3 DEF TrailOK, BackedOK, LinksOf, Count
<1> QED BY <1>10, <1>11, <1>12

LEMMA TmWriteStep ==
  ASSUME BeliefInv, TmWrite PROVE BeliefInv'
<1> USE DEF BeliefInv
<1>1. PICK v \in Verdict :
        /\ tm.verdict = {v}
        /\ v.status = "verified" /\ v.was.status # "verified" => Count(LinksOf(v.id), "supports") >= 2
  BY DEF PassOK, TmWrite
<1>2. (CHOOSE w \in tm.verdict : TRUE) = v
  BY <1>1
<1>3. tm \in Pass /\ UNCHANGED <<link, evidence, maintained, clock>>
  BY DEF BeliefTypes, Pass, TmWrite
<1>4. v.id \in Claims /\ v.status \in ClaimStatus /\ v.confidence \in Int
  BY DEF Verdict, Confidence
<1>5. CASE /\ ClaimSet(v.id, v.confidence, v.status)
           /\ promoted' = IF v.status = "verified" /\ v.was.status # "verified"
                          THEN promoted \cup {v.id}
                          ELSE IF v.status = "verified" THEN promoted ELSE promoted \ {v.id}
           /\ tm' = [tm EXCEPT !.pc = "trace", !.links = {}]
  <2>1. /\ claim' \in [Claims -> [there : BOOLEAN, status : ClaimStatus, confidence : Confidence]]
        /\ reported' \in [Claims -> ClaimEvent] /\ reported'[v.id].told
        /\ TrailOK'
    BY <1>3, <1>4, <1>5, ClaimSetWrites
  <2>2. /\ promoted' \in SUBSET Claims
        /\ \A c \in promoted' : c \in promoted \/ (c = v.id /\ v.status = "verified" /\ v.was.status # "verified")
    BY <1>4, <1>5 DEF BeliefTypes
  <2>3. tm' \in Pass /\ tm'.pc = "trace" /\ tm'.verdict = {v}
    BY <1>1, <1>3, <1>5 DEF Pass
  <2>4. BeliefTypes'
    BY <1>3, <2>1, <2>2, <2>3 DEF BeliefTypes, Pass
  <2>5. BackedOK'
    <3>1. \A c \in promoted' : Count(LinksOf(c), "supports") >= 2
      BY <1>1, <2>2 DEF BackedOK
    <3>2. link' = link
      BY <1>3
    <3> QED BY <3>1, <3>2 DEF BackedOK, Count, LinksOf
  <2>6. PassOK'
    BY <2>1, <2>3 DEF PassOK
  <2> QED BY <2>1, <2>4, <2>5, <2>6
<1>6. CASE /\ tm' = [tm EXCEPT !.pc = "links", !.links = {}, !.verdict = {}]
           /\ UNCHANGED <<claim, reported, promoted>>
  <2>1. tm' \in Pass /\ tm'.pc = "links"
    BY <1>3, <1>6 DEF Pass
  <2> QED BY <1>3, <1>6, <2>1 DEF BeliefTypes, Pass, PassOK, TrailOK, BackedOK, LinksOf, Count
<1> QED BY <1>2, <1>5, <1>6 DEF TmWrite

LEMMA TmTraceStep ==
  ASSUME BeliefInv, TmTrace PROVE BeliefInv'
<1> USE DEF BeliefInv
<1>1. PICK v \in Verdict : tm.verdict = {v} /\ reported[v.id].told
  BY DEF PassOK, TmTrace
<1>2. (CHOOSE w \in tm.verdict : TRUE) = v
  BY <1>1
<1>3. /\ maintained' = maintained \cup {v.id}
      /\ tm' = [tm EXCEPT !.pc = "links", !.verdict = {}]
      /\ UNCHANGED <<claim, link, evidence, reported, promoted, clock>>
  BY <1>2 DEF TmTrace
<1>5. v.id \in Claims /\ maintained' \in SUBSET Claims
  BY <1>3 DEF BeliefTypes, Verdict
<1>6. tm' \in Pass /\ tm'.pc = "links"
  <2>1. tm \in Pass
    BY DEF BeliefTypes, Pass
  <2> QED BY <1>3, <2>1 DEF Pass
<1>7. TrailOK'
  BY <1>1, <1>3, <1>5 DEF TrailOK
<1>8. BeliefTypes' /\ PassOK' /\ BackedOK'
  BY <1>3, <1>5, <1>6 DEF BeliefTypes, Pass, PassOK, BackedOK, LinksOf, Count
<1> QED BY <1>7, <1>8

LEMMA BeliefStepOK == BeliefInv /\ [BeliefNext]_beliefVars => BeliefInv'
<1> SUFFICES ASSUME BeliefInv, [BeliefNext]_beliefVars PROVE BeliefInv'
  OBVIOUS
<1>1. CASE UNCHANGED beliefVars
  BY <1>1 DEF BeliefInv, BeliefTypes, PassOK, TrailOK, BackedOK, LinksOf, Count, beliefVars, events
<1>2. CASE TmReturn \/ TmFails
  <2>1. tm' \in Pass /\ tm'.pc = "idle"
    <3>1. tm \in Pass
      BY DEF BeliefInv, BeliefTypes, Pass
    <3> QED BY <1>2, <3>1 DEF TmReturn, TmFails, Pass
  <2>2. UNCHANGED <<claim, link, evidence, reported, maintained, promoted, clock>>
    BY <1>2 DEF TmReturn, TmFails, events
  <2> QED BY <2>1, <2>2 DEF BeliefInv, BeliefTypes, Pass, PassOK, TrailOK, BackedOK, LinksOf, Count
<1>3. ASSUME NEW c \in Claims, AddClaim(c) \/ UpdateClaimConfidence(c) PROVE BeliefInv'
  BY <1>3, AddClaimStep, UpdateClaimConfidenceStep
<1>4. ASSUME NEW c \in Claims, NEW e \in Evidence, AttachEvidence(c, e) PROVE BeliefInv'
  BY <1>4, AttachEvidenceStep
<1>5. CASE (\E e \in Evidence : InsertEvidence(e) \/ TouchSource(e)) \/ Tick
  BY <1>5, EvidenceStep
<1>6. CASE TmStart \/ TmReadLinks \/ TmDecide \/ TmWrite \/ TmTrace
  BY <1>6, TmStartStep, TmReadLinksStep, TmDecideStep, TmWriteStep, TmTraceStep
<1> QED BY <1>1, <1>2, <1>3, <1>4, <1>5, <1>6 DEF BeliefNext, TmNext

(* The lists of the assurance case partition the statuses that apply.      *)
LEMMA ListedOnce ==
  ASSUME NEW c \in Claims, claim[c].status \in ClaimStatus, claim[c].status # "not_applicable"
  PROVE  Cardinality(Listed(c)) = 1
<1>1. DOMAIN Buckets = {"verified", "contradicted", "stale", "needsHuman", "unverified"}
      /\ Buckets.verified = {"verified"} /\ Buckets.contradicted = {"contradicted"}
      /\ Buckets.stale = {"stale"} /\ Buckets.needsHuman = {"needs_human_review"}
      /\ Buckets.unverified = {"unverified", "partially_verified", "conflicted"}
  BY DEF Buckets
<1> DEFINE b == CASE claim[c].status = "verified" -> "verified"
                  [] claim[c].status = "contradicted" -> "contradicted"
                  [] claim[c].status = "stale" -> "stale"
                  [] claim[c].status = "needs_human_review" -> "needsHuman"
                  [] OTHER -> "unverified"
<1>2. \A k \in DOMAIN Buckets : claim[c].status \in Buckets[k] <=> k = b
  BY <1>1 DEF ClaimStatus
<1>3. b \in DOMAIN Buckets
  BY <1>1
<1>4. Listed(c) = {b}
  BY <1>2, <1>3 DEF Listed
<1> QED BY <1>4, FS_Singleton

(* For any number of claims and pieces of evidence: a promotion of truth   *)
(* maintenance has its two supporting links, the updates on the trail end  *)
(* with the row, truth maintenance reports none of its own without one,    *)
(* and the assurance case lists each claim once (store.ts, truth.ts and    *)
(* assurance.ts of forge-belief).                                          *)
THEOREM BeliefsStaySound == BeliefSpec => []BeliefsSound
<1>1. BeliefInv => BeliefsSound
  <2> SUFFICES ASSUME BeliefInv PROVE BeliefsSound
    OBVIOUS
  <2>1. BeliefTypeOK
    BY DEF BeliefInv, BeliefTypes, BeliefTypeOK, Link, ClaimEvent
  <2>2. PromotionBacked
    BY DEF BeliefInv, BackedOK, PromotionBacked, LinksOf
  <2>3. TraceTellsTheClaim
    <3> SUFFICES ASSUME NEW c \in Claims
                 PROVE  /\ reported[c].told => claim[c].there
                                               /\ reported[c] = Told(claim[c].status, claim[c].confidence)
                        /\ c \in maintained => reported[c].told
      BY DEF TraceTellsTheClaim
    <3>1. reported[c] \in [told : BOOLEAN, status : ClaimStatus, confidence : Confidence]
      BY DEF BeliefInv, BeliefTypes, ClaimEvent
    <3>2. /\ reported[c].told =>
               claim[c].there /\ reported[c].status = claim[c].status /\ reported[c].confidence = claim[c].confidence
          /\ c \in maintained => reported[c].told
      BY DEF BeliefInv, TrailOK
    <3> QED BY <3>1, <3>2 DEF Told
  <2>4. AssuranceListsEveryClaim
    BY ListedOnce DEF BeliefInv, BeliefTypes, AssuranceListsEveryClaim
  <2> QED BY <2>1, <2>2, <2>3, <2>4 DEF BeliefsSound
<1> QED BY <1>1, BeliefInitOK, BeliefStepOK, PTL DEF BeliefSpec
-----------------------------------------------------------------------------
(* The engine in memory: three hypotheses, one claim of the graph, the     *)
(* last diagnosis.                                                         *)
HypStatus == {"unknown", "plausible", "likely", "verified", "contradicted", "disproven", "stale"}
Hypothesis == [status : HypStatus, confidence : 0..100, supporting : Nat, contradicting : Nat]

HypothesesOK ==
  /\ hyp \in [1..3 -> Hypothesis] /\ contradictions \subseteq Targets
  /\ StatusMatchesConfidence

GraphClaimOK ==
  /\ graphClaim \in [status : {"unverified", "partially_verified", "verified", "stale"}, confidence : 0..100]
  /\ StaleIsNotTrusted

EngineInv == HypothesesOK /\ GraphClaimOK /\ DiagnosisAgrees

LEMMA EngineInitOK == EngineInit => EngineInv
<1> SUFFICES ASSUME EngineInit PROVE EngineInv
  OBVIOUS
<1>1. HypothesesOK
  <2>1. hyp \in [1..3 -> Hypothesis] /\ \A i \in 1..3 : hyp[i].status \in {"plausible", "unknown"}
    BY DEF EngineInit, InitialHypotheses, Hypothesis, HypStatus
  <2> QED BY <2>1 DEF EngineInit, HypothesesOK, StatusMatchesConfidence
<1>2. GraphClaimOK
  BY DEF EngineInit, GraphClaimOK, StaleIsNotTrusted
<1>3. DiagnosisAgrees
  BY DEF EngineInit, DiagnosisAgrees
<1> QED BY <1>1, <1>2, <1>3 DEF EngineInv

(* One update of one hypothesis, whatever it was before.                   *)
LEMMA MovedMatches ==
  ASSUME NEW h \in Hypothesis, NEW action \in Actions, NEW delta \in Int
  PROVE  LET m == Moved(h, action, delta) IN
           /\ m \in Hypothesis
           /\ m.status = "verified" => m.confidence >= 85
           /\ m.status = "disproven" => m.confidence <= 15
           /\ m.status = "contradicted" => action = "contradict" /\ m.contradicting > 0
<1> DEFINE confidence == Clamp(h.confidence + delta)
           status == StatusForUpdate(h.status, action, confidence)
           supporting == h.supporting + (IF action \in {"support", "promote"} THEN 1 ELSE 0)
           contradicting == h.contradicting + (IF action \in {"contradict", "demote"} THEN 1 ELSE 0)
<1>1. h.confidence + delta \in Int
  BY DEF Hypothesis
<1>2. confidence \in 0..100
  BY <1>1 DEF Clamp
<1> HIDE DEF confidence
<1>3. /\ status \in HypStatus
      /\ status = "verified" => confidence >= 85
      /\ status = "disproven" => confidence <= 15
      /\ status = "contradicted" => action = "contradict"
  BY <1>2 DEF StatusForUpdate, HypStatus, Actions
<1>4. supporting \in Nat /\ contradicting \in Nat /\ (action = "contradict" => contradicting > 0)
  BY DEF Hypothesis
<1> HIDE DEF status, supporting, contradicting
<1>5. Moved(h, action, delta) = [status |-> status, confidence |-> confidence,
                                 supporting |-> supporting, contradicting |-> contradicting]
  BY DEF Moved, status, confidence, supporting, contradicting
<1> QED BY <1>2, <1>3, <1>4, <1>5 DEF Hypothesis

LEMMA ApplyBeliefUpdateStep ==
  ASSUME HypothesesOK, ApplyBeliefUpdate PROVE HypothesesOK'
<1>1. PICK target \in Targets, action \in Actions :
        \E delta \in {DefaultDelta(action), IF action = "contradict" THEN -80 ELSE DefaultDelta(action)} :
          /\ hyp' = [i \in 1..3 |-> IF i = target THEN Moved(hyp[i], action, delta) ELSE hyp[i]]
          /\ contradictions' = IF action = "contradict" THEN contradictions \cup {target} ELSE contradictions
  BY DEF ApplyBeliefUpdate
<1>2. PICK delta \in {DefaultDelta(action), IF action = "contradict" THEN -80 ELSE DefaultDelta(action)} :
        /\ hyp' = [i \in 1..3 |-> IF i = target THEN Moved(hyp[i], action, delta) ELSE hyp[i]]
        /\ contradictions' = IF action = "contradict" THEN contradictions \cup {target} ELSE contradictions
  BY <1>1
<1>3. delta \in Int
  BY DEF DefaultDelta
<1>4. \A i \in 1..3 : hyp[i] \in Hypothesis
  BY DEF HypothesesOK
<1>5. \A i \in 1..3 :
        /\ hyp'[i] \in Hypothesis
        /\ hyp'[i].status = "verified" => hyp'[i].confidence >= 85
        /\ hyp'[i].status = "disproven" => hyp'[i].confidence <= 15
        /\ hyp'[i].status = "contradicted" => i \in contradictions' /\ hyp'[i].contradicting > 0
  <2> SUFFICES ASSUME NEW i \in 1..3
               PROVE  /\ hyp'[i] \in Hypothesis
                      /\ hyp'[i].status = "verified" => hyp'[i].confidence >= 85
                      /\ hyp'[i].status = "disproven" => hyp'[i].confidence <= 15
                      /\ hyp'[i].status = "contradicted" => i \in contradictions' /\ hyp'[i].contradicting > 0
    OBVIOUS
  <2>1. CASE i = target
    <3>1. hyp'[i] = Moved(hyp[i], action, delta)
      BY <1>2, <2>1
    <3>2. action = "contradict" => i \in contradictions'
      BY <1>2, <2>1
    <3> QED BY <1>3, <1>4, <3>1, <3>2, MovedMatches
  <2>2. CASE i # target
    <3>1. hyp'[i] = hyp[i] /\ contradictions \subseteq contradictions'
      BY <1>2, <2>2
    <3> QED BY <1>4, <3>1 DEF HypothesesOK, StatusMatchesConfidence
  <2> QED BY <2>1, <2>2
<1>6. hyp' \in [1..3 -> Hypothesis]
  BY <1>2, <1>5
<1>7. contradictions' \subseteq Targets
  BY <1>2 DEF HypothesesOK
<1> QED BY <1>5, <1>6, <1>7 DEF HypothesesOK, StatusMatchesConfidence

LEMMA DiagnoseStep ==
  ASSUME Diagnose PROVE DiagnosisAgrees'
<1>1. PICK seen \in SUBSET Signals, region \in BOOLEAN, critical \in BOOLEAN :
        diagnosis' = [domains |-> LikelyDomains(seen), causes |-> RootCauses(seen),
                      uncertain |-> diagnosis.uncertain \/ LikelyDomains(seen) = {},
                      guard |-> "guardPath" \in seen,
                      next |-> IF SuggestedProbe(seen, region) # "none" THEN SuggestedProbe(seen, region)
                               ELSE Recommended(graphClaim.status, critical)]
  BY DEF Diagnose
<1>2. /\ diagnosis'.domains = LikelyDomains(seen) /\ diagnosis'.causes = RootCauses(seen)
      /\ diagnosis'.uncertain <=> diagnosis.uncertain \/ LikelyDomains(seen) = {}
      /\ diagnosis'.guard <=> "guardPath" \in seen
  BY <1>1
<1>3. /\ "migration_drift" \in RootCauses(seen) => "database" \in LikelyDomains(seen)
      /\ "type_drift" \in RootCauses(seen) => "shared" \in LikelyDomains(seen)
      /\ "route_guard" \in RootCauses(seen) => "auth" \in LikelyDomains(seen) \/ "guardPath" \in seen
  BY DEF RootCauses, LikelyDomains
<1> QED BY <1>2, <1>3 DEF DiagnosisAgrees

LEMMA GraphClaimStep ==
  ASSUME GraphClaimOK, VerifyGraphClaim \/ MarkClaimsStaleForFiles PROVE GraphClaimOK'
<1>1. CASE VerifyGraphClaim
  BY <1>1 DEF VerifyGraphClaim, GraphClaimOK, StaleIsNotTrusted
<1>2. CASE MarkClaimsStaleForFiles
  BY <1>2 DEF MarkClaimsStaleForFiles, StaleForFiles, GraphClaimOK, StaleIsNotTrusted
<1> QED BY <1>1, <1>2

LEMMA EngineStepOK == EngineInv /\ [EngineNext]_engineVars => EngineInv'
<1> SUFFICES ASSUME EngineInv, [EngineNext]_engineVars PROVE EngineInv'
  OBVIOUS
<1> USE DEF EngineInv
<1>1. HypothesesOK'
  <2>1. CASE ApplyBeliefUpdate
    BY <2>1, ApplyBeliefUpdateStep
  <2>2. CASE hyp' = hyp /\ contradictions' = contradictions
    BY <2>2 DEF HypothesesOK, StatusMatchesConfidence
  <2> QED BY <2>1, <2>2 DEF EngineNext, engineVars, Diagnose, VerifyGraphClaim, MarkClaimsStaleForFiles
<1>2. GraphClaimOK'
  <2>1. CASE VerifyGraphClaim \/ MarkClaimsStaleForFiles
    BY <2>1, GraphClaimStep
  <2>2. CASE graphClaim' = graphClaim
    BY <2>2 DEF GraphClaimOK, StaleIsNotTrusted
  <2> QED BY <2>1, <2>2 DEF EngineNext, engineVars, ApplyBeliefUpdate, Diagnose
<1>3. DiagnosisAgrees'
  <2>1. CASE Diagnose
    BY <2>1, DiagnoseStep
  <2>2. CASE diagnosis' = diagnosis
    BY <2>2 DEF DiagnosisAgrees
  <2> QED BY <2>1, <2>2 DEF EngineNext, engineVars, ApplyBeliefUpdate, VerifyGraphClaim, MarkClaimsStaleForFiles
<1> QED BY <1>1, <1>2, <1>3

(* However many observations are applied: a hypothesis' status is never at *)
(* odds with its confidence, a stale claim never trusted, and the domains  *)
(* and causes of a failure agree (graph.ts, diagnostics.ts).               *)
THEOREM GraphStaysSound == EngineSpec => []GraphSound
<1>1. EngineInv => GraphSound
  BY DEF EngineInv, HypothesesOK, GraphClaimOK, GraphSound, EngineTypeOK, Hypothesis
<1> QED BY <1>1, EngineInitOK, EngineStepOK, PTL DEF EngineSpec

-----------------------------------------------------------------------------
(* RepoGraph.  What a scan has read is of files it walked; the graph is     *)
(* built from that and nothing else.                                        *)
ReadOK(read) ==
  /\ read.walked \in Seq(RepoFiles)
  /\ DOMAIN read.texts \subseteq Elems(read.walked)
  /\ \A f \in DOMAIN read.texts : read.texts[f] \in Contents

ScanInv ==
  /\ content \in [RepoFiles -> Contents] /\ toWalk \in Seq(RepoFiles)
  /\ ReadOK(scanned) /\ ReadOK(snapshot)
  /\ snapshot # NothingRead => graph = BuildGraph(snapshot)

LEMMA SomeNumberIsLeast ==
  ASSUME NEW S \in SUBSET Nat, S # {}
  PROVE  \E i \in S : \A j \in S : i <= j
<1> DEFINE less == {pair \in Nat \X Nat : pair[1] < pair[2]}
<1>1. IsWellFoundedOn(less, Nat)
  BY NatLessThanWellFounded DEF OpToRel
<1>2. PICK i \in S : \A j \in S : ~(<<j, i>> \in less)
  <2> HIDE DEF less
  <2> QED BY <1>1, WFMin
<1>3. ASSUME NEW j \in S PROVE i <= j
  <2>1. i \in Nat /\ j \in Nat /\ <<j, i>> \in Nat \X Nat
    OBVIOUS
  <2>2. ~(j < i)
    BY <1>2, <2>1
  <2> QED BY <2>1, <2>2
<1> QED BY <1>3

LEMMA ScanInitOK == GraphInit => ScanInv
<1> SUFFICES ASSUME GraphInit PROVE ScanInv
  OBVIOUS
<1>1. ReadOK(NothingRead)
  <2>1. NothingRead.walked = <<>> /\ DOMAIN NothingRead.texts = {}
    BY DEF NothingRead
  <2> QED BY <2>1 DEF ReadOK
<1> QED BY <1>1, GraphAssumption DEF GraphInit, ScanInv

LEMMA ScanStepOK == ScanInv /\ [GraphNext]_graphVars => ScanInv'
<1> SUFFICES ASSUME ScanInv, [GraphNext]_graphVars PROVE ScanInv'
  OBVIOUS
<1>1. CASE BeginScan
  <2>1. PICK s \in SetToSeqs(RepoFiles) : toWalk' = s
    BY <1>1 DEF BeginScan
  <2>2. Cardinality(RepoFiles) \in Nat
    BY GraphAssumption, FS_CardinalityType
  <2>3. s \in [1..Cardinality(RepoFiles) -> RepoFiles]
    BY DEF SetToSeqs
  <2>4. toWalk' \in Seq(RepoFiles)
    BY <2>1, <2>2, <2>3
  <2> QED BY <1>1, <2>4 DEF BeginScan, ScanInv
<1>2. CASE WalkFile
  <2> DEFINE f == Head(toWalk)
  <2>1. toWalk # <<>> /\ toWalk' = Tail(toWalk) /\ f \in RepoFiles /\ toWalk' \in Seq(RepoFiles)
    BY <1>2 DEF WalkFile, ScanInv
  <2>2. PICK readable \in BOOLEAN :
          scanned' = [walked |-> Append(scanned.walked, f),
                      texts |-> [g \in DOMAIN scanned.texts \cup (IF readable THEN {f} ELSE {}) |->
                                   IF g = f THEN content[f] ELSE scanned.texts[g]]]
    BY <1>2 DEF WalkFile
  <2> HIDE DEF f
  <2>3. scanned'.walked = Append(scanned.walked, f) /\ scanned.walked \in Seq(RepoFiles)
    BY <2>2 DEF ScanInv, ReadOK
  <2>4. /\ scanned'.walked \in Seq(RepoFiles)
        /\ \A k \in DOMAIN scanned.walked : k \in DOMAIN scanned'.walked /\ scanned'.walked[k] = scanned.walked[k]
        /\ Len(scanned'.walked) \in DOMAIN scanned'.walked /\ scanned'.walked[Len(scanned'.walked)] = f
    BY <2>1, <2>3
  <2>5. Elems(scanned.walked) \cup {f} \subseteq Elems(scanned'.walked)
    BY <2>4 DEF Elems
  <2>6. ASSUME NEW g \in DOMAIN scanned'.texts
        PROVE  g \in Elems(scanned'.walked) /\ scanned'.texts[g] \in Contents
    <3>1. g = f \/ g \in DOMAIN scanned.texts
      BY <2>2
    <3>2. scanned'.texts[g] = IF g = f THEN content[f] ELSE scanned.texts[g]
      BY <2>2
    <3> QED BY <2>1, <2>5, <3>1, <3>2 DEF ScanInv, ReadOK
  <2>7. ReadOK(scanned')
    BY <2>4, <2>6 DEF ReadOK
  <2> QED BY <1>2, <2>1, <2>7 DEF WalkFile, ScanInv
<1>3. CASE EndScan
  <2>1. ReadOK(scanned') /\ ReadOK(snapshot') /\ graph' = BuildGraph(snapshot')
    <3>1. NothingRead.walked = <<>> /\ DOMAIN NothingRead.texts = {}
      BY DEF NothingRead
    <3>2. ReadOK(NothingRead)
      BY <3>1 DEF ReadOK
    <3> QED BY <1>3, <3>2 DEF EndScan, ScanInv
  <2> QED BY <1>3, <2>1 DEF EndScan, ScanInv
<1>4. ASSUME NEW f \in RepoFiles, EditFile(f) PROVE ScanInv'
  <2>1. PICK c \in Contents : content' = [content EXCEPT ![f] = c]
    BY <1>4 DEF EditFile
  <2>2. content' \in [RepoFiles -> Contents]
    BY <2>1 DEF ScanInv
  <2> QED BY <1>4, <2>2 DEF EditFile, ScanInv
<1>5. CASE UNCHANGED graphVars
  BY <1>5 DEF graphVars, ScanInv
<1> QED BY <1>1, <1>2, <1>3, <1>4, <1>5 DEF GraphNext

(* A definition that may have a reference has the first one to win it.      *)
LEMMA SomeDefinitionWins ==
  ASSUME NEW read, ReadOK(read), NEW f, NEW n, NEW line,
         NEW known \in Definitions(read), known.name = n, line # "definition"
  PROVE  \E d \in Definitions(read) : d.name = n /\ d \in Winner(read, f, n, line)
<1> DEFINE eligible == {d \in Definitions(read) : d.name = n /\ ~(line = "definition" /\ d.file = f)}
           places == {WalkedAt(read, d.file) : d \in eligible}
<1>1. known \in eligible
  OBVIOUS
<1>2. ASSUME NEW d \in eligible PROVE WalkedAt(read, d.file) \in Nat
  <2>1. d.file \in DOMAIN read.texts
    BY DEF Definitions
  <2>2. \E k \in DOMAIN read.walked : read.walked[k] = d.file
    BY <2>1 DEF ReadOK, Elems
  <2>3. WalkedAt(read, d.file) \in DOMAIN read.walked
    BY <2>2 DEF WalkedAt
  <2>4. DOMAIN read.walked \subseteq Nat
    BY DEF ReadOK
  <2> QED BY <2>3, <2>4
<1>3. places \in SUBSET Nat /\ places # {}
  BY <1>1, <1>2
<1>4. PICK i \in places : \A j \in places : i <= j
  BY <1>3, SomeNumberIsLeast
<1>5. PICK d \in eligible : i = WalkedAt(read, d.file)
  BY <1>4
<1>6. \A e \in eligible : WalkedAt(read, d.file) <= WalkedAt(read, e.file)
  BY <1>4, <1>5
<1> QED BY <1>5, <1>6 DEF Winner

LEMMA ReferenceEdgesAre ==
  \A read, e : e \in ReferenceEdges(read) <=>
    \E f \in DOMAIN read.texts, n \in RepoNames :
      \E line \in Mentions(read.texts[f], n) : \E d \in Winner(read, f, n, line) :
        e = Edge(FileNode(f), SymbolNode(d), "references")
<1> TAKE read, e
<1> DEFINE ofLine(f, n, line) == {Edge(FileNode(f), SymbolNode(d), "references") : d \in Winner(read, f, n, line)}
           ofName(f, n) == UNION {ofLine(f, n, line) : line \in Mentions(read.texts[f], n)}
<1>1. ReferenceEdges(read) = UNION {ofName(f, n) : f \in DOMAIN read.texts, n \in RepoNames}
  BY DEF ReferenceEdges
<1>2. \A f, n : e \in ofName(f, n) <=> \E line \in Mentions(read.texts[f], n) : e \in ofLine(f, n, line)
  OBVIOUS
<1>3. \A f, n, line :
        e \in ofLine(f, n, line) <=>
          \E d \in Winner(read, f, n, line) : e = Edge(FileNode(f), SymbolNode(d), "references")
  OBVIOUS
<1> HIDE DEF ofLine, ofName
<1>4. e \in ReferenceEdges(read) <=> \E f \in DOMAIN read.texts, n \in RepoNames : e \in ofName(f, n)
  BY <1>1
<1> QED BY <1>2, <1>3, <1>4

(* The parts of the graph, one by one.                                      *)
LEMMA GraphIsBuilt ==
  ASSUME NEW read, graph = BuildGraph(read)
  PROVE  /\ graph.defs = Definitions(read) /\ graph.calls = CallSites(read, Definitions(read))
         /\ \E nodes :
              /\ nodes = {FileNode(f) : f \in Elems(read.walked)} \cup {SymbolNode(d) : d \in Definitions(read)}
                           \cup {TestNode(s) : s \in Elems(Suites)}
              /\ graph.nodes = nodes \cup {DomainNode}
              /\ graph.edges = {Edge(FileNode(d.file), SymbolNode(d), "defines") : d \in Definitions(read)}
                   \cup ImportEdges(read) \cup ReferenceEdges(read)
                   \cup CallEdges(CallSites(read, Definitions(read))) \cup TestEdges(nodes) \cup OwnedEdges(nodes)
  BY DEF BuildGraph

LEMMA DefinitionsAreFound ==
  ASSUME NEW read, ReadOK(read), graph = BuildGraph(read), NEW n \in RepoNames
  PROVE  /\ FindDefinitions(n) = {f \in DOMAIN read.texts : n \in read.texts[f].defines}
         /\ FindCallers(n) = {f \in DOMAIN read.texts :
                                n \in read.texts[f].calls /\ {g \in DOMAIN read.texts : n \in read.texts[g].defines} # {}}
<1> DEFINE texts == read.texts
           defined == {f \in DOMAIN texts : n \in texts[f].defines}
<1>1. graph.defs = Definitions(read) /\ graph.calls = CallSites(read, Definitions(read))
  BY GraphIsBuilt
<1>2. ASSUME NEW f \in defined PROVE \E d \in Definitions(read) : d.name = n /\ d.file = f
  <2> DEFINE d == [name |-> n, file |-> f]
  <2>1. d \in Definitions(read)
    BY DEF Definitions
  <2> QED BY <2>1
<1>3. \A d \in Definitions(read) : d.name = n => d.file \in defined
  BY DEF Definitions
<1>4. FindDefinitions(n) = defined
  BY <1>1, <1>2, <1>3 DEF FindDefinitions
<1>5. (\E d \in Definitions(read) : d.name = n) <=> defined # {}
  BY <1>2, <1>3
<1> HIDE DEF defined
<1>6. ASSUME NEW f \in DOMAIN texts, n \in texts[f].calls, defined # {} PROVE f \in FindCallers(n)
  <2> DEFINE c == [caller |-> f, callee |-> n]
  <2>1. c \in [caller : DOMAIN read.texts, callee : RepoNames] /\ c.caller = f /\ c.callee = n
    OBVIOUS
  <2> HIDE DEF c
  <2>2. c \in CallSites(read, Definitions(read))
    BY <1>5, <1>6, <2>1 DEF CallSites
  <2> QED BY <1>1, <2>1, <2>2 DEF FindCallers
<1>7. ASSUME NEW f \in FindCallers(n) PROVE f \in DOMAIN texts /\ n \in texts[f].calls /\ defined # {}
  <2>1. PICK c \in CallSites(read, Definitions(read)) : c.callee = n /\ c.caller = f
    BY <1>1, <1>7 DEF FindCallers
  <2> QED BY <1>5, <2>1 DEF CallSites
<1>8. FindCallers(n) = {f \in DOMAIN texts : n \in texts[f].calls /\ defined # {}}
  BY <1>6, <1>7
<1> QED BY <1>4, <1>8 DEF defined

LEMMA CallsAreReferred ==
  ASSUME NEW read, ReadOK(read), graph = BuildGraph(read), NEW n \in RepoNames, NEW f \in DOMAIN read.texts,
         n \in read.texts[f].calls \cup read.texts[f].oneLiners,
         NEW h \in DOMAIN read.texts, n \in read.texts[h].defines
  PROVE  \E g \in DOMAIN read.texts :
           n \in read.texts[g].defines /\ Edge(FileNode(f), <<"symbol", g, n>>, "references") \in graph.edges
<1>1. PICK line \in Mentions(read.texts[f], n) : line # "definition"
  BY DEF Mentions
<1>2. PICK known \in Definitions(read) : known.name = n
  <2> DEFINE known == [name |-> n, file |-> h]
  <2>1. known \in Definitions(read) /\ known.name = n
    BY DEF Definitions
  <2> QED BY <2>1
<1>3. PICK d \in Definitions(read) : d.name = n /\ d \in Winner(read, f, n, line)
  BY <1>1, <1>2, SomeDefinitionWins
<1>4. Edge(FileNode(f), SymbolNode(d), "references") \in ReferenceEdges(read)
  BY <1>1, <1>3, ReferenceEdgesAre
<1>5. Edge(FileNode(f), SymbolNode(d), "references") \in graph.edges
  BY <1>4, GraphIsBuilt
<1>6. d.file \in DOMAIN read.texts /\ n \in read.texts[d.file].defines /\ SymbolNode(d) = <<"symbol", d.file, n>>
  BY <1>3 DEF Definitions, SymbolNode
<1> QED BY <1>5, <1>6

(* The edges of imports and calls, one by one.                              *)
LEMMA NamelessEdgesAre ==
  \A read, e :
    /\ e \in ImportEdges(read) <=>
         \E f \in DOMAIN read.texts : \E i \in read.texts[f].imports :
           e = Edge(FileNode(f), <<"dep", i>>, "imports")
    /\ e \in CallEdges(CallSites(read, Definitions(read))) <=>
         \E c \in CallSites(read, Definitions(read)) :
           e = Edge(FileNode(c.caller), <<"name", c.callee>>, "calls")
<1> TAKE read, e
<1> DEFINE ofFile(f) == {Edge(FileNode(f), <<"dep", i>>, "imports") : i \in read.texts[f].imports}
<1>1. ImportEdges(read) = UNION {ofFile(f) : f \in DOMAIN read.texts}
  BY DEF ImportEdges
<1>2. \A f : e \in ofFile(f) <=> \E i \in read.texts[f].imports : e = Edge(FileNode(f), <<"dep", i>>, "imports")
  OBVIOUS
<1> HIDE DEF ofFile
<1>3. e \in ImportEdges(read) <=> \E f \in DOMAIN read.texts : e \in ofFile(f)
  BY <1>1
<1>4. e \in CallEdges(CallSites(read, Definitions(read))) <=>
        \E c \in CallSites(read, Definitions(read)) : e = Edge(FileNode(c.caller), <<"name", c.callee>>, "calls")
  BY DEF CallEdges
<1> QED BY <1>2, <1>3, <1>4

LEMMA SuitesOfFile ==
  ASSUME NEW read, graph = BuildGraph(read), NEW f \in Elems(read.walked), NEW s \in Elems(Suites)
  PROVE  Edge(TestNode(s), FileNode(f), "tests") \in graph.edges <=>
           f \in s.files \/ \E t \in s.files : TwinOf[t] = f
<1>1. PICK nodes :
        /\ nodes = {FileNode(g) : g \in Elems(read.walked)} \cup {SymbolNode(d) : d \in Definitions(read)}
                     \cup {TestNode(x) : x \in Elems(Suites)}
        /\ graph.nodes = nodes \cup {DomainNode}
        /\ graph.edges = {Edge(FileNode(d.file), SymbolNode(d), "defines") : d \in Definitions(read)}
             \cup ImportEdges(read) \cup ReferenceEdges(read)
             \cup CallEdges(CallSites(read, Definitions(read))) \cup TestEdges(nodes) \cup OwnedEdges(nodes)
  BY GraphIsBuilt
<1>2. FileNode(f) \in nodes
  BY <1>1
<1> DEFINE covers(x) == x.files \cup {g \in {TwinOf[t] : t \in x.files} : FileNode(g) \in nodes}
<1>3. f \in covers(s) <=> f \in s.files \/ \E t \in s.files : TwinOf[t] = f
  BY <1>2
<1>4. \A e : e \in TestEdges(nodes) <=> \E x \in Elems(Suites) : \E g \in covers(x) : e = Edge(TestNode(x), FileNode(g), "tests")
  <2> TAKE e
  <2> DEFINE ofSuite(x) == {Edge(TestNode(x), FileNode(g), "tests") : g \in covers(x)}
  <2>1. TestEdges(nodes) = UNION {ofSuite(x) : x \in Elems(Suites)}
    BY DEF TestEdges
  <2>2. \A x : e \in ofSuite(x) <=> \E g \in covers(x) : e = Edge(TestNode(x), FileNode(g), "tests")
    OBVIOUS
  <2> HIDE DEF ofSuite, covers
  <2> QED BY <2>1, <2>2
<1> HIDE DEF covers
<1>5. \A x, t \in Elems(Suites) : TestNode(x) = TestNode(t) => x = t
  <2> TAKE x, t \in Elems(Suites)
  <2>1. PICK j \in DOMAIN Suites, k \in DOMAIN Suites : Suites[j] = x /\ Suites[k] = t
    BY DEF Elems
  <2>2. TestNode(x) = TestNode(t) => x.path = t.path
    BY DEF TestNode
  <2> QED BY <2>1, <2>2, GraphAssumption
<1>6. \A g : FileNode(g) = FileNode(f) => g = f
  BY DEF FileNode
<1>7. Edge(TestNode(s), FileNode(f), "tests") \in graph.edges <=> f \in covers(s)
  <2> DEFINE e == Edge(TestNode(s), FileNode(f), "tests")
  <2>1. e.type = "tests" /\ e.source = TestNode(s) /\ e.target = FileNode(f)
    BY DEF Edge
  <2>2. ASSUME e \in TestEdges(nodes) PROVE f \in covers(s)
    <3>1. PICK t \in Elems(Suites) : \E g \in covers(t) : e = Edge(TestNode(t), FileNode(g), "tests")
      BY <1>4, <2>2
    <3>2. PICK g \in covers(t) : e = Edge(TestNode(t), FileNode(g), "tests")
      BY <3>1
    <3>3. TestNode(t) = TestNode(s) /\ FileNode(g) = FileNode(f)
      BY <3>2 DEF Edge
    <3> QED BY <1>5, <1>6, <3>2, <3>3
  <2>3. f \in covers(s) => e \in TestEdges(nodes)
    BY <1>4
  <2>4. e \notin OwnedEdges(nodes)
    BY <2>1 DEF OwnedEdges, Edge
  <2>5. e \notin ReferenceEdges(read)
    BY <2>1, ReferenceEdgesAre DEF Edge
  <2>6. e \notin {Edge(FileNode(d.file), SymbolNode(d), "defines") : d \in Definitions(read)}
    BY <2>1 DEF Edge
  <2>7. e \notin ImportEdges(read) /\ e \notin CallEdges(CallSites(read, Definitions(read)))
    BY <2>1, NamelessEdgesAre DEF Edge
  <2> HIDE DEF e
  <2>8. e \in graph.edges <=> f \in covers(s)
    BY <1>1, <2>2, <2>3, <2>4, <2>5, <2>6, <2>7
  <2> QED BY <2>8 DEF e
<1> QED BY <1>3, <1>7

LEMMA TestsOfPattern ==
  ASSUME NEW read, graph = BuildGraph(read), NEW p \in DOMAIN Matched
  PROVE  FindAffectedTests(p) =
           {s \in Elems(Suites) : \E f \in Matched[p] \cap Elems(read.walked) :
              f \in s.files \/ \E t \in s.files : TwinOf[t] = f}
<1>1. ASSUME NEW f PROVE FileNode(f) \in graph.nodes <=> f \in Elems(read.walked)
  BY GraphIsBuilt DEF FileNode, SymbolNode, TestNode, DomainNode
<1>2. ASSUME NEW s \in Elems(Suites), NEW f \in Elems(read.walked)
      PROVE  Edge(TestNode(s), FileNode(f), "tests") \in graph.edges <=>
               f \in s.files \/ \E t \in s.files : TwinOf[t] = f
  BY <1>2, SuitesOfFile
<1>3. FindAffectedTests(p) =
        {s \in Elems(Suites) : \E f \in Matched[p] :
           f \in Elems(read.walked) /\ Edge(TestNode(s), FileNode(f), "tests") \in graph.edges}
  BY <1>1 DEF FindAffectedTests
<1> QED BY <1>2, <1>3

LEMMA EdgesEndRight ==
  ASSUME NEW read, ReadOK(read), graph = BuildGraph(read)
  PROVE  EdgesEndAsTyped
<1>1. PICK nodes :
        /\ nodes = {FileNode(g) : g \in Elems(read.walked)} \cup {SymbolNode(d) : d \in Definitions(read)}
                     \cup {TestNode(s) : s \in Elems(Suites)}
        /\ graph.nodes = nodes \cup {DomainNode}
        /\ graph.edges = {Edge(FileNode(d.file), SymbolNode(d), "defines") : d \in Definitions(read)}
             \cup ImportEdges(read) \cup ReferenceEdges(read)
             \cup CallEdges(CallSites(read, Definitions(read))) \cup TestEdges(nodes) \cup OwnedEdges(nodes)
  BY GraphIsBuilt
<1>2. /\ \A g \in Elems(read.walked) : FileNode(g) \in nodes
      /\ \A d \in Definitions(read) : SymbolNode(d) \in nodes /\ FileNode(d.file) \in nodes
      /\ \A s \in Elems(Suites) : TestNode(s) \in nodes
  <2>1. \A d \in Definitions(read) : d.file \in Elems(read.walked)
    BY DEF Definitions, ReadOK
  <2> QED BY <1>1, <2>1
<1> DEFINE ends(e) == /\ e.source \in graph.nodes
                      /\ e.type \in {"imports", "calls"} => e.target \notin graph.nodes
                      /\ e.target \notin graph.nodes => e.type \in {"imports", "calls", "tests"}
<1>3. ASSUME NEW e \in {Edge(FileNode(d.file), SymbolNode(d), "defines") : d \in Definitions(read)} PROVE ends(e)
  BY <1>1, <1>2 DEF Edge
<1>4. ASSUME NEW e \in ReferenceEdges(read) PROVE ends(e)
  <2>1. PICK f \in DOMAIN read.texts, n \in RepoNames :
          \E line \in Mentions(read.texts[f], n) : \E d \in Winner(read, f, n, line) :
            e = Edge(FileNode(f), SymbolNode(d), "references")
    BY <1>4, ReferenceEdgesAre
  <2>2. PICK d \in Definitions(read) : e = Edge(FileNode(f), SymbolNode(d), "references")
    BY <2>1 DEF Winner
  <2>3. FileNode(f) \in nodes
    BY <1>2 DEF ReadOK
  <2> QED BY <1>1, <1>2, <2>2, <2>3 DEF Edge
<1>5. ASSUME NEW e \in TestEdges(nodes) PROVE ends(e)
  <2>1. PICK s \in Elems(Suites) : e \in {Edge(TestNode(s), FileNode(f), "tests") :
            f \in s.files \cup {g \in {TwinOf[t] : t \in s.files} : FileNode(g) \in nodes}}
    BY <1>5 DEF TestEdges
  <2> QED BY <1>1, <1>2, <2>1 DEF Edge
<1>6. ASSUME NEW e \in OwnedEdges(nodes) PROVE ends(e)
  BY <1>1, <1>6 DEF OwnedEdges, Edge
<1>7. ASSUME NEW x PROVE <<"dep", x>> \notin graph.nodes /\ <<"name", x>> \notin graph.nodes
  BY <1>1 DEF FileNode, SymbolNode, TestNode, DomainNode
<1>8. ASSUME NEW e \in ImportEdges(read) PROVE ends(e)
  <2>1. PICK f \in DOMAIN read.texts : \E i \in read.texts[f].imports : e = Edge(FileNode(f), <<"dep", i>>, "imports")
    BY NamelessEdgesAre
  <2>2. FileNode(f) \in nodes
    BY <1>2 DEF ReadOK
  <2> QED BY <1>1, <1>7, <2>1, <2>2 DEF Edge
<1>9. ASSUME NEW e \in CallEdges(CallSites(read, Definitions(read))) PROVE ends(e)
  <2>1. PICK c \in CallSites(read, Definitions(read)) : e = Edge(FileNode(c.caller), <<"name", c.callee>>, "calls")
    BY NamelessEdgesAre
  <2>2. FileNode(c.caller) \in nodes
    BY <1>2 DEF CallSites, ReadOK
  <2> QED BY <1>1, <1>7, <2>1, <2>2 DEF Edge
<1> HIDE DEF ends
<1>10. \A e \in graph.edges : ends(e)
  BY <1>1, <1>3, <1>4, <1>5, <1>6, <1>8, <1>9
<1> QED BY <1>10 DEF ends, EdgesEndAsTyped

(* findDependencyPath: the nodes within so many hops, and the first of the  *)
(* five levels a node is in.                                                *)
LEMMA LevelsGrow ==
  ASSUME NEW a
  PROVE  Levels(a)[0] = {a} /\ \A k \in 1..MaxHops : Levels(a)[k] = Onward(Levels(a)[k - 1])
<1> DEFINE s0 == {a}
           s1 == Onward(s0)
           s2 == Onward(s1)
           s3 == Onward(s2)
           s4 == Onward(s3)
           f == [k \in 0 .. MaxHops |-> IF k = 0 THEN s0 ELSE IF k = 1 THEN s1 ELSE IF k = 2 THEN s2 ELSE IF k = 3 THEN s3 ELSE s4]
           fits(g) == g = [k \in 0 .. MaxHops |-> IF k = 0 THEN {a} ELSE Onward(g[k - 1])]
<1>1. fits(f)
  <2> HIDE DEF s1, s2, s3, s4
  <2>1. /\ f[0] = s0 /\ f[1] = s1 /\ f[2] = s2 /\ f[3] = s3 /\ f[4] = s4
    BY DEF MaxHops
  <2>2. s1 = Onward(s0) /\ s2 = Onward(s1) /\ s3 = Onward(s2) /\ s4 = Onward(s3)
    BY DEF s1, s2, s3, s4
  <2>3. ASSUME NEW k \in 0 .. MaxHops PROVE f[k] = IF k = 0 THEN {a} ELSE Onward(f[k - 1])
    <3>1. k \in {0, 1, 2, 3, 4}
      BY DEF MaxHops
    <3>2. CASE k = 0
      BY <2>1, <3>2
    <3>3. CASE k = 1
      <4>1. f[k] = s1 /\ k - 1 = 0 /\ k # 0
        BY <2>1, <3>3
      <4>2. f[k - 1] = s0
        BY <2>1, <4>1
      <4> QED BY <2>2, <4>1, <4>2
    <3>4. CASE k = 2
      <4>1. f[k] = s2 /\ k - 1 = 1 /\ k # 0
        BY <2>1, <3>4
      <4>2. f[k - 1] = s1
        BY <2>1, <4>1
      <4> QED BY <2>2, <4>1, <4>2
    <3>5. CASE k = 3
      <4>1. f[k] = s3 /\ k - 1 = 2 /\ k # 0
        BY <2>1, <3>5
      <4>2. f[k - 1] = s2
        BY <2>1, <4>1
      <4> QED BY <2>2, <4>1, <4>2
    <3>6. CASE k = 4
      <4>1. f[k] = s4 /\ k - 1 = 3 /\ k # 0
        BY <2>1, <3>6
      <4>2. f[k - 1] = s3
        BY <2>1, <4>1
      <4> QED BY <2>2, <4>1, <4>2
    <3> QED BY <3>1, <3>2, <3>3, <3>4, <3>5, <3>6
  <2> QED BY <2>3
<1>2. Levels(a) = CHOOSE g : fits(g)
  BY DEF Levels
<1> HIDE DEF f
<1>3. fits(Levels(a))
  <2> HIDE DEF fits
  <2> QED BY <1>1, <1>2
<1>4. ASSUME NEW k \in 0 .. MaxHops PROVE Levels(a)[k] = IF k = 0 THEN {a} ELSE Onward(Levels(a)[k - 1])
  BY <1>3
<1> QED BY <1>4 DEF MaxHops

LEMMA HopsAreLeast ==
  ASSUME NEW a, NEW b
  PROVE  \/ Hops(a, b) = OutOfReach /\ \A k \in 0 .. MaxHops : b \notin Levels(a)[k]
         \/ /\ Hops(a, b) \in 0 .. MaxHops /\ b \in Levels(a)[Hops(a, b)]
            /\ \A k \in 0 .. MaxHops : b \in Levels(a)[k] => Hops(a, b) <= k
<1> DEFINE within == {k \in 0 .. MaxHops : b \in Levels(a)[k]}
<1>1. Hops(a, b) = IF within = {} THEN OutOfReach ELSE CHOOSE k \in within : \A j \in within : k <= j
  BY DEF Hops
<1>2. CASE within = {}
  BY <1>1, <1>2
<1>3. CASE within # {}
  <2>1. within \in SUBSET Nat
    OBVIOUS
  <2>2. \E k \in within : \A j \in within : k <= j
    <3> HIDE DEF within
    <3> QED BY <1>3, <2>1, SomeNumberIsLeast
  <2>3. Hops(a, b) \in within /\ \A j \in within : Hops(a, b) <= j
    BY <1>1, <1>3, <2>2
  <2> QED BY <2>3
<1> QED BY <1>2, <1>3

LEMMA FoundPathsAreShortest ==
  ASSUME NEW a, NEW b \in graph.nodes, b # a, Hops(a, b) # OutOfReach
  PROVE  LET before == {e.source : e \in {d \in graph.edges : d.target = b}}
         IN /\ \E c \in before : Hops(a, c) + 1 = Hops(a, b)
            /\ \A c \in before : Hops(a, c) + 1 >= Hops(a, b)
<1> DEFINE before == {e.source : e \in {d \in graph.edges : d.target = b}}
           k == Hops(a, b)
<1>1. k \in 0 .. MaxHops /\ b \in Levels(a)[k] /\ \A j \in 0 .. MaxHops : b \in Levels(a)[j] => k <= j
  BY HopsAreLeast
<1>2. k # 0
  BY <1>1, LevelsGrow
<1> HIDE DEF k
<1>3. k \in 1 .. MaxHops /\ k - 1 \in 0 .. MaxHops /\ ~(k <= k - 1)
  BY <1>1, <1>2 DEF MaxHops
<1>4. b \notin Levels(a)[k - 1]
  BY <1>1, <1>3
<1>5. Levels(a)[k] = Onward(Levels(a)[k - 1])
  BY <1>3, LevelsGrow
<1>6. PICK e \in graph.edges : e.source \in Levels(a)[k - 1] /\ e.target = b
  BY <1>1, <1>4, <1>5 DEF Onward
<1>7. e.source \in before
  BY <1>6
<1>8. ASSUME NEW c \in before, Hops(a, c) # OutOfReach PROVE Hops(a, c) \in 0 .. MaxHops /\ Hops(a, c) + 1 >= k
  <2> DEFINE m == Hops(a, c)
  <2>1. m \in 0 .. MaxHops /\ c \in Levels(a)[m]
    BY <1>8, HopsAreLeast
  <2>2. PICK d \in graph.edges : d.source = c /\ d.target = b
    BY <1>8
  <2> HIDE DEF m
  <2>3. CASE m < MaxHops
    <3>1. m + 1 \in 1 .. MaxHops /\ m + 1 \in 0 .. MaxHops /\ (m + 1) - 1 = m
      BY <2>1, <2>3 DEF MaxHops
    <3>2. Levels(a)[m + 1] = Onward(Levels(a)[m])
      BY <3>1, LevelsGrow
    <3>3. b \in Levels(a)[m + 1]
      BY <2>1, <2>2, <3>2 DEF Onward
    <3>4. k <= m + 1
      BY <1>1, <3>1, <3>3
    <3> QED BY <1>3, <2>1, <3>4 DEF m, MaxHops
  <2>4. CASE ~(m < MaxHops)
    BY <1>3, <2>1, <2>4 DEF m, MaxHops
  <2> QED BY <2>3, <2>4
<1>9. \A c \in before : Hops(a, c) + 1 >= k
  <2> TAKE c \in before
  <2>1. CASE Hops(a, c) = OutOfReach
    BY <1>3, <2>1 DEF OutOfReach, MaxHops
  <2>2. CASE Hops(a, c) # OutOfReach
    BY <1>8, <2>2
  <2> QED BY <2>1, <2>2
<1>10. Hops(a, e.source) + 1 = k
  <2>1. Hops(a, e.source) \in 0 .. MaxHops /\ Hops(a, e.source) <= k - 1
    BY <1>3, <1>6, HopsAreLeast
  <2>2. Hops(a, e.source) + 1 >= k
    BY <1>7, <1>9
  <2> QED BY <1>3, <2>1, <2>2 DEF MaxHops
<1>11. (\E c \in before : Hops(a, c) + 1 = k) /\ \A c \in before : Hops(a, c) + 1 >= k
  BY <1>7, <1>9, <1>10
<1> QED BY <1>11 DEF k

LEMMA MoreFilesMoreTests ==
  ASSUME NEW small, NEW big, small \subseteq big
  PROVE  SelectTests(small) \subseteq SelectTests(big)
<1>1. SymbolsIn(small) \subseteq SymbolsIn(big)
  BY DEF SymbolsIn
<1>2. Affected(small) \subseteq Affected(big)
  BY <1>1 DEF Affected
<1>3. ByRelation(small) \subseteq ByRelation(big)
  BY DEF ByRelation
<1>4. ByTopic(small) \subseteq ByTopic(big)
  BY DEF ByTopic
<1>5. ByEdge(small) \subseteq ByEdge(big)
  BY DEF ByEdge
<1> DEFINE direct(files) == ByRelation(files) \cup ByTopic(files) \cup ByEdge(files)
           named(files) == {t \in UNION {s.files : s \in Elems(Suites)} : \E x \in Affected(files) : <<t, x>> \in NamedIn}
<1>6. direct(small) \subseteq direct(big)
  BY <1>3, <1>4, <1>5
<1>7. named(small) \subseteq named(big)
  BY <1>2
<1>8. \A files : SelectTests(files) = UNION {s.files : s \in direct(files)} \cup named(files)
  BY DEF SelectTests
<1> HIDE DEF direct, named
<1> QED BY <1>6, <1>7, <1>8

(* For any repository, whatever the order of the walk and the edits during  *)
(* it: the graph answers for exactly the texts that were read, edges end in *)
(* nodes but those of imports, calls and unwalked test files, paths are     *)
(* shortest and a larger change selects no fewer tests (scanner.ts,         *)
(* query.ts, affected-tests.ts).                                            *)
THEOREM GraphAnswersForTheScan == RepoGraphSpec => []GraphHolds
<1>1. ASSUME ScanInv PROVE GraphHolds
  <2> SUFFICES ASSUME snapshot # NothingRead
               PROVE  AnswersForWhatWasRead /\ EdgesEndAsTyped /\ PathsAreShortest /\ SelectionGrows
    BY DEF GraphHolds
  <2>1. graph = BuildGraph(snapshot) /\ ReadOK(snapshot)
    BY <1>1 DEF ScanInv
  <2>2. ASSUME NEW n \in RepoNames
        PROVE  LET defined == {f \in DOMAIN snapshot.texts : n \in snapshot.texts[f].defines}
               IN /\ FindDefinitions(n) = defined
                  /\ FindCallers(n) = {f \in DOMAIN snapshot.texts : n \in snapshot.texts[f].calls /\ defined # {}}
                  /\ \A f \in DOMAIN snapshot.texts :
                       (n \in snapshot.texts[f].calls \cup snapshot.texts[f].oneLiners /\ defined # {}) =>
                         \E g \in defined : Edge(FileNode(f), <<"symbol", g, n>>, "references") \in graph.edges
    <3>1. ASSUME NEW f \in DOMAIN snapshot.texts, n \in snapshot.texts[f].calls \cup snapshot.texts[f].oneLiners,
                 NEW h \in DOMAIN snapshot.texts, n \in snapshot.texts[h].defines
          PROVE  \E g \in DOMAIN snapshot.texts :
                   n \in snapshot.texts[g].defines /\ Edge(FileNode(f), <<"symbol", g, n>>, "references") \in graph.edges
      BY <2>1, <3>1, CallsAreReferred
    <3>2. /\ FindDefinitions(n) = {f \in DOMAIN snapshot.texts : n \in snapshot.texts[f].defines}
          /\ FindCallers(n) = {f \in DOMAIN snapshot.texts :
                                 n \in snapshot.texts[f].calls
                                 /\ {g \in DOMAIN snapshot.texts : n \in snapshot.texts[g].defines} # {}}
      BY <2>1, DefinitionsAreFound
    <3> QED BY <3>1, <3>2
  <2>3. ASSUME NEW p \in DOMAIN Matched
        PROVE  FindAffectedTests(p) =
                 {s \in Elems(Suites) : \E f \in Matched[p] \cap Elems(snapshot.walked) :
                    f \in s.files \/ \E t \in s.files : TwinOf[t] = f}
    BY <2>1, TestsOfPattern
  <2>4. AnswersForWhatWasRead
    BY <2>2, <2>3, Zenon DEF AnswersForWhatWasRead
  <2>5. EdgesEndAsTyped
    BY <2>1, EdgesEndRight
  <2>6. PathsAreShortest
    BY FoundPathsAreShortest DEF PathsAreShortest
  <2>7. SelectionGrows
    BY MoreFilesMoreTests DEF SelectionGrows
  <2> QED BY <2>4, <2>5, <2>6, <2>7
<1> QED BY <1>1, ScanInitOK, ScanStepOK, PTL DEF RepoGraphSpec

-----------------------------------------------------------------------------
(* The planner's claims.  Between two invalidations a claim's confidence is *)
(* bounded by the passes it has had: nobody is above 50 without one, and    *)
(* none reaches the threshold of a serious claim with a single one.  That   *)
(* is what makes a verified serious claim one that passed twice.            *)
PlanStatus == {"unverified", "partially_verified", "verified", "contradicted", "stale", "needs_human_review"}
PlannedClaim == [risk : Risks, status : PlanStatus, confidence : 0 .. 100]
Earned(c, passes) ==
  /\ passes = 0 => c.confidence <= 50
  /\ passes = 1 => c.confidence <= 75
  /\ Serious(c) /\ c.status = "verified" => passes >= 2

PlanTypes ==
  /\ claims = <<>> \/ claims \in [DOMAIN ClaimKinds -> PlannedClaim]
  /\ passesSince \in [DOMAIN ClaimKinds -> Nat]
  /\ DOMAIN changedUnder = DOMAIN ClaimKinds
  /\ claims = <<>> => plan = <<>>
ClaimsFresh ==
  \A i \in DOMAIN claims :
    Earned(claims[i], passesSince[i]) /\ (Trusted(claims[i]) => changedUnder[i] = {})
PlanInv == PlanTypes /\ ClaimsFresh /\ RiskFirst /\ PlanCovers

Written(c, status, confidence) == [c EXCEPT !.confidence = confidence, !.status = status]
LEMMA ClaimWrites ==
  ASSUME NEW c \in PlannedClaim, NEW s \in PlanStatus, NEW n \in 0 .. 100
  PROVE  /\ Written(c, s, n) \in PlannedClaim
         /\ Written(c, s, n).confidence = n /\ Written(c, s, n).status = s
BY DEF PlannedClaim, Written

LEMMA ResultKeepsEarned ==
  ASSUME NEW c \in PlannedClaim, NEW passes \in Nat, NEW passed \in BOOLEAN, NEW strong \in BOOLEAN,
         Earned(c, passes)
  PROVE  /\ AfterResult(c, passed, strong) \in PlannedClaim
         /\ Earned(AfterResult(c, passed, strong), IF passed THEN passes + 1 ELSE 0)
         /\ ~passed => ~Trusted(AfterResult(c, passed, strong))
<1>1. /\ c.confidence \in 0 .. 100 /\ c.risk \in Risks /\ c.status \in PlanStatus
      /\ c = [risk |-> c.risk, status |-> c.status, confidence |-> c.confidence]
  BY DEF PlannedClaim
<1>2. Lowered(c) \in 0 .. 40
  BY <1>1 DEF Lowered, Rounded
<1>3. /\ Raised(c, strong) \in 0 .. 100
      /\ c.confidence <= 50 => Raised(c, strong) <= 75
  BY <1>1 DEF Raised, Rounded
<1>4. ThresholdForRisk[c.risk] \in {50, 65, 80, 90} /\ (Serious(c) => ThresholdForRisk[c.risk] >= 80)
  BY <1>1 DEF Risks, ThresholdForRisk, Serious
<1>5. CASE ~passed
  <2> DEFINE d == Written(c, "contradicted", Lowered(c))
  <2>1. AfterResult(c, passed, strong) = d
    BY <1>5 DEF AfterResult, Written
  <2>2. d \in PlannedClaim /\ d.confidence \in 0 .. 40 /\ d.status = "contradicted" /\ d.risk = c.risk
    <3>1. Lowered(c) \in 0 .. 100 /\ "contradicted" \in PlanStatus
      BY <1>2 DEF PlanStatus
    <3>2. c \in PlannedClaim
      OBVIOUS
    <3>3. d \in PlannedClaim /\ d.confidence = Lowered(c) /\ d.status = "contradicted" /\ d.risk = c.risk
      <4>1. d \in PlannedClaim /\ d.confidence = Lowered(c) /\ d.status = "contradicted"
        BY <3>1, <3>2, ClaimWrites
      <4>2. d.risk = c.risk
        BY <3>2 DEF PlannedClaim, Written
      <4> QED BY <4>1, <4>2
    <3> HIDE DEF d
    <3> QED BY <1>2, <3>3
  <2> HIDE DEF d
  <2> QED BY <1>5, <2>1, <2>2 DEF Earned, Trusted
<1>6. CASE passed
  <2> DEFINE s == IF Raised(c, strong) >= ThresholdForRisk[c.risk] \/ c.status = "verified"
                  THEN "verified" ELSE "partially_verified"
             d == Written(c, s, Raised(c, strong))
  <2>1. AfterResult(c, passed, strong) = d
    BY <1>6 DEF AfterResult, Written
  <2>2. d \in PlannedClaim /\ d.confidence = Raised(c, strong) /\ d.status = s /\ d.risk = c.risk
    <3>1. s \in PlanStatus
      BY DEF PlanStatus
    <3> HIDE DEF s
    <3>2. c \in PlannedClaim /\ Raised(c, strong) \in 0 .. 100
      BY <1>3
    <3>3. d \in PlannedClaim /\ d.confidence = Raised(c, strong) /\ d.status = s
      BY <3>1, <3>2, ClaimWrites
    <3>4. d.risk = c.risk
      BY <3>2 DEF PlannedClaim, Written
    <3> QED BY <3>3, <3>4
  <2>3. Serious(d) /\ d.status = "verified" => passes + 1 >= 2
    <3>1. CASE c.status = "verified"
      BY <3>1, <2>2 DEF Earned, Serious
    <3>2. CASE c.status # "verified"
      <4>1. Serious(d) /\ d.status = "verified" => Raised(c, strong) >= 80
        BY <3>2, <2>2, <1>3, <1>4 DEF Serious
      <4>2. passes = 0 => Raised(c, strong) <= 75
        BY <1>3 DEF Earned
      <4> HIDE DEF d
      <4> QED BY <4>1, <4>2, <1>3
    <3> QED BY <3>1, <3>2
  <2>4. passes + 1 = 1 => d.confidence <= 75
    BY <2>2, <1>3 DEF Earned
  <2> HIDE DEF d
  <2>5. passes + 1 # 0 /\ (IF passed THEN passes + 1 ELSE 0) = passes + 1
    BY <1>6
  <2> QED BY <1>6, <2>1, <2>2, <2>3, <2>4, <2>5 DEF Earned
<1> QED BY <1>5, <1>6

(* An edge every parallel of which is followed is one the walk takes, so a  *)
(* change reaches every file whose evidence it can concern.                 *)
LEMMA CertainIsFollowed == CertainLinks \subseteq FollowedLinks
<1> SUFFICES ASSUME NEW l \in CertainLinks PROVE l \in FollowedLinks
  OBVIOUS
<1>1. /\ l \in NodeIds \X NodeIds /\ l[1] # l[2] /\ Between(l[1], l[2]) # {}
      /\ \A k \in Between(l[1], l[2]) : GraphEdges[k].type \in FollowTypes
  BY DEF CertainLinks
<1>2. Between(l[1], l[2]) \in SUBSET Nat
  BY PlanAssumption DEF Between
<1>3. PICK k \in Between(l[1], l[2]) : \A j \in Between(l[1], l[2]) : k <= j
  <2> HIDE DEF Between
  <2> QED BY <1>1, <1>2, SomeNumberIsLeast
<1>4. Follows(l[1], l[2])
  BY <1>1, <1>3 DEF Follows
<1> QED BY <1>1, <1>4 DEF FollowedLinks

LEMMA LinkedIsReached ==
  ASSUME NEW file \in ChangedFiles
  PROVE  Linked[file] \subseteq TransitiveFiles[file]
<1>1. Reach(CertainLinks, LastNodeOf(file)) \subseteq Reach(FollowedLinks, LastNodeOf(file))
  BY CertainIsFollowed DEF Reach
<1>2. FilesOf(CertainLinks, file) \subseteq FilesOf(FollowedLinks, file)
  BY <1>1 DEF FilesOf
<1> QED BY <1>2 DEF Linked, TransitiveFiles

LEMMA FileChangedStep ==
  ASSUME PlanTypes, ClaimsFresh, NEW file \in ChangedFiles, FileChanged(file)
  PROVE  PlanTypes' /\ ClaimsFresh'
<1>1. /\ claims # <<>> /\ claims \in [DOMAIN ClaimKinds -> PlannedClaim] /\ plan' = <<>>
      /\ claims' = [i \in DOMAIN claims |-> IF i \in InvalidatedBy(file) THEN MarkStale(claims[i]) ELSE claims[i]]
      /\ passesSince' = [i \in DOMAIN claims |-> IF i \in InvalidatedBy(file) THEN 0 ELSE passesSince[i]]
      /\ changedUnder' = [i \in DOMAIN claims |-> changedUnder[i] \cup (ClaimFiles[i] \cap Linked[file])]
  BY DEF FileChanged, Event, PlanTypes
<1>2. ASSUME NEW i \in DOMAIN claims
      PROVE  /\ MarkStale(claims[i]) \in PlannedClaim /\ Earned(MarkStale(claims[i]), 0)
             /\ ~Trusted(MarkStale(claims[i]))
  <2> DEFINE c == claims[i]
             n == IF c.confidence < 49 THEN c.confidence ELSE 49
             d == Written(c, "stale", n)
  <2>1. c \in PlannedClaim
    BY <1>1
  <2>2. n \in 0 .. 49 /\ n \in 0 .. 100 /\ "stale" \in PlanStatus
    <3>1. c.confidence \in 0 .. 100
      BY <2>1 DEF PlannedClaim
    <3> QED BY <3>1 DEF PlanStatus
  <2>3. MarkStale(claims[i]) = d
    <3>1. ASSUME NEW m PROVE [c EXCEPT !.status = "stale", !.confidence = m] = [c EXCEPT !.confidence = m, !.status = "stale"]
      BY <2>1 DEF PlannedClaim
    <3> QED BY <3>1 DEF MarkStale, Written
  <2>4. d \in PlannedClaim /\ d.confidence = n /\ d.status = "stale"
    <3> HIDE DEF n, c
    <3> QED BY <2>1, <2>2, ClaimWrites
  <2> HIDE DEF d, n
  <2> QED BY <2>2, <2>3, <2>4 DEF Earned, Trusted
<1>3. PlanTypes'
  BY <1>1, <1>2 DEF PlanTypes
<1>4. ASSUME NEW i \in DOMAIN claims'
      PROVE  Earned(claims'[i], passesSince'[i]) /\ (Trusted(claims'[i]) => changedUnder'[i] = {})
  <2>1. i \in DOMAIN claims /\ Earned(claims[i], passesSince[i]) /\ (Trusted(claims[i]) => changedUnder[i] = {})
    BY <1>1, <1>4 DEF ClaimsFresh
  <2>2. CASE i \in InvalidatedBy(file)
    <3>1. claims'[i] = MarkStale(claims[i]) /\ passesSince'[i] = 0
      BY <1>1, <2>1, <2>2
    <3> QED BY <1>2, <2>1, <3>1
  <2>3. CASE i \notin InvalidatedBy(file)
    <3>1. claims'[i] = claims[i] /\ passesSince'[i] = passesSince[i]
          /\ changedUnder'[i] = changedUnder[i] \cup (ClaimFiles[i] \cap Linked[file])
      BY <1>1, <2>1, <2>3
    <3>2. Trusted(claims[i]) => ClaimFiles[i] \cap TransitiveFiles[file] = {}
      BY <2>1, <2>3 DEF InvalidatedBy, Trusted
    <3>3. Trusted(claims[i]) => ClaimFiles[i] \cap Linked[file] = {}
      BY <3>2, LinkedIsReached
    <3> QED BY <2>1, <3>1, <3>3
  <2> QED BY <2>2, <2>3
<1> QED BY <1>3, <1>4 DEF ClaimsFresh

LEMMA RecordResultStep ==
  ASSUME PlanTypes, ClaimsFresh, NEW a, NEW passed \in BOOLEAN, NEW strong \in BOOLEAN, RecordResult(a, passed, strong)
  PROVE  PlanTypes' /\ ClaimsFresh'
<1>1. /\ claims # <<>> /\ claims \in [DOMAIN ClaimKinds -> PlannedClaim] /\ plan' = <<>>
      /\ claims' = [i \in DOMAIN claims |-> IF i \in a.on THEN AfterResult(claims[i], passed, strong) ELSE claims[i]]
      /\ passesSince' = [i \in DOMAIN claims |-> IF i \notin a.on THEN passesSince[i] ELSE IF passed THEN passesSince[i] + 1 ELSE 0]
      /\ changedUnder' = [i \in DOMAIN claims |-> IF i \in a.on /\ passed THEN {} ELSE changedUnder[i]]
      /\ passesSince \in [DOMAIN ClaimKinds -> Nat]
  BY DEF RecordResult, Event, PlanTypes
<1>2. ASSUME NEW i \in DOMAIN claims
      PROVE  /\ AfterResult(claims[i], passed, strong) \in PlannedClaim
             /\ Earned(AfterResult(claims[i], passed, strong), IF passed THEN passesSince[i] + 1 ELSE 0)
             /\ ~passed => ~Trusted(AfterResult(claims[i], passed, strong))
  <2>1. claims[i] \in PlannedClaim /\ passesSince[i] \in Nat /\ Earned(claims[i], passesSince[i])
    BY <1>1 DEF ClaimsFresh
  <2> QED BY <2>1, ResultKeepsEarned
<1>3. PlanTypes'
  BY <1>1, <1>2 DEF PlanTypes
<1>4. ASSUME NEW i \in DOMAIN claims'
      PROVE  Earned(claims'[i], passesSince'[i]) /\ (Trusted(claims'[i]) => changedUnder'[i] = {})
  <2>1. i \in DOMAIN claims /\ Earned(claims[i], passesSince[i]) /\ (Trusted(claims[i]) => changedUnder[i] = {})
    BY <1>1, <1>4 DEF ClaimsFresh
  <2>2. CASE i \in a.on
    <3>1. /\ claims'[i] = AfterResult(claims[i], passed, strong)
          /\ passesSince'[i] = IF passed THEN passesSince[i] + 1 ELSE 0
          /\ passed => changedUnder'[i] = {}
      BY <1>1, <2>1, <2>2
    <3> QED BY <1>2, <2>1, <3>1
  <2>3. CASE i \notin a.on
    <3>1. claims'[i] = claims[i] /\ passesSince'[i] = passesSince[i] /\ changedUnder'[i] = changedUnder[i]
      BY <1>1, <2>1, <2>3
    <3> QED BY <2>1, <3>1
  <2> QED BY <2>2, <2>3
<1> QED BY <1>3, <1>4 DEF ClaimsFresh

LEMMA HumanReviewStep ==
  ASSUME PlanTypes, ClaimsFresh, NEW n \in DOMAIN ClaimKinds, HumanReview(n)
  PROVE  PlanTypes' /\ ClaimsFresh'
<1>1. /\ claims # <<>> /\ claims \in [DOMAIN ClaimKinds -> PlannedClaim] /\ plan' = <<>> /\ n \in DOMAIN claims
      /\ claims' = [claims EXCEPT ![n] = MarkHumanReview(claims[n])]
      /\ UNCHANGED <<passesSince, changedUnder>>
  BY DEF HumanReview, Event, PlanTypes
<1> DEFINE d == [claims[n] EXCEPT !.status = "needs_human_review"]
<1>2. claims[n] \in PlannedClaim
  BY <1>1
<1>3. /\ d \in PlannedClaim /\ d.status = "needs_human_review" /\ d.confidence = claims[n].confidence
      /\ MarkHumanReview(claims[n]) = d
  BY <1>2 DEF MarkHumanReview, PlannedClaim, PlanStatus
<1> HIDE DEF d
<1>4. PlanTypes'
  BY <1>1, <1>3 DEF PlanTypes
<1>5. ASSUME NEW i \in DOMAIN claims'
      PROVE  Earned(claims'[i], passesSince'[i]) /\ (Trusted(claims'[i]) => changedUnder'[i] = {})
  <2>1. i \in DOMAIN claims /\ Earned(claims[i], passesSince[i]) /\ (Trusted(claims[i]) => changedUnder[i] = {})
        /\ passesSince' = passesSince /\ changedUnder' = changedUnder
    BY <1>1, <1>5 DEF ClaimsFresh
  <2>2. CASE i = n
    BY <1>1, <1>3, <2>1, <2>2 DEF Earned, Trusted
  <2>3. CASE i # n
    BY <1>1, <2>1, <2>3
  <2> QED BY <2>2, <2>3
<1> QED BY <1>4, <1>5 DEF ClaimsFresh

LEMMA BeginPlanStep ==
  ASSUME PlanTypes, BeginPlan
  PROVE  PlanTypes' /\ ClaimsFresh' /\ plan' = <<>>
<1>1. PICK risks \in [DOMAIN ClaimKinds -> Risks] :
        claims' = [i \in DOMAIN ClaimKinds |-> [risk |-> risks[i], status |-> "unverified", confidence |-> InitialClaim]]
  BY DEF BeginPlan
<1>2. plan' = <<>> /\ passesSince' = passesSince /\ changedUnder' = changedUnder
  BY DEF BeginPlan, PlanTypes
<1>3. ASSUME NEW i \in DOMAIN ClaimKinds
      PROVE  /\ claims'[i] \in PlannedClaim /\ claims'[i].confidence \in 0 .. 50 /\ claims'[i].status = "unverified"
  <2>1. claims'[i] = [risk |-> risks[i], status |-> "unverified", confidence |-> InitialClaim] /\ risks[i] \in Risks
    BY <1>1
  <2> QED BY <2>1, PlanAssumption DEF PlannedClaim, PlanStatus
<1>4. DOMAIN claims' = DOMAIN ClaimKinds /\ claims' \in [DOMAIN ClaimKinds -> PlannedClaim]
  BY <1>1, <1>3
<1>5. PlanTypes'
  BY <1>2, <1>4 DEF PlanTypes
<1>6. ClaimsFresh'
  <2>1. ASSUME NEW i \in DOMAIN claims'
        PROVE  Earned(claims'[i], passesSince'[i]) /\ ~Trusted(claims'[i])
    BY <1>3, <1>4 DEF Earned, Trusted
  <2> QED BY <2>1 DEF ClaimsFresh
<1> QED BY <1>2, <1>5, <1>6
-----------------------------------------------------------------------------
(* The planner's order.  No two proposals share a place in the enumeration, *)
(* so a plan lists each of them once; a finite set with an order has a      *)
(* first member, so the best one exists and what is dropped as a duplicate  *)
(* leaves its first twin.                                                   *)
LEMMA SomeoneIsFirst ==
  ASSUME NEW S, IsFiniteSet(S), S # {}, NEW R,
         \A x \in S : <<x, x>> \notin R,
         \A x, y, z \in S : <<x, y>> \in R /\ <<y, z>> \in R => <<x, z>> \in R
  PROVE  \E x \in S : \A y \in S : <<y, x>> \notin R
<1> DEFINE ahead(x) == {y \in S : <<y, x>> \in R}
           counts == {n \in Nat : \E x \in S : n = Cardinality(ahead(x))}
<1>1. \A x \in S : IsFiniteSet(ahead(x)) /\ Cardinality(ahead(x)) \in Nat
  BY FS_Subset, FS_CardinalityType
<1>2. PICK n \in counts : \A m \in counts : n <= m
  <2>1. PICK x \in S : TRUE
    OBVIOUS
  <2>2. Cardinality(ahead(x)) \in counts
    BY <1>1, <2>1
  <2>3. counts \in SUBSET Nat /\ counts # {}
    BY <2>2
  <2> HIDE DEF counts
  <2> QED BY <2>3, SomeNumberIsLeast
<1>3. PICK x \in S : n = Cardinality(ahead(x))
  BY <1>2
<1>4. ASSUME NEW y \in S, <<y, x>> \in R PROVE FALSE
  <2>1. ahead(y) \subseteq ahead(x) /\ y \in ahead(x) /\ y \notin ahead(y)
    BY <1>4
  <2>2. /\ Cardinality(ahead(y)) <= Cardinality(ahead(x))
        /\ Cardinality(ahead(y)) # Cardinality(ahead(x))
    <3>1. IsFiniteSet(ahead(x)) /\ ahead(y) \in SUBSET ahead(x) /\ ahead(x) # ahead(y)
      BY <1>1, <2>1
    <3> HIDE DEF ahead
    <3> QED BY <3>1, FS_Subset
  <2>3. Cardinality(ahead(y)) \in counts /\ Cardinality(ahead(x)) \in Nat /\ Cardinality(ahead(y)) \in Nat
    BY <1>1
  <2> HIDE DEF ahead, counts
  <2> QED BY <1>2, <1>3, <2>2, <2>3
<1> QED BY <1>4

Place == Nat \X Nat \X Nat \X Nat
LEMMA PrecedesMeans ==
  ASSUME NEW x \in Place, NEW y \in Place
  PROVE  Precedes(x, y) <=>
           \/ x[1] < y[1]
           \/ x[1] = y[1] /\ x[2] < y[2]
           \/ x[1] = y[1] /\ x[2] = y[2] /\ x[3] < y[3]
           \/ x[1] = y[1] /\ x[2] = y[2] /\ x[3] = y[3] /\ x[4] < y[4]
<1> DEFINE first(k) == \A j \in 1 .. k - 1 : x[j] = y[j]
<1>1. /\ first(1)
      /\ first(2) <=> x[1] = y[1]
      /\ first(3) <=> x[1] = y[1] /\ x[2] = y[2]
      /\ first(4) <=> x[1] = y[1] /\ x[2] = y[2] /\ x[3] = y[3]
  OBVIOUS
<1>2. Precedes(x, y) <=> \E k \in 1 .. 4 : x[k] < y[k] /\ first(k)
  BY DEF Precedes
<1>3. \A k : k \in 1 .. 4 <=> k = 1 \/ k = 2 \/ k = 3 \/ k = 4
  OBVIOUS
<1> HIDE DEF first
<1> QED BY <1>1, <1>2, <1>3

LEMMA PrecedesIsAnOrder ==
  ASSUME NEW x \in Place, NEW y \in Place, NEW z \in Place
  PROVE  /\ ~Precedes(x, x)
         /\ Precedes(x, y) /\ Precedes(y, z) => Precedes(x, z)
         /\ x # y => Precedes(x, y) \/ Precedes(y, x)
<1>1. /\ x[1] \in Nat /\ x[2] \in Nat /\ x[3] \in Nat /\ x[4] \in Nat /\ x = <<x[1], x[2], x[3], x[4]>>
      /\ y[1] \in Nat /\ y[2] \in Nat /\ y[3] \in Nat /\ y[4] \in Nat /\ y = <<y[1], y[2], y[3], y[4]>>
      /\ z[1] \in Nat /\ z[2] \in Nat /\ z[3] \in Nat /\ z[4] \in Nat
  BY DEF Place
<1>2. ~Precedes(x, x)
  BY <1>1, PrecedesMeans
<1>3. Precedes(x, y) /\ Precedes(y, z) => Precedes(x, z)
  <2>1. Precedes(x, y) <=>
           \/ x[1] < y[1]
           \/ x[1] = y[1] /\ x[2] < y[2]
           \/ x[1] = y[1] /\ x[2] = y[2] /\ x[3] < y[3]
           \/ x[1] = y[1] /\ x[2] = y[2] /\ x[3] = y[3] /\ x[4] < y[4]
    BY PrecedesMeans
  <2>2. Precedes(y, z) <=>
           \/ y[1] < z[1]
           \/ y[1] = z[1] /\ y[2] < z[2]
           \/ y[1] = z[1] /\ y[2] = z[2] /\ y[3] < z[3]
           \/ y[1] = z[1] /\ y[2] = z[2] /\ y[3] = z[3] /\ y[4] < z[4]
    BY PrecedesMeans
  <2>3. Precedes(x, z) <=>
           \/ x[1] < z[1]
           \/ x[1] = z[1] /\ x[2] < z[2]
           \/ x[1] = z[1] /\ x[2] = z[2] /\ x[3] < z[3]
           \/ x[1] = z[1] /\ x[2] = z[2] /\ x[3] = z[3] /\ x[4] < z[4]
    BY PrecedesMeans
  <2> QED BY <1>1, <2>1, <2>2, <2>3
<1>4. x # y => Precedes(x, y) \/ Precedes(y, x)
  BY <1>1, PrecedesMeans
<1> QED BY <1>2, <1>3, <1>4

AllProposed(ask) == Proposed(ask) \cup Reviews(Proposed(ask))
Planned == claims \in [DOMAIN ClaimKinds -> PlannedClaim]

LEMMA QuestionFacts ==
  ASSUME NEW ask \in Questions
  PROVE  /\ ask.commands \in BOOLEAN /\ ask.hypotheses \in Nat /\ ask.cap \in {0, 25}
         /\ DOMAIN ask.files \subseteq 1 .. 2 /\ DOMAIN ask.uncertainties \subseteq 1 .. 2
<1> DEFINE open == {Question(c, h, 25, <<>>, u) : c \in BOOLEAN, h \in {0, 3}, u \in {<<>>, <<"medium", "high">>}}
           edited == {Question(FALSE, 0, cap, <<"frontend", "migration">>, <<>>) : cap \in {0, 25}}
<1>1. DOMAIN <<>> = {} /\ DOMAIN <<"medium", "high">> = 1 .. 2 /\ DOMAIN <<"frontend", "migration">> = 1 .. 2
  OBVIOUS
<1>2. CASE ask \in open
  <2>1. PICK c \in BOOLEAN, h \in {0, 3}, u \in {<<>>, <<"medium", "high">>} : ask = Question(c, h, 25, <<>>, u)
    BY <1>2
  <2>2. ask.commands = c /\ ask.hypotheses = h /\ ask.cap = 25 /\ ask.files = <<>> /\ ask.uncertainties = u
    BY <2>1 DEF Question
  <2>3. DOMAIN u \subseteq 1 .. 2
    BY <1>1
  <2> QED BY <1>1, <2>2, <2>3
<1>3. CASE ask \in edited
  <2>1. PICK cap \in {0, 25} : ask = Question(FALSE, 0, cap, <<"frontend", "migration">>, <<>>)
    BY <1>3
  <2>2. /\ ask.commands = FALSE /\ ask.hypotheses = 0 /\ ask.cap = cap
        /\ ask.files = <<"frontend", "migration">> /\ ask.uncertainties = <<>>
    BY <2>1 DEF Question
  <2>3. ask.commands \in BOOLEAN
    BY <2>2, FALSE \in BOOLEAN, Zenon
  <2>4. DOMAIN ask.files \subseteq 1 .. 2
    BY <1>1, <2>2
  <2>5. DOMAIN ask.uncertainties \subseteq 1 .. 2
    BY <1>1, <2>2
  <2> QED BY <2>2, <2>3, <2>4, <2>5
<1>4. Questions = open \cup edited
  BY DEF Questions
<1> HIDE DEF open, edited
<1> QED BY <1>2, <1>3, <1>4

(* What each proposal is about, and the section its place lies in. *)
LEMMA ProposalFacts ==
  ASSUME Planned, NEW ask \in Questions, NEW a \in AllProposed(ask)
  PROVE  /\ a.on \in SUBSET DOMAIN claims
         /\ a.at \in Place
         /\ a.at[1] \in 1 .. 5 /\ a.at[2] \in 0 .. 2 /\ a.at[3] \in 0 .. Len(ClaimKinds) /\ a.at[4] \in 0 .. 4
         /\ a.by \in {"claim", "command", "uncertainty"}
         /\ a.by = "claim" => \E j \in DOMAIN claims : a.on = {j} /\ a.risk = claims[j].risk
         /\ a.by = "command" => a.on = WeakOnes /\ a.at[1] = 2
         /\ a.by = "uncertainty" => a.on = {}
<1>1. DOMAIN claims = 1 .. Len(ClaimKinds) /\ Len(ClaimKinds) \in Nat
  BY PlanAssumption DEF Planned
<1>2. WeakOnes \subseteq DOMAIN claims /\ SeriousOnes \subseteq DOMAIN claims
  BY DEF WeakOnes, SeriousOnes
<1>3. DOMAIN ask.files \subseteq 1 .. 2 /\ DOMAIN ask.uncertainties \subseteq 1 .. 2
  BY QuestionFacts
<1>5. ASSUME NEW i \in DOMAIN claims, NEW type, NEW s \in 1 .. 5, NEW f \in 0 .. 2, NEW n \in 0 .. 4,
             a = ForClaim(i, type, <<s, f, i, n>>)
      PROVE  /\ a.on \in SUBSET DOMAIN claims
             /\ a.at \in Place
             /\ a.at[1] \in 1 .. 5 /\ a.at[2] \in 0 .. 2 /\ a.at[3] \in 0 .. Len(ClaimKinds) /\ a.at[4] \in 0 .. 4
             /\ a.by = "claim" /\ \E j \in DOMAIN claims : a.on = {j} /\ a.risk = claims[j].risk
  <2>1. /\ a.on = {i} /\ a.risk = claims[i].risk /\ a.by = "claim"
        /\ a.on \in SUBSET DOMAIN claims /\ a.at \in Place
        /\ a.at[1] = s /\ a.at[2] = f /\ a.at[3] = i /\ a.at[4] = n /\ i \in 0 .. Len(ClaimKinds)
    BY <1>1, <1>5 DEF ForClaim, Place
  <2> QED BY <2>1
<1>6. CASE a \in Targeted
  <2>1. CASE a \in {ForClaim(i, InferActionType(ClaimKinds[i]), <<1, 0, i, 1>>) : i \in WeakOnes}
    <3>1. PICK i \in WeakOnes : a = ForClaim(i, InferActionType(ClaimKinds[i]), <<1, 0, i, 1>>)
      BY <2>1
    <3>2. i \in DOMAIN claims /\ 1 \in 1 .. 5 /\ 0 \in 0 .. 2 /\ 1 \in 0 .. 4
      BY <1>2
    <3> QED BY <1>5, <3>1, <3>2
  <2>2. CASE a \notin {ForClaim(i, InferActionType(ClaimKinds[i]), <<1, 0, i, 1>>) : i \in WeakOnes}
    <3>1. PICK i \in WeakOnes : \E type : a = ForClaim(i, type, <<1, 0, i, 2>>)
      BY <1>6, <2>2 DEF Targeted
    <3>2. PICK type : a = ForClaim(i, type, <<1, 0, i, 2>>)
      BY <3>1
    <3>3. i \in DOMAIN claims /\ 1 \in 1 .. 5 /\ 0 \in 0 .. 2 /\ 2 \in 0 .. 4
      BY <1>2
    <3> QED BY <1>5, <3>2, <3>3
  <2> QED BY <2>1, <2>2
<1>7. CASE a \in Commands
  <2>1. PICK n \in 1 .. 4 : a = ForCommand(CommandTypes[n], WeakOnes, <<2, 0, 0, n>>)
    BY <1>7 DEF Commands
  <2>2. a.on = WeakOnes /\ a.by = "command" /\ a.at = <<2, 0, 0, n>>
    BY <2>1 DEF ForCommand
  <2> QED BY <1>1, <1>2, <2>2 DEF Place
<1>8. CASE a \in ForFiles(ask.files)
  <2>1. CASE \E f \in DOMAIN ask.files, i \in WeakOnes : a = ForClaim(i, "visual_check", <<3, f, i, 1>>)
    <3>1. PICK f \in DOMAIN ask.files, i \in WeakOnes : a = ForClaim(i, "visual_check", <<3, f, i, 1>>)
      BY <2>1
    <3>2. i \in DOMAIN claims /\ 3 \in 1 .. 5 /\ f \in 0 .. 2 /\ 1 \in 0 .. 4
      BY <1>2, <1>3
    <3> QED BY <1>5, <3>1, <3>2
  <2>2. CASE \E f \in DOMAIN ask.files, i \in WeakOnes, n \in 1 .. 2 : a = ForClaim(i, MigrationChecks[n], <<3, f, i, n>>)
    <3>1. PICK f \in DOMAIN ask.files, i \in WeakOnes, n \in 1 .. 2 : a = ForClaim(i, MigrationChecks[n], <<3, f, i, n>>)
      BY <2>2
    <3>2. i \in DOMAIN claims /\ 3 \in 1 .. 5 /\ f \in 0 .. 2 /\ n \in 0 .. 4
      BY <1>2, <1>3
    <3> QED BY <1>5, <3>1, <3>2
  <2>3. \/ \E f \in DOMAIN ask.files, i \in WeakOnes : a = ForClaim(i, "visual_check", <<3, f, i, 1>>)
        \/ \E f \in DOMAIN ask.files, i \in WeakOnes, n \in 1 .. 2 : a = ForClaim(i, MigrationChecks[n], <<3, f, i, n>>)
    BY <1>8 DEF ForFiles
  <2> QED BY <2>1, <2>2, <2>3
<1>9. CASE a \in Uncertain(ask.uncertainties)
  <2>1. PICK u \in 1 .. 2 : a = ForUncertainty(ask.uncertainties[u], <<4, 0, 0, u>>)
    BY <1>3, <1>9 DEF Uncertain
  <2>2. a.on = {} /\ a.by = "uncertainty" /\ a.at = <<4, 0, 0, u>>
    BY <2>1 DEF ForUncertainty
  <2> QED BY <1>1, <2>2 DEF Place
<1>10. CASE a \in Reviews(Proposed(ask))
  <2>1. PICK i \in DOMAIN claims : a = ForClaim(i, "manual_human_review", <<5, 0, i, 0>>)
    BY <1>2, <1>10 DEF Reviews
  <2>2. 5 \in 1 .. 5 /\ 0 \in 0 .. 2 /\ 0 \in 0 .. 4
    OBVIOUS
  <2> QED BY <1>5, <2>1, <2>2
<1>11. a \in Commands \/ a \in Targeted \/ a \in ForFiles(ask.files) \/ a \in Uncertain(ask.uncertainties) \/ a \in Reviews(Proposed(ask))
  BY DEF AllProposed, Proposed
<1> QED BY <1>6, <1>7, <1>8, <1>9, <1>10, <1>11

(* A place says which proposal it is of. *)
ProposalAt(ask, p) ==
  CASE p[1] = 1 /\ p[4] = 1 -> ForClaim(p[3], InferActionType(ClaimKinds[p[3]]), p)
    [] p[1] = 1 /\ p[4] # 1 ->
         ForClaim(p[3], IF ClaimKinds[p[3]] = "security" THEN "security_check" ELSE "permission_boundary_check", p)
    [] p[1] = 2 -> ForCommand(CommandTypes[p[4]], WeakOnes, p)
    [] p[1] = 3 /\ ask.files[p[2]] = "frontend" -> ForClaim(p[3], "visual_check", p)
    [] p[1] = 3 /\ ask.files[p[2]] # "frontend" -> ForClaim(p[3], MigrationChecks[p[4]], p)
    [] p[1] = 4 -> ForUncertainty(ask.uncertainties[p[4]], p)
    [] OTHER -> ForClaim(p[3], "manual_human_review", p)

LEMMA PlaceTells ==
  ASSUME NEW ask, NEW a \in AllProposed(ask)
  PROVE  a = ProposalAt(ask, a.at)
<1>1. CASE a \in {ForClaim(i, InferActionType(ClaimKinds[i]), <<1, 0, i, 1>>) : i \in WeakOnes}
  <2>1. PICK i \in WeakOnes : a = ForClaim(i, InferActionType(ClaimKinds[i]), <<1, 0, i, 1>>)
    BY <1>1
  <2>2. a.at = <<1, 0, i, 1>>
    BY <2>1 DEF ForClaim
  <2> QED BY <2>1, <2>2 DEF ProposalAt
<1>2. CASE a \in {ForClaim(i, IF ClaimKinds[i] = "security" THEN "security_check" ELSE "permission_boundary_check", <<1, 0, i, 2>>)
                    : i \in WeakOnes \cap SeriousOnes}
  <2>1. PICK i \in WeakOnes : a = ForClaim(i, IF ClaimKinds[i] = "security" THEN "security_check" ELSE "permission_boundary_check", <<1, 0, i, 2>>)
    BY <1>2
  <2>2. a.at = <<1, 0, i, 2>>
    BY <2>1 DEF ForClaim
  <2> QED BY <2>1, <2>2 DEF ProposalAt
<1>3. CASE a \in Commands
  <2>1. PICK n \in 1 .. 4 : a = ForCommand(CommandTypes[n], WeakOnes, <<2, 0, 0, n>>)
    BY <1>3 DEF Commands
  <2>2. a.at = <<2, 0, 0, n>>
    BY <2>1 DEF ForCommand
  <2> QED BY <2>1, <2>2 DEF ProposalAt
<1>4. CASE a \in ForFiles(ask.files)
  <2>1. CASE \E f \in DOMAIN ask.files, i \in WeakOnes : ask.files[f] = "frontend" /\ a = ForClaim(i, "visual_check", <<3, f, i, 1>>)
    <3>1. PICK f \in DOMAIN ask.files, i \in WeakOnes : ask.files[f] = "frontend" /\ a = ForClaim(i, "visual_check", <<3, f, i, 1>>)
      BY <2>1
    <3>2. a.at = <<3, f, i, 1>>
      BY <3>1 DEF ForClaim
    <3> QED BY <3>1, <3>2 DEF ProposalAt
  <2>2. CASE \E f \in DOMAIN ask.files, i \in WeakOnes, n \in 1 .. 2 :
               ask.files[f] = "migration" /\ a = ForClaim(i, MigrationChecks[n], <<3, f, i, n>>)
    <3>1. PICK f \in DOMAIN ask.files, i \in WeakOnes, n \in 1 .. 2 :
            ask.files[f] = "migration" /\ a = ForClaim(i, MigrationChecks[n], <<3, f, i, n>>)
      BY <2>2
    <3>2. a.at = <<3, f, i, n>> /\ ask.files[f] # "frontend"
      BY <3>1 DEF ForClaim
    <3> QED BY <3>1, <3>2 DEF ProposalAt
  <2>3. ASSUME a \in {ForClaim(i, "visual_check", <<3, f, i, 1>>) : f \in {g \in DOMAIN ask.files : ask.files[g] = "frontend"}, i \in WeakOnes}
        PROVE  \E f \in DOMAIN ask.files, i \in WeakOnes : ask.files[f] = "frontend" /\ a = ForClaim(i, "visual_check", <<3, f, i, 1>>)
    <3>1. PICK f \in {g \in DOMAIN ask.files : ask.files[g] = "frontend"}, i \in WeakOnes :
            a = ForClaim(i, "visual_check", <<3, f, i, 1>>)
      BY <2>3
    <3>2. f \in DOMAIN ask.files /\ ask.files[f] = "frontend"
      OBVIOUS
    <3> QED BY <3>1, <3>2
  <2>4. ASSUME a \in {ForClaim(i, MigrationChecks[n], <<3, f, i, n>>)
                    : f \in {g \in DOMAIN ask.files : ask.files[g] = "migration"}, i \in WeakOnes, n \in 1 .. 2}
        PROVE  \E f \in DOMAIN ask.files, i \in WeakOnes, n \in 1 .. 2 :
                 ask.files[f] = "migration" /\ a = ForClaim(i, MigrationChecks[n], <<3, f, i, n>>)
    <3>1. PICK f \in {g \in DOMAIN ask.files : ask.files[g] = "migration"}, i \in WeakOnes, n \in 1 .. 2 :
            a = ForClaim(i, MigrationChecks[n], <<3, f, i, n>>)
      BY <2>4
    <3>2. f \in DOMAIN ask.files /\ ask.files[f] = "migration"
      OBVIOUS
    <3> QED BY <3>1, <3>2
  <2> QED BY <1>4, <2>1, <2>2, <2>3, <2>4 DEF ForFiles
<1>5. CASE a \in Uncertain(ask.uncertainties)
  <2>1. PICK u \in DOMAIN ask.uncertainties : a = ForUncertainty(ask.uncertainties[u], <<4, 0, 0, u>>)
    BY <1>5 DEF Uncertain
  <2>2. a.at = <<4, 0, 0, u>>
    BY <2>1 DEF ForUncertainty
  <2> QED BY <2>1, <2>2 DEF ProposalAt
<1>6. CASE a \in Reviews(Proposed(ask))
  <2>1. PICK i \in SeriousOnes : a = ForClaim(i, "manual_human_review", <<5, 0, i, 0>>)
    BY <1>6 DEF Reviews
  <2>2. a.at = <<5, 0, i, 0>>
    BY <2>1 DEF ForClaim
  <2> QED BY <2>1, <2>2 DEF ProposalAt
<1>7. CASE a \in Targeted
  BY <1>1, <1>2, <1>7 DEF Targeted
<1> QED BY <1>3, <1>4, <1>5, <1>6, <1>7 DEF AllProposed, Proposed

LEMMA PlacesAreUnique ==
  ASSUME NEW ask, NEW a \in AllProposed(ask), NEW b \in AllProposed(ask), a.at = b.at
  PROVE  a = b
BY PlaceTells

LEMMA ProposalsAreFinite ==
  ASSUME Planned, NEW ask \in Questions
  PROVE  IsFiniteSet(AllProposed(ask)) /\ IsFiniteSet(EnumerateActions(ask)) /\ EnumerateActions(ask) \subseteq AllProposed(ask)
<1> DEFINE low == (1 .. 5) \X (0 .. 2)
           high == (0 .. Len(ClaimKinds)) \X (0 .. 4)
           spot == [a \in AllProposed(ask) |-> <<<<a.at[1], a.at[2]>>, <<a.at[3], a.at[4]>>>>]
<1>1. IsFiniteSet(low \X high)
  <2>1. IsFiniteSet(1 .. 5) /\ IsFiniteSet(0 .. 2) /\ IsFiniteSet(0 .. 4)
    <3>1. 0 \in Int /\ 1 \in Int /\ 2 \in Int /\ 4 \in Int /\ 5 \in Int
      OBVIOUS
    <3> QED BY <3>1, FS_Interval
  <2>2. 0 \in Int /\ Len(ClaimKinds) \in Int
    BY PlanAssumption
  <2>3. IsFiniteSet(0 .. Len(ClaimKinds))
    BY <2>2, FS_Interval
  <2>4. IsFiniteSet(low) /\ IsFiniteSet(high)
    BY <2>1, <2>3, FS_Product
  <2> HIDE DEF low, high
  <2> QED BY <2>4, FS_Product
<1>2. \A a \in AllProposed(ask) : spot[a] \in low \X high /\ a.at = <<a.at[1], a.at[2], a.at[3], a.at[4]>>
  <2> SUFFICES ASSUME NEW a \in AllProposed(ask)
               PROVE  spot[a] \in low \X high /\ a.at = <<a.at[1], a.at[2], a.at[3], a.at[4]>>
    OBVIOUS
  <2>1. /\ a.at \in Place
        /\ a.at[1] \in 1 .. 5 /\ a.at[2] \in 0 .. 2 /\ a.at[3] \in 0 .. Len(ClaimKinds) /\ a.at[4] \in 0 .. 4
    BY ProposalFacts
  <2> QED BY <2>1 DEF Place
<1>3. ASSUME NEW a \in AllProposed(ask), NEW b \in AllProposed(ask), spot[a] = spot[b] PROVE a = b
  <2>1. a.at[1] = b.at[1] /\ a.at[2] = b.at[2] /\ a.at[3] = b.at[3] /\ a.at[4] = b.at[4]
    BY <1>3
  <2>2. a.at = b.at
    BY <1>2, <2>1
  <2> QED BY <2>2, PlacesAreUnique
<1>4. spot \in Injection(AllProposed(ask), low \X high)
  <2>1. spot \in [AllProposed(ask) -> low \X high]
    BY <1>2
  <2>2. \A a, b \in AllProposed(ask) : spot[a] = spot[b] => a = b
    BY <1>3
  <2> HIDE DEF spot
  <2> QED BY <2>1, <2>2 DEF Injection, IsInjective
<1>5. IsFiniteSet(AllProposed(ask))
  <2> HIDE DEF low, high, spot
  <2> QED BY <1>1, <1>4, FS_Injection
<1>6. EnumerateActions(ask) \in SUBSET AllProposed(ask)
  BY DEF EnumerateActions, Deduped, AllProposed
<1> QED BY <1>5, <1>6, FS_Subset

(* What dedupeActions drops has a twin that stays, the first of them. *)
LEMMA TwinStays ==
  ASSUME Planned, NEW ask \in Questions, NEW a \in AllProposed(ask)
  PROVE  \E b \in EnumerateActions(ask) : b.type = a.type /\ b.on = a.on /\ ~Precedes(a.at, b.at)
<1> DEFINE twins == {b \in AllProposed(ask) : <<b.type, b.on>> = <<a.type, a.on>>}
           before == {p \in twins \X twins : Precedes(p[1].at, p[2].at)}
<1>1. \A b \in twins : b \in AllProposed(ask) /\ b.at \in Place
  BY ProposalFacts
<1>2. IsFiniteSet(twins) /\ twins # {}
  BY ProposalsAreFinite, FS_Subset
<1>3. /\ \A x \in twins : <<x, x>> \notin before
      /\ \A x, y, z \in twins : <<x, y>> \in before /\ <<y, z>> \in before => <<x, z>> \in before
  BY <1>1, PrecedesIsAnOrder
<1>4. PICK b \in twins : \A y \in twins : <<y, b>> \notin before
  <2> HIDE DEF twins, before
  <2> QED BY <1>2, <1>3, SomeoneIsFirst
<1>5. \A y \in twins : ~Precedes(y.at, b.at)
  BY <1>4
<1>6. b \in EnumerateActions(ask)
  <2>1. ASSUME NEW y \in AllProposed(ask), <<y.type, y.on>> = <<b.type, b.on>> PROVE ~Precedes(y.at, b.at)
    <3>1. y \in twins
      BY <2>1
    <3> QED BY <1>5, <3>1
  <2>2. b \in AllProposed(ask)
    OBVIOUS
  <2> QED BY <2>1, <2>2 DEF EnumerateActions, Deduped, AllProposed
<1>7. b.type = a.type /\ b.on = a.on /\ a \in twins
  OBVIOUS
<1> QED BY <1>5, <1>6, <1>7
-----------------------------------------------------------------------------
(* Scores.  All are whole hundredths.  Of two checks of one kind the one of *)
(* the riskier claim wins whenever that claim is in doubt: half of its      *)
(* weight is then uncertainty to remove, and no confidence the other may    *)
(* lack makes up for the difference.                                        *)
Weight(i) == RiskWeight[claims[i].risk]

LEMMA WeightIs ==
  ASSUME Planned, NEW i \in DOMAIN claims
  PROVE  /\ Weight(i) \in {35, 65, 100, 140} /\ Weight(i) \in Nat
         /\ Serious(claims[i]) <=> Weight(i) >= 100
         /\ claims[i].confidence \in 0 .. 100
         /\ claims[i].risk = "critical" <=> Weight(i) = 140
<1>1. claims[i] \in PlannedClaim
  BY DEF Planned
<1>2. claims[i].risk \in Risks /\ claims[i].confidence \in 0 .. 100
  BY <1>1 DEF PlannedClaim
<1> QED BY <1>2 DEF Risks, Weight, RiskWeight, Serious

LEMMA ImportanceIs ==
  ASSUME Planned, NEW on \in SUBSET DOMAIN claims, on # {}
  PROVE  /\ Importance(on) \in Nat
         /\ \E j \in on : Weight(j) = Importance(on)
         /\ \A j \in on : Weight(j) <= Importance(on)
<1> DEFINE w == {Weight(i) : i \in on}
<1>1. \A i \in on : Weight(i) \in {35, 65, 100, 140}
  BY WeightIs
<1>2. \E m \in w : \A x \in w : x <= m
  <2>1. w \in SUBSET {35, 65, 100, 140} /\ w # {}
    BY <1>1
  <2> HIDE DEF w
  <2>2. CASE 140 \in w
    BY <2>1, <2>2
  <2>3. CASE 140 \notin w /\ 100 \in w
    BY <2>1, <2>3
  <2>4. CASE 140 \notin w /\ 100 \notin w /\ 65 \in w
    BY <2>1, <2>4
  <2>5. CASE 140 \notin w /\ 100 \notin w /\ 65 \notin w
    <3>1. \A x \in w : x = 35
      BY <2>1, <2>5
    <3>2. PICK m \in w : TRUE
      BY <2>1
    <3> QED BY <3>1, <3>2
  <2> QED BY <2>2, <2>3, <2>4, <2>5
<1>3. Importance(on) = CHOOSE m \in w : \A x \in w : x <= m
  BY DEF Importance, Weight
<1>4. Importance(on) \in w /\ \A x \in w : x <= Importance(on)
  <2> HIDE DEF w
  <2> QED BY <1>2, <1>3
<1> QED BY <1>1, <1>4

LEMMA DoubtIs ==
  ASSUME Planned, NEW on \in SUBSET DOMAIN claims
  PROVE  IsFiniteSet(on) /\ Doubt(on) \in Nat
<1>1. IsFiniteSet(DOMAIN claims)
  <2>1. 1 \in Int /\ Len(ClaimKinds) \in Int /\ DOMAIN claims = 1 .. Len(ClaimKinds)
    BY PlanAssumption DEF Planned
  <2> QED BY <2>1, FS_Interval
<1>2. IsFiniteSet(on)
  BY <1>1, FS_Subset
<1>3. IsFiniteSet(1 .. 100)
  <2>1. 1 \in Int /\ 100 \in Int
    OBVIOUS
  <2> QED BY <2>1, FS_Interval
<1>4. IsFiniteSet(on \X (1 .. 100))
  BY <1>2, <1>3, FS_Product
<1> DEFINE pairs == {p \in on \X (1 .. 100) : claims[p[1]].confidence < p[2]}
<1>5. pairs \in SUBSET (on \X (1 .. 100))
  OBVIOUS
<1>6. Cardinality(pairs) \in Nat
  <2> HIDE DEF pairs
  <2> QED BY <1>4, <1>5, FS_Subset, FS_CardinalityType
<1> QED BY <1>2, <1>6 DEF Doubt

LEMMA DoubtOfOne ==
  ASSUME Planned, NEW j \in DOMAIN claims
  PROVE  Doubt({j}) = 100 - claims[j].confidence
<1> DEFINE n == claims[j].confidence
           pairs == {p \in {j} \X (1 .. 100) : claims[p[1]].confidence < p[2]}
           pair == [k \in n + 1 .. 100 |-> <<j, k>>]
<1>1. n \in 0 .. 100
  BY WeightIs
<1>2. pair \in Bijection(n + 1 .. 100, pairs)
  <2>1. pair \in [n + 1 .. 100 -> pairs]
    BY <1>1
  <2>2. \A a, b \in n + 1 .. 100 : pair[a] = pair[b] => a = b
    OBVIOUS
  <2>3. \A p \in pairs : \E k \in n + 1 .. 100 : pair[k] = p
    <3> SUFFICES ASSUME NEW p \in pairs PROVE \E k \in n + 1 .. 100 : pair[k] = p
      OBVIOUS
    <3>1. p[1] = j /\ p[2] \in 1 .. 100 /\ n < p[2] /\ p = <<j, p[2]>>
      OBVIOUS
    <3>2. p[2] \in n + 1 .. 100
      BY <1>1, <3>1
    <3> QED BY <3>1, <3>2
  <2> HIDE DEF pair, pairs, n
  <2> QED BY <2>1, <2>2, <2>3 DEF Bijection, Injection, IsInjective, Surjection
<1>3. IsFiniteSet(n + 1 .. 100) /\ Cardinality(n + 1 .. 100) = 100 - n
  <2>1. n + 1 \in Int /\ 100 \in Int
    BY <1>1
  <2>2. IsFiniteSet(n + 1 .. 100) /\ Cardinality(n + 1 .. 100) = IF n + 1 > 100 THEN 0 ELSE 100 - (n + 1) + 1
    BY <2>1, FS_Interval
  <2> HIDE DEF n
  <2> QED BY <1>1, <2>2
<1>4. Cardinality(pairs) = Cardinality(n + 1 .. 100)
  <2> HIDE DEF pair, pairs, n
  <2> QED BY <1>2, <1>3, FS_Bijection DEF ExistsBijection
<1> QED BY <1>3, <1>4 DEF Doubt

LEMMA ReductionIs ==
  ASSUME Planned, NEW on \in SUBSET DOMAIN claims
  PROVE  /\ UncertaintyReduction(on) \in Int
         /\ on = {} => UncertaintyReduction(on) = 50
<1>1. CASE on = {}
  BY <1>1 DEF UncertaintyReduction
<1>2. CASE on # {}
  <2> DEFINE n == Importance(on) * Doubt(on)
             d == 100 * Cardinality(on)
  <2>1. Importance(on) \in Nat /\ Doubt(on) \in Nat /\ IsFiniteSet(on)
    BY <1>2, ImportanceIs, DoubtIs
  <2>2. Cardinality(on) \in Nat /\ Cardinality(on) # 0
    BY <1>2, <2>1, FS_CardinalityType, FS_EmptySet
  <2>3. n \in Nat
    BY <2>1
  <2>4. d \in Nat /\ d > 0
    BY <2>2
  <2> HIDE DEF n, d
  <2>5. 2 * n + d \in Int /\ 2 * d \in Int /\ 2 * d > 0
    BY <2>3, <2>4
  <2>6. Rounded(n, d) \in Int
    BY <2>5 DEF Rounded
  <2> QED BY <1>2, <2>6 DEF UncertaintyReduction, n, d
<1> QED BY <1>1, <1>2

LEMMA ReductionOfOne ==
  ASSUME Planned, NEW j \in DOMAIN claims
  PROVE  LET r == UncertaintyReduction({j})
         IN /\ r \in 0 .. Weight(j)
            /\ claims[j].confidence <= 50 => 2 * r >= Weight(j)
<1> DEFINE c == claims[j].confidence
           W == Weight(j)
<1>1. W \in {35, 65, 100, 140} /\ c \in 0 .. 100
  BY WeightIs
<1>2. Importance({j}) = W
  <2>1. {j} \in SUBSET DOMAIN claims /\ {j} # {}
    OBVIOUS
  <2> QED BY <2>1, ImportanceIs
<1>3. Doubt({j}) = 100 - c
  BY DoubtOfOne
<1>4. Cardinality({j}) = 1
  BY FS_Singleton
<1>5. UncertaintyReduction({j}) = Rounded(W * (100 - c), 100 * 1)
  BY <1>2, <1>3, <1>4 DEF UncertaintyReduction
<1> HIDE DEF c, W
<1>6. Rounded(W * (100 - c), 100 * 1) = (2 * (W * (100 - c)) + 100) \div 200
  BY DEF Rounded
<1>7. /\ (2 * (W * (100 - c)) + 100) \div 200 \in 0 .. W
      /\ c <= 50 => 2 * ((2 * (W * (100 - c)) + 100) \div 200) >= W
  <2>1. CASE W = 35
    BY <1>1, <2>1
  <2>2. CASE W = 65
    BY <1>1, <2>2
  <2>3. CASE W = 100
    BY <1>1, <2>3
  <2>4. CASE W = 140
    BY <1>1, <2>4
  <2> QED BY <1>1, <2>1, <2>2, <2>3, <2>4
<1> QED BY <1>5, <1>6, <1>7 DEF c, W
LEMMA ScoreIsInt ==
  ASSUME Planned, NEW ask \in Questions, NEW a \in AllProposed(ask)
  PROVE  ScoreOf(a, ask.hypotheses) \in Int
<1>1. a.on \in SUBSET DOMAIN claims /\ ask.hypotheses \in Nat
  BY ProposalFacts, QuestionFacts
<1>2. UncertaintyReduction(a.on) \in Int
  BY <1>1, ReductionIs
<1>3. Importance(a.on) \in Int
  <2>1. CASE a.on = {}
    BY <2>1 DEF Importance
  <2>2. CASE a.on # {}
    BY <1>1, <2>2, ImportanceIs
  <2> QED BY <2>1, <2>2
<1>4. Discrimination(a, ask.hypotheses) \in Int
  BY <1>1 DEF Discrimination
<1>5. Quality(a) \in Int
  BY DEF Quality
<1>6. Penalty(a) \in Int
  BY DEF Penalty
<1> QED BY <1>2, <1>3, <1>4, <1>5, <1>6 DEF ScoreOf

(* Usefulness of a check of a claim of this weight. *)
Use(w) == IF w = 140 THEN 200 ELSE IF w = 100 THEN 160 ELSE 120
ForOthers(ask) == IF ask.hypotheses >= 3 THEN 100 ELSE 35 * ask.hypotheses

LEMMA ClaimScore ==
  ASSUME Planned, NEW ask \in Questions, NEW a \in AllProposed(ask), a.by = "claim",
         NEW j \in DOMAIN claims, a.on = {j}
  PROVE  LET s == ScoreOf(a, ask.hypotheses)
             base == ForOthers(ask) + Weight(j) + Use(Weight(j))
         IN /\ a.type # "build" => s <= base + Weight(j) - 65
            /\ claims[j].confidence <= 50 /\ a.type \notin {"build", "visual_check", "manual_human_review"} =>
                 2 * s >= 2 * base + Weight(j) - 130
<1> DEFINE W == Weight(j)
           r == UncertaintyReduction({j})
           D == ForOthers(ask)
<1>1. a.risk = claims[j].risk
  <2>1. \E k \in DOMAIN claims : a.on = {k} /\ a.risk = claims[k].risk
    BY ProposalFacts
  <2> QED BY <2>1
<1>2. W \in {35, 65, 100, 140} /\ r \in 0 .. W /\ (claims[j].confidence <= 50 => 2 * r >= W) /\ D \in Nat
  <2>1. D \in Nat
    BY QuestionFacts DEF ForOthers
  <2> QED BY <2>1, WeightIs, ReductionOfOne
<1>3. Importance(a.on) = W
  <2>1. {j} \in SUBSET DOMAIN claims /\ {j} # {}
    OBVIOUS
  <2> QED BY <2>1, ImportanceIs
<1>4. Discrimination(a, ask.hypotheses) = D
  BY DEF Discrimination, ForOthers
<1>5. Quality(a) = Use(W)
  <2>1. claims[j].risk = "critical" <=> W = 140
    BY WeightIs
  <2>2. Serious(claims[j]) <=> W >= 100
    BY WeightIs
  <2>3. a.risk \in {"high", "critical"} <=> W >= 100
    BY <1>1, <2>2 DEF Serious
  <2> HIDE DEF W
  <2> QED BY <1>1, <1>2, <2>1, <2>3 DEF Quality, Use
<1>6. /\ a.type # "build" => Penalty(a) >= 65 /\ Penalty(a) \in Nat
      /\ a.type \notin {"build", "visual_check", "manual_human_review"} => Penalty(a) = 65
  BY DEF Penalty
<1>7. ScoreOf(a, ask.hypotheses) = r + D + W + Use(W) - Penalty(a)
  BY <1>3, <1>4, <1>5 DEF ScoreOf
<1>8. Use(W) \in Nat
  BY DEF Use
<1> HIDE DEF W, r, D
<1>9. /\ a.type # "build" => ScoreOf(a, ask.hypotheses) <= D + W + Use(W) + W - 65
      /\ claims[j].confidence <= 50 /\ a.type \notin {"build", "visual_check", "manual_human_review"} =>
                 2 * ScoreOf(a, ask.hypotheses) >= 2 * (D + W + Use(W)) + W - 130
  BY <1>2, <1>6, <1>7, <1>8
<1> QED BY <1>9 DEF W, D

(* Only a command is a build. *)
LEMMA OnlyCommandsBuild ==
  ASSUME NEW ask \in Questions, NEW a \in AllProposed(ask), a.by # "command"
  PROVE  a.type # "build"
<1>2. ASSUME NEW i, NEW type, NEW p PROVE ForClaim(i, type, p).type = type
  BY DEF ForClaim
<1>3. ASSUME NEW kind PROVE InferActionType(kind) \notin {"build", "visual_check", "manual_human_review"}
  BY DEF InferActionType
<1>4. CASE a \in Targeted
  <2>1. PICK i, type, p : a = ForClaim(i, type, p) /\ type # "build"
    <3>1. CASE a \in {ForClaim(i, InferActionType(ClaimKinds[i]), <<1, 0, i, 1>>) : i \in WeakOnes}
      <4>1. PICK i \in WeakOnes : a = ForClaim(i, InferActionType(ClaimKinds[i]), <<1, 0, i, 1>>)
        BY <3>1
      <4> QED BY <1>3, <4>1
    <3>2. CASE a \notin {ForClaim(i, InferActionType(ClaimKinds[i]), <<1, 0, i, 1>>) : i \in WeakOnes}
      <4>1. PICK i \in WeakOnes : a = ForClaim(i, IF ClaimKinds[i] = "security" THEN "security_check" ELSE "permission_boundary_check", <<1, 0, i, 2>>)
        BY <1>4, <3>2 DEF Targeted
      <4> QED BY <4>1
    <3> QED BY <3>1, <3>2
  <2> QED BY <1>2, <2>1
<1>5. CASE a \in Commands
  BY <1>5 DEF Commands, ForCommand
<1>6. CASE a \in ForFiles(ask.files)
  <2>1. MigrationChecks[1] # "build" /\ MigrationChecks[2] # "build"
    BY DEF MigrationChecks
  <2>2. \A n \in 1 .. 2 : MigrationChecks[n] # "build"
    BY <2>1
  <2>3. ASSUME a \in {ForClaim(i, "visual_check", <<3, f, i, 1>>) : f \in {g \in DOMAIN ask.files : ask.files[g] = "frontend"}, i \in WeakOnes}
        PROVE  a.type # "build"
    <3>1. PICK f \in {g \in DOMAIN ask.files : ask.files[g] = "frontend"}, i \in WeakOnes :
            a = ForClaim(i, "visual_check", <<3, f, i, 1>>)
      BY <2>3
    <3> QED BY <1>2, <3>1
  <2>4. ASSUME a \in {ForClaim(i, MigrationChecks[n], <<3, f, i, n>>)
                    : f \in {g \in DOMAIN ask.files : ask.files[g] = "migration"}, i \in WeakOnes, n \in 1 .. 2}
        PROVE  a.type # "build"
    <3>1. PICK f \in {g \in DOMAIN ask.files : ask.files[g] = "migration"}, i \in WeakOnes, n \in 1 .. 2 :
            a = ForClaim(i, MigrationChecks[n], <<3, f, i, n>>)
      BY <2>4
    <3>2. a.type = MigrationChecks[n]
      BY <1>2, <3>1
    <3> QED BY <2>2, <3>2
  <2> QED BY <1>6, <2>3, <2>4 DEF ForFiles
<1>7. CASE a \in Uncertain(ask.uncertainties)
  BY <1>7 DEF Uncertain, ForUncertainty
<1>8. CASE a \in Reviews(Proposed(ask))
  <2>1. PICK i : a = ForClaim(i, "manual_human_review", <<5, 0, i, 0>>)
    BY <1>8 DEF Reviews
  <2>2. a.type = "manual_human_review"
    BY <1>2, <2>1
  <2> QED BY <2>2
<1> QED BY <1>4, <1>5, <1>6, <1>7, <1>8 DEF AllProposed, Proposed
-----------------------------------------------------------------------------
(* The ranking.  Everyone's place is one more than the number of those      *)
(* ahead, so the places are 1 to n, each taken once.                        *)
ScoredOf(ask, a) == [action |-> a, score |-> ScoreOf(a, ask.hypotheses)]
Ahead(ask, x) == {y \in Scored(ask) : Outranks(y, x)}
PlacedOf(ask, x) == [action |-> x.action, place |-> Cardinality(Ahead(ask, x)) + 1]

LEMMA ScoredFacts ==
  ASSUME Planned, NEW ask \in Questions
  PROVE  /\ \A x \in Scored(ask) : /\ x.action \in EnumerateActions(ask) /\ x = ScoredOf(ask, x.action)
                                   /\ x.score \in Int /\ x.score = ScoreOf(x.action, ask.hypotheses)
                                   /\ x.action.at \in Place
         /\ \A a \in EnumerateActions(ask) : ScoredOf(ask, a) \in Scored(ask) /\ ScoredOf(ask, a).action = a
         /\ IsFiniteSet(Scored(ask))
<1>1. ASSUME NEW x \in Scored(ask)
      PROVE  /\ x.action \in EnumerateActions(ask) /\ x = ScoredOf(ask, x.action)
             /\ x.score \in Int /\ x.score = ScoreOf(x.action, ask.hypotheses)
             /\ x.action.at \in Place
  <2>1. PICK a \in EnumerateActions(ask) : x = [action |-> a, score |-> ScoreOf(a, ask.hypotheses)]
    BY DEF Scored
  <2>2. a \in AllProposed(ask)
    BY ProposalsAreFinite
  <2>3. ScoreOf(a, ask.hypotheses) \in Int /\ a.at \in Place
    BY <2>2, ScoreIsInt, ProposalFacts
  <2> QED BY <2>1, <2>3 DEF ScoredOf
<1>2. \A a \in EnumerateActions(ask) : ScoredOf(ask, a) \in Scored(ask) /\ ScoredOf(ask, a).action = a
  BY DEF Scored, ScoredOf
<1>3. IsFiniteSet(Scored(ask))
  <2> DEFINE of == [x \in Scored(ask) |-> x.action]
  <2>1. of \in [Scored(ask) -> EnumerateActions(ask)]
    BY <1>1
  <2>2. ASSUME NEW x \in Scored(ask), NEW y \in Scored(ask), of[x] = of[y] PROVE x = y
    <3>1. x.action = y.action
      BY <2>2
    <3> QED BY <1>1, <3>1
  <2>3. of \in Injection(Scored(ask), EnumerateActions(ask))
    <3> HIDE DEF of
    <3> QED BY <2>1, <2>2 DEF Injection, IsInjective
  <2>4. IsFiniteSet(EnumerateActions(ask))
    BY ProposalsAreFinite
  <2> HIDE DEF of
  <2> QED BY <2>3, <2>4, FS_Injection
<1> QED BY <1>1, <1>2, <1>3

LEMMA OutranksIsAnOrder ==
  ASSUME Planned, NEW ask \in Questions, NEW x \in Scored(ask), NEW y \in Scored(ask), NEW z \in Scored(ask)
  PROVE  /\ ~Outranks(x, x)
         /\ Outranks(x, y) /\ Outranks(y, z) => Outranks(x, z)
         /\ x # y => Outranks(x, y) \/ Outranks(y, x)
<1>1. /\ x.score \in Int /\ y.score \in Int /\ z.score \in Int
      /\ x.action.at \in Place /\ y.action.at \in Place /\ z.action.at \in Place
  BY ScoredFacts
<1>2. x # y => x.action.at # y.action.at
  <2>1. SUFFICES ASSUME x.action.at = y.action.at PROVE x = y
    OBVIOUS
  <2>2. x.action \in AllProposed(ask) /\ y.action \in AllProposed(ask)
    BY ScoredFacts, ProposalsAreFinite
  <2>3. x.action = y.action
    BY <2>1, <2>2, PlacesAreUnique
  <2>4. x = ScoredOf(ask, x.action) /\ y = ScoredOf(ask, y.action)
    BY ScoredFacts
  <2> QED BY <2>3, <2>4
<1>3. ~Precedes(x.action.at, x.action.at)
  BY <1>1, PrecedesIsAnOrder
<1>4. Precedes(x.action.at, y.action.at) /\ Precedes(y.action.at, z.action.at) => Precedes(x.action.at, z.action.at)
  BY <1>1, PrecedesIsAnOrder
<1>5. x # y => Precedes(x.action.at, y.action.at) \/ Precedes(y.action.at, x.action.at)
  BY <1>1, <1>2, PrecedesIsAnOrder
<1> QED BY <1>1, <1>3, <1>4, <1>5 DEF Outranks

LEMMA AheadCounts ==
  ASSUME Planned, NEW ask \in Questions, NEW x \in Scored(ask)
  PROVE  /\ IsFiniteSet(Ahead(ask, x)) /\ Cardinality(Ahead(ask, x)) \in Nat
         /\ Cardinality(Ahead(ask, x)) < Cardinality(Scored(ask)) /\ Cardinality(Scored(ask)) \in Nat
         /\ \A y \in Scored(ask) : Outranks(y, x) => Cardinality(Ahead(ask, y)) < Cardinality(Ahead(ask, x))
<1>1. IsFiniteSet(Scored(ask)) /\ Cardinality(Scored(ask)) \in Nat
  BY ScoredFacts, FS_CardinalityType
<1>2. Ahead(ask, x) \in SUBSET Scored(ask) /\ x \notin Ahead(ask, x) /\ Ahead(ask, x) # Scored(ask)
  BY OutranksIsAnOrder DEF Ahead
<1>3. IsFiniteSet(Ahead(ask, x)) /\ Cardinality(Ahead(ask, x)) \in Nat
  BY <1>1, <1>2, FS_Subset, FS_CardinalityType
<1>4. Cardinality(Ahead(ask, x)) < Cardinality(Scored(ask))
  <2>1. Cardinality(Ahead(ask, x)) <= Cardinality(Scored(ask)) /\ Cardinality(Ahead(ask, x)) # Cardinality(Scored(ask))
    BY <1>1, <1>2, FS_Subset
  <2> QED BY <1>1, <1>3, <2>1
<1>5. ASSUME NEW y \in Scored(ask), Outranks(y, x)
      PROVE  Cardinality(Ahead(ask, y)) < Cardinality(Ahead(ask, x))
  <2>1. Ahead(ask, y) \in SUBSET Ahead(ask, x)
    BY <1>5, OutranksIsAnOrder DEF Ahead
  <2>2. y \in Ahead(ask, x) /\ y \notin Ahead(ask, y)
    BY <1>5, OutranksIsAnOrder DEF Ahead
  <2>3. /\ Cardinality(Ahead(ask, y)) <= Cardinality(Ahead(ask, x))
        /\ Cardinality(Ahead(ask, y)) # Cardinality(Ahead(ask, x))
        /\ Cardinality(Ahead(ask, y)) \in Nat
    <3>1. Ahead(ask, x) # Ahead(ask, y)
      BY <2>2
    <3> QED BY <1>3, <2>1, <3>1, FS_Subset, FS_CardinalityType
  <2> QED BY <1>3, <2>3
<1> QED BY <1>1, <1>3, <1>4, <1>5

LEMMA PlacesOfTheRanking ==
  ASSUME Planned, NEW ask \in Questions
  PROVE  /\ Cardinality(Placed(Scored(ask))) = Cardinality(Scored(ask))
         /\ \A x \in Scored(ask) :
              LET k == Cardinality(Ahead(ask, x)) + 1
              IN /\ k \in 1 .. Cardinality(Scored(ask))
                 /\ (CHOOSE p \in Placed(Scored(ask)) : p.place = k).action = x.action
<1>1. ASSUME NEW x \in Scored(ask) PROVE PlacedOf(ask, x) \in Placed(Scored(ask))
  BY DEF Placed, PlacedOf, Ahead
<1>2. ASSUME NEW p \in Placed(Scored(ask)) PROVE \E x \in Scored(ask) : p = PlacedOf(ask, x)
  BY DEF Placed, PlacedOf, Ahead
<1>3. ASSUME NEW x \in Scored(ask), NEW y \in Scored(ask), PlacedOf(ask, x).place = PlacedOf(ask, y).place PROVE x = y
  <2>1. Cardinality(Ahead(ask, x)) + 1 = Cardinality(Ahead(ask, y)) + 1
    BY <1>3 DEF PlacedOf
  <2>2. Cardinality(Ahead(ask, x)) \in Nat /\ Cardinality(Ahead(ask, y)) \in Nat
    BY AheadCounts
  <2>3. ~Outranks(x, y)
    <3>1. Outranks(x, y) => Cardinality(Ahead(ask, x)) < Cardinality(Ahead(ask, y))
      BY AheadCounts
    <3> QED BY <2>1, <2>2, <3>1
  <2>4. ~Outranks(y, x)
    <3>1. Outranks(y, x) => Cardinality(Ahead(ask, y)) < Cardinality(Ahead(ask, x))
      BY AheadCounts
    <3> QED BY <2>1, <2>2, <3>1
  <2> QED BY <2>3, <2>4, OutranksIsAnOrder
<1>4. Cardinality(Placed(Scored(ask))) = Cardinality(Scored(ask))
  <2> DEFINE f == [x \in Scored(ask) |-> PlacedOf(ask, x)]
  <2>1. f \in [Scored(ask) -> Placed(Scored(ask))]
    BY <1>1
  <2>2. \A x, y \in Scored(ask) : f[x] = f[y] => x = y
    BY <1>3
  <2>3. \A p \in Placed(Scored(ask)) : \E x \in Scored(ask) : f[x] = p
    BY <1>2
  <2>4. f \in Bijection(Scored(ask), Placed(Scored(ask)))
    <3> HIDE DEF f
    <3> QED BY <2>1, <2>2, <2>3 DEF Bijection, Injection, IsInjective, Surjection
  <2>5. IsFiniteSet(Scored(ask))
    BY ScoredFacts
  <2> HIDE DEF f
  <2> QED BY <2>4, <2>5, FS_Bijection DEF ExistsBijection
<1>5. ASSUME NEW x \in Scored(ask), NEW k, k = Cardinality(Ahead(ask, x)) + 1
      PROVE  /\ k \in 1 .. Cardinality(Scored(ask))
             /\ (CHOOSE p \in Placed(Scored(ask)) : p.place = k).action = x.action
  <2>1. k \in 1 .. Cardinality(Scored(ask))
    BY <1>5, AheadCounts
  <2>2. PlacedOf(ask, x) \in Placed(Scored(ask)) /\ PlacedOf(ask, x).place = k /\ PlacedOf(ask, x).action = x.action
    BY <1>1, <1>5 DEF PlacedOf
  <2> DEFINE q == CHOOSE p \in Placed(Scored(ask)) : p.place = k
  <2>3. q \in Placed(Scored(ask)) /\ q.place = k
    BY <2>2
  <2> HIDE DEF q
  <2>4. PICK y \in Scored(ask) : q = PlacedOf(ask, y)
    BY <1>2, <2>3
  <2>5. y = x
    BY <1>3, <2>2, <2>3, <2>4
  <2>6. q.action = x.action
    BY <2>2, <2>4, <2>5
  <2> QED BY <2>1, <2>6 DEF q
<1> QED BY <1>4, <1>5

LEMMA RankingIs ==
  ASSUME Planned, NEW ask \in Questions
  PROVE  LET ranking == RankedActions(ask)
         IN /\ ranking # <<>> =>
                 /\ ranking[1] \in EnumerateActions(ask)
                 /\ \A a \in EnumerateActions(ask) : ScoreOf(a, ask.hypotheses) <= ScoreOf(ranking[1], ask.hypotheses)
            /\ Len(ranking) \in 2 .. 24 =>
                 \A a \in EnumerateActions(ask) : \E k \in DOMAIN ranking : ranking[k] = a
<1> DEFINE n == Cardinality(Scored(ask))
           limit == IF ask.cap < 1 THEN 1 ELSE ask.cap
           m == IF n < limit THEN n ELSE limit
           ranking == RankedActions(ask)
<1>1. n \in Nat /\ limit \in {1, 25} /\ m \in Nat
  BY ScoredFacts, QuestionFacts, FS_CardinalityType
<1>2. ranking = [k \in 1 .. m |-> (CHOOSE p \in Placed(Scored(ask)) : p.place = k).action]
  BY PlacesOfTheRanking DEF RankedActions
<1>3. Len(ranking) = m /\ DOMAIN ranking = 1 .. m
  BY <1>1, <1>2
<1>4. ASSUME NEW x \in Scored(ask), Cardinality(Ahead(ask, x)) + 1 \in 1 .. m
      PROVE  ranking[Cardinality(Ahead(ask, x)) + 1] = x.action
  <2>1. (CHOOSE p \in Placed(Scored(ask)) : p.place = Cardinality(Ahead(ask, x)) + 1).action = x.action
    BY PlacesOfTheRanking
  <2> HIDE DEF m, ranking
  <2> QED BY <1>2, <1>4, <2>1
<1>5. ASSUME ranking # <<>>
      PROVE  /\ ranking[1] \in EnumerateActions(ask)
             /\ \A a \in EnumerateActions(ask) : ScoreOf(a, ask.hypotheses) <= ScoreOf(ranking[1], ask.hypotheses)
  <2>1. m >= 1 /\ n >= 1
    <3>1. m # 0
      BY <1>2, <1>5
    <3> HIDE DEF ranking
    <3> QED BY <1>1, <3>1
  <2>2. IsFiniteSet(Scored(ask)) /\ Scored(ask) # {}
    BY <2>1, ScoredFacts, FS_EmptySet
  <2> DEFINE above == {p \in Scored(ask) \X Scored(ask) : Outranks(p[1], p[2])}
  <2>3. /\ \A x \in Scored(ask) : <<x, x>> \notin above
        /\ \A x, y, z \in Scored(ask) : <<x, y>> \in above /\ <<y, z>> \in above => <<x, z>> \in above
    BY OutranksIsAnOrder
  <2>4. PICK x \in Scored(ask) : \A y \in Scored(ask) : <<y, x>> \notin above
    <3> HIDE DEF above
    <3> QED BY <2>2, <2>3, SomeoneIsFirst
  <2>5. \A y \in Scored(ask) : ~Outranks(y, x)
    BY <2>4
  <2>6. Cardinality(Ahead(ask, x)) = 0
    BY <2>5, FS_EmptySet DEF Ahead
  <2>7. ranking[1] = x.action
    <3>1. Cardinality(Ahead(ask, x)) + 1 = 1 /\ 1 \in 1 .. m
      BY <1>1, <2>1, <2>6
    <3> HIDE DEF m, ranking
    <3> QED BY <1>4, <3>1
  <2>8. ASSUME NEW a \in EnumerateActions(ask)
        PROVE  ScoreOf(a, ask.hypotheses) <= ScoreOf(x.action, ask.hypotheses)
    <3> DEFINE y == ScoredOf(ask, a)
    <3>1. y \in Scored(ask) /\ y.action = a
      BY ScoredFacts
    <3> HIDE DEF y
    <3>2. /\ y.score \in Int /\ y.score = ScoreOf(a, ask.hypotheses)
          /\ x.score \in Int /\ x.score = ScoreOf(x.action, ask.hypotheses)
      BY <3>1, ScoredFacts
    <3>3. ~(y.score > x.score)
      BY <2>5, <3>1 DEF Outranks
    <3> QED BY <3>2, <3>3
  <2>9. x.action \in EnumerateActions(ask)
    BY ScoredFacts
  <2> HIDE DEF ranking
  <2> QED BY <2>7, <2>8, <2>9
<1>6. ASSUME Len(ranking) \in 2 .. 24, NEW a \in EnumerateActions(ask)
      PROVE  \E k \in DOMAIN ranking : ranking[k] = a
  <2> DEFINE x == ScoredOf(ask, a)
             k == Cardinality(Ahead(ask, x)) + 1
  <2>1. x \in Scored(ask) /\ x.action = a
    BY ScoredFacts
  <2>2. m = n
    <3>1. m = IF n < limit THEN n ELSE limit
      OBVIOUS
    <3> HIDE DEF ranking, n, m, limit
    <3>2. m \in 2 .. 24
      BY <1>3, <1>6
    <3> QED BY <1>1, <3>1, <3>2
  <2>3. k \in 1 .. m
    <3>1. k \in 1 .. Cardinality(Scored(ask))
      <4> HIDE DEF x
      <4> QED BY <2>1, PlacesOfTheRanking
    <3> QED BY <2>2, <3>1
  <2> HIDE DEF x, ranking, m
  <2>4. ranking[k] = a
    BY <1>4, <2>1, <2>3
  <2> QED BY <1>3, <2>3, <2>4
<1> HIDE DEF ranking
<1>7. /\ ranking # <<>> =>
           /\ ranking[1] \in EnumerateActions(ask)
           /\ \A a \in EnumerateActions(ask) : ScoreOf(a, ask.hypotheses) <= ScoreOf(ranking[1], ask.hypotheses)
      /\ Len(ranking) \in 2 .. 24 => \A a \in EnumerateActions(ask) : \E k \in DOMAIN ranking : ranking[k] = a
  BY <1>5, <1>6
<1> QED BY <1>7 DEF ranking
-----------------------------------------------------------------------------
(* A claim in need of a check has one among the candidates, of its own kind *)
(* and neither a build, a visual check nor a review.                        *)
LEMMA WeakClaimHasCheck ==
  ASSUME Planned, NEW ask \in Questions, NEW i \in WeakOnes
  PROVE  \E b \in EnumerateActions(ask) :
           b.by = "claim" /\ b.on = {i} /\ b.type \notin {"build", "visual_check", "manual_human_review"}
<1> DEFINE a == ForClaim(i, InferActionType(ClaimKinds[i]), <<1, 0, i, 1>>)
<1>1. a.on = {i} /\ a.type = InferActionType(ClaimKinds[i]) /\ a.at = <<1, 0, i, 1>>
  BY DEF ForClaim
<1>2. a \in AllProposed(ask)
  BY DEF Targeted, Proposed, AllProposed
<1>3. InferActionType(ClaimKinds[i]) \notin {"build", "visual_check", "manual_human_review"}
  BY DEF InferActionType
<1> HIDE DEF a
<1>4. PICK b \in EnumerateActions(ask) : b.type = a.type /\ b.on = a.on /\ ~Precedes(a.at, b.at)
  BY <1>2, TwinStays
<1>5. b \in AllProposed(ask)
  BY ProposalsAreFinite
<1>6. b.by # "uncertainty"
  BY <1>1, <1>4, <1>5, ProposalFacts
<1>7. b.by # "command"
  <2>1. SUFFICES ASSUME b.by = "command" PROVE FALSE
    OBVIOUS
  <2>2. b.at \in Place /\ b.at[1] = 2
    BY <1>5, <2>1, ProposalFacts
  <2>3. a.at \in Place
    BY <1>2, ProposalFacts
  <2>4. a.at[1] < b.at[1]
    BY <1>1, <2>2
  <2>5. Precedes(a.at, b.at)
    BY <2>2, <2>3, <2>4, PrecedesMeans
  <2> QED BY <1>4, <2>5
<1>8. b.by \in {"claim", "command", "uncertainty"}
  BY <1>5, ProposalFacts
<1> QED BY <1>1, <1>3, <1>4, <1>6, <1>7, <1>8

LEMMA TopIsRiskiest ==
  ASSUME Planned, NEW ask \in Questions, RankedActions(ask) # <<>>,
         NEW i \in DOMAIN claims, InDoubt(claims[i])
  PROVE  LET top == RankedActions(ask)[1]
         IN \/ \E j \in top.on : Weight(i) <= Weight(j)
            \/ top.by = "uncertainty" /\ ~Serious(claims[i])
<1> DEFINE top == RankedActions(ask)[1]
           S == ScoreOf(top, ask.hypotheses)
           D == ForOthers(ask)
           W == Weight(i)
<1>1. i \in WeakOnes /\ claims[i].confidence <= 50
  BY DEF InDoubt, WeakOnes
<1>2. /\ top \in EnumerateActions(ask)
      /\ \A a \in EnumerateActions(ask) : ScoreOf(a, ask.hypotheses) <= S
  BY RankingIs
<1>3. PICK b \in EnumerateActions(ask) :
        b.by = "claim" /\ b.on = {i} /\ b.type \notin {"build", "visual_check", "manual_human_review"}
  BY <1>1, WeakClaimHasCheck
<1>4. b \in AllProposed(ask) /\ top \in AllProposed(ask)
  BY <1>2, ProposalsAreFinite
<1>5. S \in Int /\ ScoreOf(b, ask.hypotheses) \in Int /\ ScoreOf(b, ask.hypotheses) <= S
  <2> HIDE DEF top
  <2> QED BY <1>2, <1>4, ScoreIsInt
<1>6. D \in Nat /\ W \in {35, 65, 100, 140} /\ (Serious(claims[i]) <=> W >= 100)
  BY QuestionFacts, WeightIs DEF ForOthers
<1>7. 2 * ScoreOf(b, ask.hypotheses) >= 2 * (D + W + Use(W)) + W - 130
  BY <1>1, <1>3, <1>4, ClaimScore
<1> HIDE DEF top
<1>8. 2 * S >= 2 * (D + W + Use(W)) + W - 130
  <2> HIDE DEF S, D, W
  <2>1. Use(W) \in Nat /\ W \in Nat
    BY <1>6 DEF Use
  <2> QED BY <1>5, <1>6, <1>7, <2>1
<1>9. ASSUME top.by = "claim"
      PROVE  \E j \in top.on : Weight(i) <= Weight(j)
  <2>1. PICK j \in DOMAIN claims : top.on = {j}
    BY <1>4, <1>9, ProposalFacts
  <2>2. top.type # "build"
    BY <1>4, <1>9, OnlyCommandsBuild
  <2>3. S <= D + Weight(j) + Use(Weight(j)) + Weight(j) - 65
    BY <1>4, <1>9, <2>1, <2>2, ClaimScore
  <2>4. Weight(j) \in {35, 65, 100, 140}
    BY WeightIs
  <2>5. W <= Weight(j)
    <3> HIDE DEF S, D, W
    <3> QED BY <1>5, <1>6, <1>8, <2>3, <2>4 DEF Use
  <2> QED BY <2>1, <2>5
<1>10. ASSUME top.by = "command"
      PROVE  \E j \in top.on : Weight(i) <= Weight(j)
  <2>1. top.on = WeakOnes /\ top.on \in SUBSET DOMAIN claims /\ top.on # {}
    BY <1>1, <1>4, <1>10, ProposalFacts
  <2>2. PICK j \in top.on : Weight(j) = Importance(top.on)
    BY <2>1, ImportanceIs
  <2>3. Weight(i) <= Importance(top.on)
    BY <1>1, <2>1, ImportanceIs
  <2> QED BY <2>2, <2>3
<1>11. ASSUME top.by = "uncertainty"
      PROVE  ~Serious(claims[i])
  <2>1. top.on = {}
    BY <1>4, <1>11, ProposalFacts
  <2>2. UncertaintyReduction(top.on) = 50 /\ Importance(top.on) = 50
    BY <2>1 DEF UncertaintyReduction, Importance
  <2>3. Discrimination(top, ask.hypotheses) = D
    BY <1>11 DEF Discrimination, ForOthers
  <2>4. Quality(top) = 120
    BY <1>11 DEF Quality
  <2>5. Penalty(top) = 35
    BY <1>4, <1>11, OnlyCommandsBuild DEF Penalty
  <2>6. S = 50 + D + 50 + 120 - 35
    BY <2>2, <2>3, <2>4, <2>5 DEF ScoreOf
  <2>7. W < 100
    <3> HIDE DEF S, D, W
    <3> QED BY <1>6, <1>8, <2>6 DEF Use
  <2> QED BY <1>6, <2>7
<1>12. top.by \in {"claim", "command", "uncertainty"}
  BY <1>4, ProposalFacts
<1> QED BY <1>9, <1>10, <1>11, <1>12 DEF top

LEMMA MakePlanStep ==
  ASSUME PlanInv, NEW ask \in Questions, MakePlan(ask)
  PROVE  PlanInv'
<1>1. /\ Planned /\ claims # <<>> /\ plan' = RankedActions(ask)
      /\ UNCHANGED <<claims, passesSince, changedUnder>>
  BY DEF MakePlan, PlanInv, PlanTypes, Planned
<1>2. PlanTypes' /\ ClaimsFresh'
  BY <1>1 DEF PlanInv, PlanTypes, ClaimsFresh
<1>3. RiskFirst'
  <2>1. ASSUME plan' # <<>>, NEW i \in DOMAIN claims, InDoubt(claims[i])
        PROVE  \/ \E j \in plan'[1].on : RiskWeight[claims[i].risk] <= RiskWeight[claims[j].risk]
               \/ plan'[1].by = "uncertainty" /\ ~Serious(claims[i])
    <3>1. LET top == RankedActions(ask)[1]
          IN \/ \E j \in top.on : Weight(i) <= Weight(j)
             \/ top.by = "uncertainty" /\ ~Serious(claims[i])
      BY <1>1, <2>1, TopIsRiskiest
    <3> QED BY <1>1, <3>1 DEF Weight
  <2> QED BY <1>1, <2>1 DEF RiskFirst
<1>4. PlanCovers'
  <2>1. ASSUME Len(plan') \in 2 .. 24, NEW i \in DOMAIN claims, IsWeak(claims[i])
        PROVE  \E k \in DOMAIN plan' : i \in plan'[k].on
    <3>1. i \in WeakOnes
      BY <2>1 DEF WeakOnes
    <3>2. PICK b \in EnumerateActions(ask) : b.on = {i}
      BY <1>1, <3>1, WeakClaimHasCheck
    <3>3. \E k \in DOMAIN plan' : plan'[k] = b
      BY <1>1, <2>1, RankingIs
    <3> QED BY <3>2, <3>3
  <2> QED BY <1>1, <2>1 DEF PlanCovers
<1> QED BY <1>2, <1>3, <1>4 DEF PlanInv

LEMMA NoPlanIsFine ==
  ASSUME plan = <<>>
  PROVE  RiskFirst /\ PlanCovers
<1>1. Len(plan) = 0
  OBVIOUS
<1> QED BY <1>1 DEF RiskFirst, PlanCovers

LEMMA PlanStepOK == PlanInv /\ [PlanNext]_planVars => PlanInv'
<1> SUFFICES ASSUME PlanInv, [PlanNext]_planVars PROVE PlanInv'
  OBVIOUS
<1>1. PlanTypes /\ ClaimsFresh
  BY DEF PlanInv
<1>2. ASSUME plan' = <<>> PROVE RiskFirst' /\ PlanCovers'
  <2>1. Len(plan') = 0
    BY <1>2
  <2> QED BY <1>2, <2>1 DEF RiskFirst, PlanCovers
<1>3. CASE BeginPlan
  BY <1>1, <1>2, <1>3, BeginPlanStep DEF PlanInv
<1>4. ASSUME NEW ask \in Questions, MakePlan(ask) PROVE PlanInv'
  BY <1>4, MakePlanStep
<1>5. ASSUME NEW k \in DOMAIN plan, NEW r \in {"strong", "weak", "failed"}, RecordResult(plan[k], r # "failed", r = "strong")
      PROVE  PlanInv'
  <2> DEFINE passed == r # "failed"
             strong == r = "strong"
             a == plan[k]
  <2>1. passed \in BOOLEAN /\ strong \in BOOLEAN /\ RecordResult(a, passed, strong)
    BY <1>5
  <2>2. plan' = <<>>
    BY <1>5 DEF RecordResult
  <2> HIDE DEF passed, strong, a
  <2>3. PlanTypes' /\ ClaimsFresh'
    BY <1>1, <2>1, RecordResultStep
  <2> QED BY <1>2, <2>2, <2>3 DEF PlanInv
<1>6. ASSUME NEW file \in ChangedFiles, FileChanged(file) PROVE PlanInv'
  <2>1. plan' = <<>>
    BY <1>6 DEF FileChanged
  <2> QED BY <1>1, <1>2, <1>6, <2>1, FileChangedStep DEF PlanInv
<1>7. ASSUME NEW i \in DOMAIN ClaimKinds, HumanReview(i) PROVE PlanInv'
  <2>1. plan' = <<>>
    BY <1>7 DEF HumanReview
  <2> QED BY <1>1, <1>2, <1>7, <2>1, HumanReviewStep DEF PlanInv
<1>8. CASE UNCHANGED planVars
  <2>1. claims' = claims /\ plan' = plan /\ passesSince' = passesSince /\ changedUnder' = changedUnder
    BY <1>8 DEF planVars
  <2>2. PlanTypes' /\ ClaimsFresh'
    BY <1>1, <2>1 DEF PlanTypes, ClaimsFresh
  <2>3. RiskFirst' /\ PlanCovers'
    BY <2>1 DEF PlanInv, RiskFirst, PlanCovers
  <2> QED BY <2>2, <2>3 DEF PlanInv
<1> QED BY <1>3, <1>4, <1>5, <1>6, <1>7, <1>8 DEF PlanNext

LEMMA PlanInitOK == PlanInit => PlanInv
<1> SUFFICES ASSUME PlanInit PROVE PlanInv
  OBVIOUS
<1>1. claims = <<>> /\ plan = <<>> /\ DOMAIN claims = {}
  BY DEF PlanInit
<1>2. PlanTypes
  BY <1>1 DEF PlanInit, PlanTypes
<1>3. ClaimsFresh
  BY <1>1 DEF ClaimsFresh
<1> QED BY <1>1, <1>2, <1>3, NoPlanIsFine DEF PlanInv

(* The planner's word: what it recommends is about a claim no less risky    *)
(* than any in doubt, an uncut plan leaves no weak claim without a check,   *)
(* and the gate opens only on serious claims that passed twice since they   *)
(* last failed or went stale, and on no evidence a changed file outdated    *)
(* (planner.ts, scorer.ts, confidence.ts, stale.ts, gating.ts).             *)
THEOREM PlannerKeepsItsWord == PlanSpec => []PlannerHolds
<1>1. PlanInv => PlannerHolds
  <2> SUFFICES ASSUME PlanInv PROVE PlannerHolds
    OBVIOUS
  <2>1. PlanTypes /\ ClaimsFresh /\ RiskFirst /\ PlanCovers
    BY DEF PlanInv
  <2>2. ReadyOnFreshChecks
    BY <2>1 DEF ClaimsFresh, Earned, ReadyOnFreshChecks
  <2> QED BY <2>1, <2>2 DEF PlannerHolds
<1> QED BY <1>1, PlanInitOK, PlanStepOK, PTL DEF PlanSpec
=============================================================================
