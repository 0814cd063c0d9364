------------------------------ MODULE InquiryProofs ------------------------------
(***************************************************************************)
(* What merging, revising and deliberating do to a world, for every set of *)
(* assets and facts: lemmas of KnowledgeBaseProofs.                        *)
(***************************************************************************)
EXTENDS Inquiry, WellOrder

(***************************************************************************)
(* Confidence                                                              *)
(***************************************************************************)
LEMMA Product ==
    ASSUME NEW a \in 0..100, NEW b \in 0..100
    PROVE  a * b \in 0..(100 * a)
<1>1. a * b >= 0
  BY SMT
<1>2. a * b <= a * 100
  BY SMT
<1> QED
  BY <1>1, <1>2, SMT

\* Support keeps confidence a percentage and never lowers it
\* (domain/confidence.py apply_supporting).
LEMMA RaisedRange ==
    ASSUME NEW c \in 0..Full, NEW r \in 0..Full
    PROVE  Raised(c, r) \in 0..Full /\ Raised(c, r) >= c
<1> DEFINE p == (Full - c) * (Full - r)
<1>1. p \in 0..(100 * (100 - c))
  <2>1. Full - c \in 0..100 /\ Full - r \in 0..100
    BY DEF Full
  <2> QED
    BY <2>1, Product DEF Full
<1>2. p \div 100 \in 0..(100 - c)
  <2> HIDE DEF p
  <2>1. \A q \in Nat : q <= 100 * (100 - c) => q \div 100 \in 0..(100 - c)
    BY DEF Full
  <2> QED
    BY <1>1, <2>1 DEF Full
<1> QED
  BY <1>2 DEF Raised, Full

\* A contradiction leaves a percentage (apply_contradicting).
LEMMA WeakenedRange ==
    ASSUME NEW c \in 0..Full, NEW r \in 0..Full
    PROVE  Weakened(c, r) \in 0..Full
<1> DEFINE p == c * (2 * Full - r)
<1>1. p \in 0..(200 * c)
  <2>1. PICK d \in 100..200 : d = 2 * Full - r
    BY DEF Full
  <2>2. c * d >= 0
    BY SMT DEF Full
  <2>3. c * d <= c * 200
    BY SMT DEF Full
  <2> QED
    BY <2>1, <2>2, <2>3, SMT DEF Full
<1>2. p \div 200 \in 0..c
  <2> HIDE DEF p
  <2>1. \A q \in Nat : q <= 200 * c => q \div 200 \in 0..c
    BY DEF Full
  <2> QED
    BY <1>1, <2>1 DEF Full
<1> QED
  BY <1>2 DEF Weakened, Full

(***************************************************************************)
(* Claims                                                                  *)
(***************************************************************************)
LEMMA SingleStatusType ==
    ASSUME NEW p, NEW r
    PROVE  SingleStatus(p, r) \in Statuses
BY DEF SingleStatus, Statuses

LEMMA SupportedStatusType ==
    ASSUME NEW p, NEW c, NEW E, NEW contested
    PROVE  SupportedStatus(p, c, E, contested) \in Statuses
BY SingleStatusType DEF SupportedStatus, Statuses

LEMMA TripleType ==
    ASSUME NEW e \in Facts
    PROVE  Triple(e) \in Triples /\ Triple(e)[1] = Fact[e].subject /\ Fact[e].subject \in Assets
BY FactAssumption DEF Triple, Triples

LEMMA RivalsAreMutual ==
    ASSUME NEW t \in Triples, NEW u \in Rivals(t)
    PROVE  u \in Triples /\ t \in Rivals(u) /\ u # t
BY DEF Rivals

\* What a row makes of the claims (world/model.py _merge_claim).
LEMMA MergedClaimsType ==
    ASSUME NEW w \in Worlds, NEW e \in Facts
    PROVE  MergedClaims(w, e) \in [Triples -> ClaimSet]
<1> DEFINE r == Fact[e].reliability
<1>1. r \in 0..Full /\ Triple(e) \in Triples
  BY FactAssumption, TripleType
<1>2. \A t \in Triples : w.claims[t] \in ClaimSet
  BY DEF Worlds
<1>3. SupportedClaim(w, e) \in ClaimSet
  <2> DEFINE c == w.claims[Triple(e)]
  <2>1. c \in ClaimSet
    BY <1>1, <1>2
  <2>2. Raised(c.confidence, r) \in 0..Full
    BY <2>1, <1>1, RaisedRange DEF ClaimSet
  <2> QED
    BY <2>1, <2>2, SupportedStatusType DEF SupportedClaim, ClaimSet, Statuses
<1>4. NewClaim(w, e) \in ClaimSet
  <2>1. UNION {w.claims[u].evidence : u \in Rivals(Triple(e))} \subseteq Facts
    BY <1>2 DEF Rivals, ClaimSet
  <2> QED
    BY <1>1, <2>1, SingleStatusType DEF NewClaim, ClaimSet
<1>5. ASSUME NEW u \in Triples
      PROVE  ContradictedClaim(w.claims[u], e) \in ClaimSet
  <2> DEFINE c == w.claims[u]
  <2>1. c \in ClaimSet
    BY <1>2
  <2>2. Weakened(c.confidence, r) \in 0..Full
    BY <2>1, <1>1, WeakenedRange DEF ClaimSet
  <2> QED
    BY <2>1, <2>2 DEF ContradictedClaim, ClaimSet, Statuses
<1> QED
  BY <1>2, <1>3, <1>4, <1>5 DEF MergedClaims

(***************************************************************************)
(* Worlds                                                                  *)
(***************************************************************************)
LEMMA LineType ==
    ASSUME NEW a \in Assets
    PROVE  Line(a) \subseteq Assets
<1>1. \A S \in SUBSET Assets : Parents(S) \in SUBSET Assets
  BY AssetAssumption DEF Parents
<1> QED
  BY <1>1 DEF Line

LEMMA CorrelateType ==
    ASSUME NEW w \in Worlds, NEW e \in Facts, NEW gated \in BOOLEAN
    PROVE  Correlate(w, e, gated) \in Worlds /\ Correlate(w, e, gated).claims = w.claims
<1>1. Chain(e) \subseteq Assets
  BY LineType, FactAssumption DEF Chain, Extras
<1>2. Marks(w, e, gated) \subseteq Assets
  BY <1>1 DEF Marks, Missing
<1>3. Aliased(w, e) \subseteq Assets
  BY DEF Aliased, OfKind, Present
<1>4. \A a \in Assets : CreatedStatus(w, a) \in Statuses \cup {"absent"}
  <2>1. \A a \in Assets : w.status[a] \in Statuses \cup {"absent"}
    BY DEF Worlds
  <2> QED
    BY <2>1 DEF CreatedStatus, Statuses, Present
<1> QED
  BY <1>2, <1>3, <1>4 DEF Correlate, Worlds

LEMMA MergeClaimType ==
    ASSUME NEW w \in Worlds, NEW e \in Facts
    PROVE  MergeClaim(w, e) \in Worlds /\ MergeClaim(w, e).claims = MergedClaims(w, e)
<1>1. MergedClaims(w, e) \in [Triples -> ClaimSet]
  BY MergedClaimsType
<1>2. Shown(w, e) \in [Assets -> Objects \cup {NoValue}]
  <2>1. w.value \in [Assets -> Objects \cup {NoValue}] /\ Fact[e].object \in Objects
    BY DEF Worlds, Objects
  <2> QED
    BY <2>1 DEF Shown
<1>3. ASSUME NEW a, NEW st \in Statuses
      PROVE  [w.status EXCEPT ![a] = MaxStatus(@, st)] \in [Assets -> Statuses \cup {"absent"}]
  <2>1. w.status \in [Assets -> Statuses \cup {"absent"}]
    BY DEF Worlds
  <2> QED
    BY <2>1 DEF MaxStatus
<1>4. MergedClaims(w, e)[Triple(e)].status \in Statuses
  BY <1>1, TripleType DEF ClaimSet
<1> DEFINE claims == MergedClaims(w, e)
           shown  == Shown(w, e)
           st     == claims[Triple(e)].status
           status == IF st = "invalidated" THEN w.status
                     ELSE [w.status EXCEPT ![Fact[e].subject] = MaxStatus(@, st)]
<1>5. status \in [Assets -> Statuses \cup {"absent"}]
  BY <1>3, <1>4 DEF Worlds
<1>6. MergeClaim(w, e) = [w EXCEPT !.claims = claims, !.value = shown, !.status = status]
  BY DEF MergeClaim
<1> HIDE DEF claims, shown, status
<1>7. claims \in [Triples -> ClaimSet] /\ shown \in [Assets -> Objects \cup {NoValue}]
  BY <1>1, <1>2 DEF claims, shown
<1>8. MergeClaim(w, e) \in Worlds /\ MergeClaim(w, e).claims = claims
  BY <1>5, <1>6, <1>7 DEF Worlds
<1> QED
  BY <1>8 DEF claims

LEMMA EvidenceType ==
    ASSUME NEW w \in Worlds, NEW a
    PROVE  EvidenceFor(w, a) \subseteq LiveEvidence(w) /\ LiveEvidence(w) \subseteq Facts
<1>1. \A t \in Triples : w.claims[t].evidence \subseteq Facts
  BY DEF Worlds, ClaimSet
<1>2. \A b : EvidenceOn(w, b) \subseteq LiveEvidence(w)
  BY DEF EvidenceOn, LiveEvidence
<1>3. LiveEvidence(w) \subseteq Facts
  BY <1>1 DEF LiveEvidence
<1> QED
  BY <1>2, <1>3 DEF EvidenceFor

LEMMA LeadAfterType ==
    ASSUME NEW w \in Worlds, NEW l \in Leads
    PROVE  LeadAfter(w, l) \in LeadSet
<1>1. w.leads[l] \in LeadSet
  BY DEF Worlds
<1>2. EvidenceFor(w, l[1]) \subseteq Facts
  BY EvidenceType
<1>3. SeenAgain(w.leads[l], EvidenceFor(w, l[1])) \in LeadSet
  <2>1. \A held : Taken(held, EvidenceFor(w, l[1])) \subseteq Facts
    BY <1>2 DEF Taken
  <2> QED BY <1>1, <2>1 DEF SeenAgain, LeadSet
<1> QED
  BY <1>1, <1>3 DEF LeadAfter, LeadSet

\* What two worlds must have in common for the same questions and findings
SameBeliefs(w, v) == /\ v.claims = w.claims /\ v.status = w.status /\ v.value = w.value
                     /\ v.barred = w.barred /\ v.alias = w.alias

\* A revision touches questions and findings only (world/model.py _finalize_revision).
LEMMA FinalizedType ==
    ASSUME NEW w \in Worlds
    PROVE  /\ Finalized(w) \in Worlds
           /\ SameBeliefs(w, Finalized(w))
           /\ Finalized(w).ideas = w.ideas
           /\ Finalized(w).applied = w.applied
           /\ Finalized(w).gaps = [q \in Questions |->
                 IF q \in Desired(w) THEN "open"
                 ELSE IF w.gaps[q] = "never" THEN "never" ELSE "closed"]
           /\ Finalized(w).leads = [l \in Leads |-> LeadAfter(w, l)]
<1> DEFINE gaps == [q \in Questions |->
                 IF q \in Desired(w) THEN "open"
                 ELSE IF w.gaps[q] = "never" THEN "never" ELSE "closed"]
           leads == [l \in Leads |-> LeadAfter(w, l)]
<1>1. leads \in [Leads -> LeadSet]
  BY LeadAfterType
<1>2. gaps \in [Questions -> {"never", "open", "closed"}]
  OBVIOUS
<1>3. Asked(w) = [w EXCEPT !.gaps = gaps]
  BY DEF Asked
<1>4. Finalized(w) = [[w EXCEPT !.gaps = gaps] EXCEPT !.leads = leads]
  BY <1>3 DEF Finalized
<1> HIDE DEF gaps, leads
<1>5. Finalized(w) \in Worlds /\ Finalized(w).gaps = gaps /\ Finalized(w).leads = leads
  BY <1>1, <1>2, <1>4 DEF Worlds
<1>6. SameBeliefs(w, Finalized(w)) /\ Finalized(w).ideas = w.ideas /\ Finalized(w).applied = w.applied
  BY <1>4 DEF Worlds, SameBeliefs
<1> QED
  BY <1>5, <1>6 DEF gaps, leads

LEMMA DesiredInQuestions ==
    ASSUME NEW w
    PROVE  Desired(w) \subseteq Questions
<1>1. \A k : OfKind(w, k) \subseteq Assets
  BY DEF OfKind, Present
<1>2. AskedHosts(w) \subseteq Assets /\ AskedServices(w) \subseteq Assets
  BY <1>1 DEF AskedHosts, AskedServices
<1>3. /\ Unresolved(w) \subseteq Assets
      /\ PortsUnknown(w) \subseteq Assets
      /\ ServiceUnknown(w) \subseteq Assets
      /\ Unprobed(w) \subseteq Assets
      /\ DirectoriesUnknown(w) \subseteq Assets
      /\ TechUnknown(w) \subseteq Assets
      /\ SubdomainsUnknown(w) \subseteq Assets
      /\ ParamsUnknown(w) \subseteq Assets
  BY <1>1, <1>2 DEF Unresolved, PortsUnknown, ServiceUnknown, Unprobed, DirectoriesUnknown,
     TechUnknown, SubdomainsUnknown, ParamsUnknown
<1> QED
  BY <1>3 DEF Desired, Questions, GapKinds

\* Questions and findings are functions of the beliefs alone (world/gaps.py recompute,
\* world/findings.py collect_findings).
LEMMA SameQuestions ==
    ASSUME NEW w, NEW v, SameBeliefs(w, v)
    PROVE  Desired(v) = Desired(w)
<1> USE DEF SameBeliefs
<1>1. \A k : OfKind(v, k) = OfKind(w, k)
  BY DEF OfKind, Present
<1>2. \A a, k : Children(v, a, k) = Children(w, a, k)
  BY <1>1 DEF Children
<1>3. \A a, p : HasClaim(v, a, p) <=> HasClaim(w, a, p)
  BY DEF HasClaim
<1>4. AskedHosts(v) = AskedHosts(w) /\ AskedServices(v) = AskedServices(w)
  BY <1>1 DEF AskedHosts, AskedServices
<1>5. Unresolved(v) = Unresolved(w)
  BY <1>3, <1>4 DEF Unresolved
<1>6. PortsUnknown(v) = PortsUnknown(w)
  BY <1>1, <1>2, <1>3, <1>4 DEF PortsUnknown, SpeaksForHost
<1>7. ServiceUnknown(v) = ServiceUnknown(w)
  BY <1>1, <1>2, <1>3 DEF ServiceUnknown
<1>8. Unprobed(v) = Unprobed(w)
  BY <1>1, <1>3, <1>4 DEF Unprobed
<1>9. DirectoriesUnknown(v) = DirectoriesUnknown(w)
  BY <1>2, <1>4 DEF DirectoriesUnknown
<1>10. TechUnknown(v) = TechUnknown(w)
  BY <1>1, <1>2, <1>3 DEF TechUnknown
<1>11. SubdomainsUnknown(v) = SubdomainsUnknown(w)
  BY <1>1, <1>2, <1>3 DEF SubdomainsUnknown
<1>12. ParamsUnknown(v) = ParamsUnknown(w)
  BY <1>1, <1>2, <1>3 DEF ParamsUnknown
<1> QED
  BY <1>5, <1>6, <1>7, <1>8, <1>9, <1>10, <1>11, <1>12 DEF Desired

LEMMA SameReports ==
    ASSUME NEW w, NEW v, SameBeliefs(w, v)
    PROVE  /\ LiveEvidence(v) = LiveEvidence(w)
           /\ Reported(v) = Reported(w)
<1> USE DEF SameBeliefs
<1>1. LiveEvidence(v) = LiveEvidence(w)
  BY DEF LiveEvidence
<1>2. \A a : EvidenceOn(v, a) = EvidenceOn(w, a)
  BY DEF EvidenceOn
<1>3. \A a : EvidenceFor(v, a) = EvidenceFor(w, a)
  BY <1>2 DEF EvidenceFor
<1>4. \A a : UrlSignals(v, a) = UrlSignals(w, a)
  BY DEF UrlSignals
<1>5. \A a : SignalsOf(v, a) = SignalsOf(w, a)
  BY <1>4 DEF SignalsOf
<1>6. \A l : IsReported(v, l) <=> IsReported(w, l)
  BY <1>3, <1>5 DEF IsReported
<1> QED
  BY <1>1, <1>6 DEF Reported

(***************************************************************************)
(* What is true of every world that has been revised                       *)
(***************************************************************************)
GapsCurrent(w) == {q \in Questions : w.gaps[q] = "open"} = Desired(w)
Grounded(w) ==
    /\ \A l \in Leads : w.leads[l].status = "open" =>
           w.leads[l].evidence \cap LiveEvidence(w) # {}
    /\ \A l \in Reported(w) :
           \/ w.leads[l].status = "open"
           \/ ~HasRoom(w.leads[l].evidence) /\ w.leads[l].evidence \cap LiveEvidence(w) = {}

\* A finding with room takes in a row it is shown and does not hold: the first in order.
LEMMA RoomIsUsed ==
    ASSUME NEW held, HasRoom(held), NEW E, E \subseteq Facts, Taken(held, E) = {}
    PROVE  E \subseteq held
<1> SUFFICES ASSUME E \ held # {} PROVE FALSE
  OBVIOUS
<1> DEFINE N == {RowOrder[e] : e \in E \ held}
<1>1. N \subseteq Nat /\ N # {}
  BY OrderAssumption
<1>2. PICK n \in N : \A m \in N : n <= m
  <2> HIDE DEF N
  <2> QED BY <1>1, LeastElement
<1>3. PICK e \in E \ held : n = RowOrder[e]
  BY <1>2
<1>4. {d \in E : RowOrder[d] < RowOrder[e]} \subseteq held
  BY <1>2, <1>3, OrderAssumption
<1>5. held \cup {d \in E : RowOrder[d] < RowOrder[e]} = held
  BY <1>4
<1>6. e \in Taken(held, E)
  BY <1>3, <1>5 DEF Taken
<1> QED BY <1>6

LEMMA FinalizedIsCurrent ==
    ASSUME NEW w \in Worlds
    PROVE  GapsCurrent(Finalized(w))
<1>1. Desired(Finalized(w)) = Desired(w) /\ Desired(w) \subseteq Questions
  BY FinalizedType, SameQuestions, DesiredInQuestions
<1>2. \A q \in Questions : Finalized(w).gaps[q] = "open" <=> q \in Desired(w)
  BY FinalizedType
<1> QED
  BY <1>1, <1>2 DEF GapsCurrent

LEMMA FinalizedIsGrounded ==
    ASSUME NEW w \in Worlds
    PROVE  Grounded(Finalized(w))
<1> DEFINE v == Finalized(w)
<1>1. LiveEvidence(v) = LiveEvidence(w) /\ Reported(v) = Reported(w)
  BY FinalizedType, SameReports
<1>2. \A l \in Leads : v.leads[l] = LeadAfter(w, l)
  BY FinalizedType
<1> HIDE DEF v
<1>3. ASSUME NEW l \in Leads, v.leads[l].status = "open"
      PROVE  v.leads[l].evidence \cap LiveEvidence(v) # {}
  <2> DEFINE lead == IF IsReported(w, l) THEN SeenAgain(w.leads[l], EvidenceFor(w, l[1]))
                     ELSE w.leads[l]
  <2>1. LeadAfter(w, l) = IF Stale(w, lead)
                          THEN [status |-> "invalidated", evidence |-> lead.evidence,
                                seen |-> lead.seen, checked |-> lead.checked]
                          ELSE lead
    BY DEF LeadAfter
  <2> HIDE DEF lead
  <2>2. ~Stale(w, lead) /\ v.leads[l] = lead
    BY <1>2, <1>3, <2>1
  <2> QED
    BY <1>1, <1>3, <2>2 DEF Stale
<1>4. ASSUME NEW l \in Reported(v)
      PROVE  \/ v.leads[l].status = "open"
             \/ /\ ~HasRoom(v.leads[l].evidence)
                /\ v.leads[l].evidence \cap LiveEvidence(v) = {}
  <2> DEFINE E == EvidenceFor(w, l[1])
             held == IF w.leads[l].status = "open" THEN w.leads[l].evidence ELSE {}
             lead == SeenAgain(w.leads[l], E)
  <2>1. l \in Leads /\ IsReported(w, l)
    BY <1>1, <1>4 DEF Reported
  <2>2. E # {} /\ E \subseteq LiveEvidence(w) /\ E \subseteq Facts
    BY <2>1, EvidenceType DEF IsReported
  <2>3. /\ lead.status = "open" /\ lead.evidence = held \cup Taken(held, E)
        /\ Taken(held, E) \subseteq E
    BY DEF SeenAgain, Taken
  <2>4. v.leads[l] = IF Stale(w, lead)
                     THEN [status |-> "invalidated", evidence |-> lead.evidence,
                           seen |-> lead.seen, checked |-> lead.checked]
                     ELSE lead
    BY <1>2, <2>1 DEF LeadAfter
  <2> HIDE DEF lead, held, E
  <2>5. CASE HasRoom(held)
    <3>1. Taken(held, E) # {} \/ E \subseteq held
      BY <2>2, <2>5, RoomIsUsed
    <3>2. lead.evidence \cap LiveEvidence(w) # {}
      BY <2>2, <2>3, <3>1
    <3> QED BY <2>3, <2>4, <3>2 DEF Stale
  <2>6. CASE ~HasRoom(held)
    <3>1. CASE Taken(held, E) = {}
      BY <1>1, <2>3, <2>4, <2>6, <3>1 DEF Stale
    <3>2. CASE Taken(held, E) # {}
      <4>1. lead.evidence \cap LiveEvidence(w) # {}
        BY <2>2, <2>3, <3>2
      <4> QED BY <2>3, <2>4, <4>1 DEF Stale
    <3> QED BY <3>1, <3>2
  <2> QED BY <2>5, <2>6
<1> QED
  BY <1>3, <1>4 DEF Grounded, v

Revised(w) == GapsCurrent(w) /\ Grounded(w)

(***************************************************************************)
(* What is true of every world: types; a triple without evidence is        *)
(* unclaimed; rivals list each other's evidence; advice stays under its    *)
(* cap.                                                                    *)
(***************************************************************************)
Unclaimed(w) == \A t \in Triples : ~Exists(w.claims[t]) => w.claims[t] = NoClaim
RivalsLinked(w) ==
    \A t \in Triples : \A u \in Rivals(t) :
        (Exists(w.claims[t]) /\ Exists(w.claims[u]))
            => w.claims[t].contra \cap w.claims[u].evidence # {}
Capped(w) == \A s \in Statements : w.ideas[s].source = "ai" => w.ideas[s].confidence <= Cap
WorldInv(w) == w \in Worlds /\ Unclaimed(w) /\ RivalsLinked(w) /\ Capped(w)

\* Evidence of a claim is only added to, and only the row in hand to the claim it is about.
LEMMA MergedClaimsGrow ==
    ASSUME NEW w \in Worlds, NEW e \in Facts, Unclaimed(w)
    PROVE  /\ \A t \in Triples : /\ w.claims[t].evidence \subseteq MergedClaims(w, e)[t].evidence
                                 /\ w.claims[t].contra \subseteq MergedClaims(w, e)[t].contra
           /\ \A t \in Triples \ {Triple(e)} :
                 MergedClaims(w, e)[t].evidence = w.claims[t].evidence
           /\ e \in MergedClaims(w, e)[Triple(e)].evidence
<1> DEFINE D == MergedClaims(w, e)
           o == Triple(e)
<1>1. o \in Triples
  BY TripleType
<1>2. \A t \in Triples : D[t] = IF t = o
            THEN IF Exists(w.claims[o]) THEN SupportedClaim(w, e) ELSE NewClaim(w, e)
            ELSE IF t \in Rivals(o) /\ ~Exists(w.claims[o]) /\ Exists(w.claims[t])
            THEN ContradictedClaim(w.claims[t], e)
            ELSE w.claims[t]
  BY DEF MergedClaims
<1> HIDE DEF D
<1>3. /\ w.claims[o].evidence \subseteq D[o].evidence
      /\ w.claims[o].contra \subseteq D[o].contra
      /\ e \in D[o].evidence
  <2>1. CASE Exists(w.claims[o])
    <3>1. D[o] = SupportedClaim(w, e)
      BY <1>1, <1>2, <2>1
    <3>2. /\ SupportedClaim(w, e).evidence = w.claims[o].evidence \cup {e}
          /\ SupportedClaim(w, e).contra = w.claims[o].contra
      BY DEF SupportedClaim
    <3> QED
      BY <3>1, <3>2
  <2>2. CASE ~Exists(w.claims[o])
    <3>1. w.claims[o] = NoClaim
      BY <1>1, <2>2 DEF Unclaimed
    <3>2. D[o] = NewClaim(w, e)
      BY <1>1, <1>2, <2>2
    <3> QED
      BY <3>1, <3>2 DEF NewClaim, NoClaim
  <2> QED
    BY <2>1, <2>2
<1>4. ASSUME NEW t \in Triples, t # o
      PROVE  D[t].evidence = w.claims[t].evidence /\ w.claims[t].contra \subseteq D[t].contra
  <2>1. w.claims[t] \in ClaimSet
    BY DEF Worlds
  <2>2. /\ ContradictedClaim(w.claims[t], e).evidence = w.claims[t].evidence
        /\ w.claims[t].contra \subseteq ContradictedClaim(w.claims[t], e).contra
    BY <2>1 DEF ContradictedClaim, ClaimSet
  <2> QED
    BY <1>2, <1>4, <2>2
<1> QED
  BY <1>3, <1>4 DEF D

LEMMA MergedClaimsInv ==
    ASSUME NEW w \in Worlds, NEW e \in Facts, WorldInv(w)
    PROVE  WorldInv(MergeClaim(w, e))
<1> DEFINE C == w.claims
           v == MergeClaim(w, e)
           D == v.claims
           o == Triple(e)
<1>1. v \in Worlds /\ D = MergedClaims(w, e) /\ o \in Triples
  BY MergeClaimType, TripleType
<1>2. /\ \A t \in Triples : C[t].evidence \subseteq D[t].evidence /\ C[t].contra \subseteq D[t].contra
      /\ \A t \in Triples \ {o} : D[t].evidence = C[t].evidence
      /\ e \in D[o].evidence
  BY <1>1, MergedClaimsGrow DEF WorldInv
<1>3. v.ideas = w.ideas
  BY DEF MergeClaim, Worlds
<1>4. ASSUME NEW t \in Triples
      PROVE  D[t] = IF t = o
            THEN IF Exists(C[o]) THEN SupportedClaim(w, e) ELSE NewClaim(w, e)
            ELSE IF t \in Rivals(o) /\ ~Exists(C[o]) /\ Exists(C[t])
            THEN ContradictedClaim(C[t], e)
            ELSE C[t]
  BY <1>1 DEF MergedClaims
<1> HIDE DEF v
<1>5. Unclaimed(v)
  <2> SUFFICES ASSUME NEW t \in Triples, D[t].evidence = {}
               PROVE  D[t] = NoClaim
    BY DEF Unclaimed, Exists
  <2>1. t # o /\ C[t].evidence = {}
    BY <1>1, <1>2
  <2> QED
    BY <1>4, <2>1 DEF WorldInv, Unclaimed, Exists
<1>6. RivalsLinked(v)
  <2> SUFFICES ASSUME NEW t \in Triples, NEW u \in Rivals(t), Exists(D[t]), Exists(D[u])
               PROVE  D[t].contra \cap D[u].evidence # {}
    BY DEF RivalsLinked
  <2>0. u \in Triples /\ u # t /\ t \in Rivals(u)
    BY RivalsAreMutual
  <2>1. CASE Exists(C[t]) /\ Exists(C[u])
    <3>1. C[t].contra \cap C[u].evidence # {}
      BY <2>1 DEF WorldInv, RivalsLinked
    <3> QED
      BY <1>2, <2>0, <3>1
  <2>2. CASE ~Exists(C[t])
    <3>1. t = o
      BY <1>2, <2>2 DEF Exists
    <3>2. D[t] = NewClaim(w, e)
      BY <1>4, <2>2, <3>1
    <3>3. C[u].evidence \subseteq D[t].contra
      BY <3>1, <3>2 DEF NewClaim
    <3>4. D[u].evidence = C[u].evidence /\ D[u].evidence # {}
      BY <1>2, <2>0, <3>1 DEF Exists
    <3> QED
      BY <3>3, <3>4
  <2>3. CASE Exists(C[t]) /\ ~Exists(C[u])
    <3>1. u = o
      BY <1>2, <2>0, <2>3 DEF Exists
    <3>2. D[t] = ContradictedClaim(C[t], e)
      BY <1>4, <2>0, <2>3, <3>1
    <3>3. e \in D[t].contra
      <4>1. C[t] \in ClaimSet
        BY DEF Worlds
      <4> QED
        BY <3>2, <4>1 DEF ContradictedClaim, ClaimSet
    <3> QED
      BY <1>2, <3>1, <3>3
  <2> QED
    BY <2>1, <2>2, <2>3
<1> QED
  BY <1>1, <1>3, <1>5, <1>6 DEF WorldInv, Capped, v

\* A revision, an outcome and what correlation adds leave claims and hypotheses alone.
LEMMA SameClaimsInv ==
    ASSUME NEW w \in Worlds, NEW v \in Worlds, WorldInv(w), v.claims = w.claims, v.ideas = w.ideas
    PROVE  WorldInv(v)
BY DEF WorldInv, Unclaimed, RivalsLinked, Capped

LEMMA FinalizedInv ==
    ASSUME NEW w \in Worlds, WorldInv(w)
    PROVE  WorldInv(Finalized(w)) /\ Revised(Finalized(w)) /\ Finalized(w).claims = w.claims
<1>1. Finalized(w) \in Worlds /\ Finalized(w).claims = w.claims /\ Finalized(w).ideas = w.ideas
  BY FinalizedType DEF SameBeliefs
<1> QED
  BY <1>1, SameClaimsInv, FinalizedIsCurrent, FinalizedIsGrounded DEF Revised

\* A row of evidence (world/model.py apply_evidence).
LEMMA LearnInv ==
    ASSUME NEW w \in Worlds, NEW e \in Facts, NEW gated \in BOOLEAN, WorldInv(w)
    PROVE  /\ WorldInv(Learn(w, e, gated))
           /\ Revised(w) => Revised(Learn(w, e, gated))
           /\ \/ Learn(w, e, gated).claims = w.claims
              \/ Learn(w, e, gated).claims = MergedClaims(w, e)
<1> DEFINE seen == [w EXCEPT !.applied = @ \cup {e}]
           there == Correlate(seen, e, gated)
<1>1. CASE e \in w.applied
  BY <1>1 DEF Learn
<1>2. CASE e \notin w.applied
  <2>1. seen \in Worlds /\ seen.claims = w.claims /\ seen.ideas = w.ideas
    BY DEF Worlds
  <2>2. WorldInv(seen)
    BY <2>1, SameClaimsInv
  <2> HIDE DEF seen
  <2>3. CASE ~Fact[e].mapped
    <3>1. Learn(w, e, gated) = Finalized(seen)
      BY <1>2, <2>3 DEF Learn, seen
    <3> QED
      BY <2>1, <2>2, <3>1, FinalizedInv
  <2>4. CASE Fact[e].mapped
    <3>1. Learn(w, e, gated) = Finalized(MergeClaim(there, e))
      BY <1>2, <2>4 DEF Learn, seen
    <3>2. there \in Worlds /\ there.claims = w.claims /\ there.ideas = w.ideas
      <4>1. there.ideas = seen.ideas
        BY <2>1 DEF Correlate, Worlds
      <4> QED
        BY <2>1, <4>1, CorrelateType
    <3>3. WorldInv(there)
      BY <3>2, SameClaimsInv
    <3> HIDE DEF there
    <3>4. MergeClaim(there, e) \in Worlds /\ WorldInv(MergeClaim(there, e))
      BY <3>2, <3>3, MergeClaimType, MergedClaimsInv
    <3>5. MergeClaim(there, e).claims = MergedClaims(w, e)
      <4>1. MergeClaim(there, e).claims = MergedClaims(there, e)
        BY <3>2, MergeClaimType
      <4>2. MergedClaims(there, e) = MergedClaims(w, e)
        BY <3>2 DEF MergedClaims, SupportedClaim, NewClaim
      <4> QED
        BY <4>1, <4>2
    <3> QED
      BY <3>1, <3>4, <3>5, FinalizedInv
  <2> QED
    BY <2>3, <2>4
<1> QED
  BY <1>1, <1>2

\* The outcome of an action (world/model.py record_coverage).
LEMMA CoveredInv ==
    ASSUME NEW w \in Worlds, NEW k \in Keys, NEW st \in {"failed", "completed"}, WorldInv(w)
    PROVE  /\ WorldInv(Covered(w, k, st))
           /\ Revised(Covered(w, k, st))
           /\ Covered(w, k, st).claims = w.claims
<1> DEFINE v == [w EXCEPT !.coverage = [@ EXCEPT ![k] = st]]
<1>1. v \in Worlds /\ v.claims = w.claims /\ v.ideas = w.ideas
  BY DEF Worlds
<1>2. Covered(w, k, st) = Finalized(v)
  BY DEF Covered
<1> HIDE DEF v
<1> QED
  BY <1>1, <1>2, SameClaimsInv, FinalizedInv

LEMMA BlankInv == BlankWorld \in Worlds /\ WorldInv(BlankWorld)
<1>1. BlankWorld \in Worlds
  BY DEF BlankWorld, Worlds, NoClaim, ClaimSet, NoLead, LeadSet, NoIdea, IdeaSet, Statuses, Full
<1>2. Unclaimed(BlankWorld) /\ RivalsLinked(BlankWorld)
  BY RivalsAreMutual DEF BlankWorld, Unclaimed, RivalsLinked, Exists, NoClaim
<1>3. Capped(BlankWorld)
  BY DEF BlankWorld, Capped, NoIdea, Cap
<1> QED
  BY <1>1, <1>2, <1>3 DEF WorldInv

LEMMA SeededInv == SeededWorld \in Worlds /\ WorldInv(SeededWorld) /\ Revised(SeededWorld)
<1> DEFINE st == [a \in Assets |-> IF a \in Seeds THEN "known" ELSE "absent"]
           v == [BlankWorld EXCEPT !.status = st]
<1>1. st \in [Assets -> Statuses \cup {"absent"}]
  BY DEF Statuses
<1>2. v \in Worlds /\ v.claims = BlankWorld.claims /\ v.ideas = BlankWorld.ideas
  BY <1>1, BlankInv DEF Worlds
<1>3. SeededWorld = Finalized(v)
  BY DEF SeededWorld
<1> HIDE DEF v
<1> QED
  BY <1>2, <1>3, BlankInv, SameClaimsInv, FinalizedInv DEF WorldInv

(***************************************************************************)
(* Deliberation                                                            *)
(***************************************************************************)
LEMMA SyncedType ==
    ASSUME NEW w \in Worlds
    PROVE  /\ Synced(w) \in Worlds
           /\ SameBeliefs(w, Synced(w))
           /\ Synced(w).gaps = w.gaps
           /\ Synced(w).ideas = w.ideas
           /\ \A l \in Leads : /\ Synced(w).leads[l].status = w.leads[l].status
                               /\ Synced(w).leads[l].evidence = w.leads[l].evidence
<1> DEFINE leads == [l \in Leads |->
        IF Verdict(w, l) \in {"supported", "inconclusive"} /\ w.leads[l].checked < w.leads[l].seen
        THEN [w.leads[l] EXCEPT !.checked = w.leads[l].seen] ELSE w.leads[l]]
<1>1. \A l \in Leads : w.leads[l] \in LeadSet
  BY DEF Worlds
<1>2. ASSUME NEW l \in Leads
      PROVE  /\ leads[l] \in LeadSet
             /\ leads[l].status = w.leads[l].status
             /\ leads[l].evidence = w.leads[l].evidence
  <2>1. /\ [w.leads[l] EXCEPT !.checked = w.leads[l].seen] \in LeadSet
        /\ [w.leads[l] EXCEPT !.checked = w.leads[l].seen].status = w.leads[l].status
        /\ [w.leads[l] EXCEPT !.checked = w.leads[l].seen].evidence = w.leads[l].evidence
    BY <1>1 DEF LeadSet
  <2> QED
    BY <1>1, <2>1
<1>3. leads \in [Leads -> LeadSet]
  BY <1>2
<1>4. Synced(w) = [w EXCEPT !.leads = leads]
  BY DEF Synced
<1> HIDE DEF leads
<1>5. Synced(w) \in Worlds /\ Synced(w).leads = leads
  BY <1>3, <1>4 DEF Worlds
<1>6. SameBeliefs(w, Synced(w)) /\ Synced(w).gaps = w.gaps /\ Synced(w).ideas = w.ideas
  BY <1>4 DEF Worlds, SameBeliefs
<1> QED
  BY <1>2, <1>5, <1>6

LEMMA SupportedType ==
    ASSUME NEW idea \in IdeaSet, NEW n \in Nat
    PROVE  /\ Supported(idea, n) \in 0..Full
           /\ idea.source = "ai" => Supported(idea, n) <= Cap
BY DEF Supported, IdeaSet, Full, Cap

LEMMA ChoicesAreFinite ==
    ASSUME NEW w, NEW f \in Choices(w), NEW s
    PROVE  Cardinality({l \in DOMAIN f : f[l] = s}) \in Nat
<1>1. IsFiniteSet(Leads)
  BY FiniteAssumption, FS_Product DEF Leads
<1>2. {l \in DOMAIN f : f[l] = s} \subseteq Leads
  BY DEF Choices, Supporting
<1> QED
  BY <1>1, <1>2, FS_Subset, FS_CardinalityType

\* A hypothesis after one round, whatever was proposed and supported
\* (engine/hypotheses.py apply_hypothesis_deltas).
LEMMA IdeaAfterType ==
    ASSUME NEW w \in Worlds, NEW f \in Choices(w), NEW D \in SUBSET Drafts, NEW s \in Statements,
           w.ideas[s].source = "ai" => w.ideas[s].confidence <= Cap
    PROVE  /\ IdeaAfter(w, f, D, s) \in IdeaSet
           /\ IdeaAfter(w, f, D, s).source = "ai" => IdeaAfter(w, f, D, s).confidence <= Cap
<1> DEFINE old == w.ideas[s]
           n == Cardinality({l \in DOMAIN f : f[l] = s})
           raised == [status     |-> IF old.status \in {"open", "supported"} /\ s \in GapKinds \ OpenKinds(w)
                                     THEN "retired"
                                     ELSE IF n > 0 THEN "supported" ELSE old.status,
                      confidence |-> Supported(old, n),
                      source     |-> old.source,
                      about      |-> old.about]
           opened == [status |-> "open", confidence |-> 30, source |-> "heuristic",
                      about |-> SubjectsOf(w, s)]
           drafts == {d \in Admitted(D) : d.statement = s}
           drafted == DraftIdea(CHOOSE d \in Admitted(D) : d.statement = s)
<1>1. old \in IdeaSet
  BY DEF Worlds
<1>2. n \in Nat
  BY ChoicesAreFinite
<1>3. opened \in IdeaSet /\ opened.source # "ai"
  <2>1. SubjectsOf(w, s) \subseteq Assets
    BY DEF SubjectsOf, Questions, Leads
  <2> QED
    BY <2>1 DEF IdeaSet, Full
<1>4. ASSUME \E d \in Admitted(D) : d.statement = s
      PROVE  drafted \in IdeaSet /\ drafted.confidence <= Cap
  <2> DEFINE d == CHOOSE x \in Admitted(D) : x.statement = s
  <2>1. d \in Drafts
    BY <1>4 DEF Admitted
  <2>2. d.confidence \in Nat /\ d.about \subseteq Assets
    BY <2>1, DraftAssumption
  <2> HIDE DEF d
  <2>3. DraftIdea(d) \in IdeaSet /\ DraftIdea(d).confidence <= Cap
    BY <2>2 DEF DraftIdea, IdeaSet, Cap, Full
  <2> QED
    BY <2>3 DEF d
<1>5. raised \in IdeaSet /\ (raised.source = "ai" => raised.confidence <= Cap)
  <2>1. Supported(old, n) \in 0..Full /\ (old.source = "ai" => Supported(old, n) <= Cap)
    BY <1>1, <1>2, SupportedType
  <2> HIDE DEF n
  <2> QED
    BY <1>1, <2>1 DEF IdeaSet
<1>6. IdeaAfter(w, f, D, s) = IF IsOpening(w, s) THEN opened
        ELSE IF old.status = "none"
        THEN IF \E d \in Admitted(D) : d.statement = s THEN drafted ELSE old
        ELSE raised
  BY DEF IdeaAfter
<1> HIDE DEF opened, drafted, raised, drafts, n
<1> QED
  BY <1>1, <1>3, <1>4, <1>5, <1>6

\* Deliberation keeps every belief, question and finding (engine/loop.py run_one_cycle).
LEMMA DeliberatedInv ==
    ASSUME NEW w \in Worlds, NEW f \in Choices(w), NEW D \in SUBSET Drafts, WorldInv(w), Revised(w)
    PROVE  /\ WorldInv(Deliberated(w, f, D))
           /\ Revised(Deliberated(w, f, D))
           /\ Deliberated(w, f, D).claims = w.claims
<1> DEFINE ideas == [s \in Statements |-> IdeaAfter(w, f, D, s)]
           v == Deliberated(w, f, D)
<1>1. \A s \in Statements : /\ ideas[s] \in IdeaSet
                            /\ ideas[s].source = "ai" => ideas[s].confidence <= Cap
  BY IdeaAfterType DEF WorldInv, Capped
<1>2. ideas \in [Statements -> IdeaSet]
  BY <1>1
<1>3. v = [Synced(w) EXCEPT !.ideas = ideas]
  BY DEF Deliberated
<1> HIDE DEF ideas, v
<1>4. v \in Worlds /\ v.ideas = ideas
  BY <1>2, <1>3, SyncedType DEF Worlds
<1>5. /\ v.claims = Synced(w).claims /\ v.status = Synced(w).status
      /\ v.value = Synced(w).value /\ v.barred = Synced(w).barred
      /\ v.alias = Synced(w).alias /\ v.gaps = Synced(w).gaps /\ v.leads = Synced(w).leads
  BY <1>3, SyncedType DEF Worlds
<1>6. SameBeliefs(w, v) /\ v.gaps = w.gaps
      /\ \A l \in Leads : /\ v.leads[l].status = w.leads[l].status
                          /\ v.leads[l].evidence = w.leads[l].evidence
  BY <1>5, SyncedType DEF SameBeliefs
<1>7. GapsCurrent(v)
  BY <1>6, SameQuestions DEF Revised, GapsCurrent
<1>8. Grounded(v)
  <2>1. LiveEvidence(v) = LiveEvidence(w) /\ Reported(v) = Reported(w)
    BY <1>6, SameReports
  <2>2. \A l \in Reported(w) : l \in Leads
    BY DEF Reported
  <2> QED
    BY <1>6, <2>1, <2>2 DEF Revised, Grounded
<1>9. WorldInv(v)
  <2>1. v.claims = w.claims
    BY <1>6 DEF SameBeliefs
  <2> QED
    BY <1>1, <1>4, <2>1 DEF WorldInv, Unclaimed, RivalsLinked, Capped
<1> QED
  BY <1>6, <1>7, <1>8, <1>9 DEF Revised, SameBeliefs, v
=================================================================================
