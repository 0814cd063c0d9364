------------------------------- MODULE Inquiry -------------------------------
(***************************************************************************)
(* What the program makes of its beliefs: the questions still open         *)
(* (world/gaps.py), the findings (world/findings.py, signals.py), what to  *)
(* do about a finding (validation/) and the hypotheses (brain/hypotheses.py*)
(* engine/hypotheses.py, ai/validate.py).  All of it is derived from a     *)
(* world and written back into it.                                         *)
(***************************************************************************)
EXTENDS Beliefs

CONSTANTS
    NameHosts,          \* hosts known by name only
    Spelled,            \* <<h, g>>: the text of g's key begins with the text of h's key
    SiteOf,             \* the port a URL's host and number say it is served from
    RootPages,          \* URLs whose path is "/"
    PathSignal,         \* signals.classify_path, a table
    PortSignal,         \* signals.classify_port, a table
    Probe, NoProbe,     \* mappings.build_action: the coverage key that validates a finding
    Expected,           \* _SIGNAL_MAP: the predicates that answer it
    TemplateSignals,    \* _SIGNAL_TEMPLATES: signals there is a hypothesis for
    Mentions,           \* <<statement, signal>>: the statement contains the signal's words
    Drafts,             \* what a provider may answer: statement, confidence, cites, about
    RowOrder,           \* the order in which the claims of a world list rows
    MaxEvidence         \* the rows a finding holds at most, 16

ASSUME FiniteAssumption == IsFiniteSet(Assets) /\ IsFiniteSet(Signals)
ASSUME DraftAssumption == \A d \in Drafts : d.confidence \in Nat /\ d.about \subseteq Assets

ASSUME OrderAssumption == RowOrder \in [Facts -> Nat] /\ MaxEvidence \in Nat \ {0}

HttpNames == {"http", "https"}

(***************************************************************************)
(* Knowledge gaps                                                          *)
(***************************************************************************)
HasClaim(w, a, p) == \E t \in Triples : t[1] = a /\ t[2] = p /\ Believed(w.claims[t])

\* A claim answers for a host if the text of its subject's key begins with the host's
SpeaksForHost(w, h, p) == \/ ParentOf[p] = h
                          \/ <<h, ParentOf[p]>> \in Spelled

AskedHosts(w) == (OfKind(w, "host") \ w.barred) \ w.alias

Unresolved(w) == {h \in AskedHosts(w) : h \in NameHosts /\ ~HasClaim(w, h, "host.address")}

PortsUnknown(w) ==
    {h \in AskedHosts(w) :
        /\ Children(w, h, "port") = {}
        /\ ~\E p \in OfKind(w, "port") :
               SpeaksForHost(w, h, p) /\ HasClaim(w, p, "port.state")}

ServiceUnknown(w) ==
    {p \in OfKind(w, "port") \ w.barred :
        /\ w.value[p] = "open"
        /\ \A s \in Children(w, p, "service") :
               w.value[s] = NoValue /\ ~HasClaim(w, s, "service.name")}

AskedServices(w) == {s \in OfKind(w, "service") \ w.barred : w.value[s] \in HttpNames}

\* Faulty variant: any URL of the host will do
UnprobedHost(w) ==
    {s \in AskedServices(w) :
        ~\E u \in Children(w, ParentOf[ParentOf[s]], "url") :
            HasClaim(w, u, "http.status") \/ HasClaim(w, u, "url.seen")}

Unprobed(w) ==
    {s \in AskedServices(w) :
        ~\E u \in OfKind(w, "url") :
            /\ SiteOf[u] = ParentOf[s]
            /\ HasClaim(w, u, "http.status") \/ HasClaim(w, u, "url.seen")}

DirectoriesUnknown(w) ==
    {s \in AskedServices(w) :
        Children(w, ParentOf[ParentOf[s]], "url") \ RootPages = {}}

TechUnknown(w) ==
    {u \in OfKind(w, "url") \ w.barred :
        /\ HasClaim(w, u, "http.status")
        /\ ~HasClaim(w, u, "http.tech")
        /\ Children(w, u, "technology") = {}}

SubdomainsUnknown(w) ==
    {d \in OfKind(w, "domain") \ w.barred :
        Children(w, d, "subdomain") = {} /\ ~HasClaim(w, d, "dns.subdomain")}

ParamsUnknown(w) ==
    {n \in OfKind(w, "endpoint") \ w.barred :
        Children(w, n, "parameter") = {} /\ ~HasClaim(w, n, "param.seen")}

\* GapDetector.recompute
Desired(w) ==
    ({"host.unresolved"} \X Unresolved(w))
    \cup ({"host.ports_unknown"} \X PortsUnknown(w))
    \cup ({"port.service_unknown"} \X ServiceUnknown(w))
    \cup ({"service.http_unprobed"} \X Unprobed(w))
    \cup ({"service.directories_unknown"} \X DirectoriesUnknown(w))
    \cup ({"url.tech_unknown"} \X TechUnknown(w))
    \cup ({"domain.subdomains_unknown"} \X SubdomainsUnknown(w))
    \cup ({"endpoint.params_unknown"} \X ParamsUnknown(w))

\* replace_gaps: a question once asked is kept, open or closed
Asked(w) ==
    LET desired == Desired(w)
    IN  [w EXCEPT !.gaps = [q \in Questions |->
            IF q \in desired THEN "open"
            ELSE IF w.gaps[q] = "never" THEN "never" ELSE "closed"]]

OpenKinds(w) == {q[1] : q \in {r \in Questions : w.gaps[r] = "open"}}

(***************************************************************************)
(* Findings                                                                *)
(***************************************************************************)
LiveEvidence(w)  == UNION {w.claims[t].evidence : t \in {u \in Triples : IsLive(w.claims[u])}}
EvidenceOn(w, a) == UNION {w.claims[t].evidence :
                              t \in {u \in Triples : u[1] = a /\ IsLive(w.claims[u])}}

\* A surface or a technology without evidence of its own is shown on its parent's
EvidenceFor(w, a) ==
    IF EvidenceOn(w, a) = {} /\ KindOf[a] \in {"auth_surface", "technology"}
       /\ ParentOf[a] # NoAsset
    THEN EvidenceOn(w, ParentOf[a]) ELSE EvidenceOn(w, a)

\* the signals of a URL: by the class of its status, and by its path unless it is gone
UrlSignals(w, u) ==
    (IF w.value[u] = "error" THEN {"unusual_status"} ELSE {})
    \cup (IF w.value[u] = "redirect" THEN {"unusual_redirect"} ELSE {})
    \cup (IF w.value[u] = "missing" THEN {} ELSE {PathSignal[u]})

SignalsOf(w, a) ==
    IF KindOf[a] = "port" /\ w.value[a] = "open"
    THEN IF a \in w.barred THEN {"out_of_scope"} ELSE {PortSignal[a]}
    ELSE IF a \in w.barred THEN {}
    ELSE IF KindOf[a] = "auth_surface" THEN {"auth_surface"}
    ELSE IF KindOf[a] = "url" THEN UrlSignals(w, a)
    ELSE IF KindOf[a] = "endpoint" THEN {PathSignal[a]}
    ELSE IF KindOf[a] = "technology" THEN {"tech_observed"}
    ELSE {}

\* the findings collect_findings calls add() for, where add() has evidence to go by
IsReported(w, l) == /\ w.status[l[1]] \in Live
                    /\ l[2] \in SignalsOf(w, l[1]) \ {NoSignal}
                    /\ EvidenceFor(w, l[1]) # {}
Reported(w) == {l \in Leads : IsReported(w, l)}

\* add(): the rows of E that a finding takes in beside those it holds.  Its list is cut
\* at MaxEvidence, and a new row stands behind those held and those before it in E.
HasRoom(rows) == Cardinality(rows) < MaxEvidence
Taken(held, E) == {e \in E \ held : HasRoom(held \cup {d \in E : RowOrder[d] < RowOrder[e]})}

\* an open finding is seen again only if it takes in a row it does not have
SeenAgain(lead, E) ==
    LET held == IF lead.status = "open" THEN lead.evidence ELSE {}
        taken == Taken(held, E)
    IN  IF lead.status # "open"
        THEN [status |-> "open", evidence |-> taken, seen |-> 1, checked |-> 0]
        ELSE IF taken = {} THEN lead
        ELSE [status |-> "open", evidence |-> held \cup taken, seen |-> lead.seen + 1,
              checked |-> lead.checked]

\* Faulty variant: a finding goes stale only when nothing at all is claimed by its evidence
Unsupported(w, lead) ==
    lead.status = "open" /\ lead.evidence \cap UNION {w.claims[t].evidence : t \in Triples} = {}

\* invalidate_stale_findings
Stale(w, lead) == lead.status = "open" /\ lead.evidence \cap LiveEvidence(w) = {}

LeadAfter(w, l) ==
    LET lead == IF IsReported(w, l) THEN SeenAgain(w.leads[l], EvidenceFor(w, l[1]))
                ELSE w.leads[l]
    IN  IF Stale(w, lead)
        THEN [status |-> "invalidated", evidence |-> lead.evidence,
              seen |-> lead.seen, checked |-> lead.checked]
        ELSE lead

\* _finalize_revision: after every change of the world
Finalized(w) ==
    [Asked(w) EXCEPT !.leads = [l \in Leads |-> LeadAfter(w, l)]]

SeededWorld ==
    Finalized([BlankWorld EXCEPT
        !.status = [a \in Assets |-> IF a \in Seeds THEN "known" ELSE "absent"]])

\* Faulty variant: questions and findings are revised before the row is merged
LearnLate(w, e, gated) ==
    IF e \in w.applied THEN w
    ELSE LET seen == Finalized([w EXCEPT !.applied = @ \cup {e}])
         IN  IF Fact[e].mapped THEN MergeClaim(Correlate(seen, e, gated), e) ELSE seen

\* _apply_evidence_unlocked: a row is applied once; a row no predicate is known for is
\* kept and says nothing
Learn(w, e, gated) ==
    IF e \in w.applied THEN w
    ELSE LET seen == [w EXCEPT !.applied = @ \cup {e}]
         IN  IF Fact[e].mapped
             THEN Finalized(MergeClaim(Correlate(seen, e, gated), e))
             ELSE Finalized(seen)

Covered(w, k, status) == Finalized([w EXCEPT !.coverage = [@ EXCEPT ![k] = status]])

--------------------------------------------------------------------------------
(***************************************************************************)
(* Validation: what is known already about the action a finding calls for  *)
(***************************************************************************)
\* ValidationEngine.evaluate over one finding.  A claim of any subject may answer it.
Answered(w, signal) == \E t \in Triples : IsLive(w.claims[t]) /\ t[2] \in Expected[signal]

Mapped(w, l) == l[2] # "out_of_scope" /\ l[1] \notin w.barred /\ Probe[l] # NoProbe

Verdict(w, l) ==
    LET lead == w.leads[l]
    IN  IF lead.status = "none" THEN "none"
        ELSE IF lead.status = "invalidated" THEN "expired"
        ELSE IF ~Mapped(w, l) THEN "rejected"
        ELSE IF w.coverage[Probe[l]] = "none"
        THEN IF l[2] = "auth_surface" /\ Answered(w, l[2]) THEN "supported" ELSE "proposed"
        ELSE IF Answered(w, l[2]) THEN "supported"
        ELSE IF lead.checked > 0 /\ lead.seen > lead.checked THEN "proposed"
        ELSE "inconclusive"

\* sync_findings: a finding with an answer is as often checked as it was seen
Synced(w) ==
    [w EXCEPT !.leads = [l \in Leads |->
        IF Verdict(w, l) \in {"supported", "inconclusive"} /\ w.leads[l].checked < w.leads[l].seen
        THEN [w.leads[l] EXCEPT !.checked = w.leads[l].seen] ELSE w.leads[l]]]

(***************************************************************************)
(* Hypotheses.  One statement stands for all hypotheses with that core     *)
(* statement: apply_hypothesis_deltas keeps one of each.                   *)
(***************************************************************************)
NoStatement == "none"

\* what an open question or a finding of this kind is about
SubjectsOf(w, s) == {q[2] : q \in {r \in Questions : r[1] = s /\ w.gaps[r] = "open"}}
                    \cup {l[1] : l \in {m \in Leads : m[2] = s /\ w.leads[m].status # "none"}}

\* HypothesisEngine.revise: the statements it creates
IsOpening(w, s) == /\ s \in GapKinds \cup TemplateSignals
                   /\ w.ideas[s].status = "none"
                   /\ SubjectsOf(w, s) # {}

\* _hypothesis_id: the hypotheses a finding may be taken to support, and how one round of
\* revision may choose among them.  A candidate the context has no room for supports none.
Linked(w, l) == {s \in Statements : /\ w.ideas[s].status # "none"
                                    /\ l[1] \in w.ideas[s].about \/ <<s, l[2]>> \in Mentions}
Supporting(w) == {l \in Leads : Verdict(w, l) = "supported"}
Choices(w) == {f \in [Supporting(w) -> UNION {Linked(w, l) : l \in Supporting(w)} \cup {NoStatement}] :
                  \A l \in Supporting(w) : f[l] \in Linked(w, l) \cup {NoStatement}}

\* Faulty variant: support without the cap on advice
SupportedFreely(idea, n) ==
    LET raised == idea.confidence + 15 * n
    IN  IF raised < Full THEN raised ELSE Full

\* the confidence of a hypothesis after support from n findings
Supported(idea, n) ==
    LET raised == idea.confidence + 15 * n
        limit  == IF idea.source = "ai" THEN Cap ELSE Full
    IN  IF raised < limit THEN raised ELSE limit

\* validate_hypotheses refuses a draft that cites evidence, and caps the others
Admitted(D) == {d \in D : ~d.cites}
DraftIdea(d) == [status |-> "open", confidence |-> IF d.confidence < Cap THEN d.confidence ELSE Cap,
                 source |-> "ai", about |-> d.about]

\* apply_hypothesis_deltas: creations, support, retirements, then the drafts
IdeaAfter(w, f, D, s) ==
    LET old == w.ideas[s]
        n == Cardinality({l \in DOMAIN f : f[l] = s})
        visible == old.status \in {"open", "supported"}
    IN  IF IsOpening(w, s)
        THEN [status |-> "open", confidence |-> 30, source |-> "heuristic",
              about |-> SubjectsOf(w, s)]
        ELSE IF old.status = "none"
        THEN IF \E d \in Admitted(D) : d.statement = s
             THEN DraftIdea(CHOOSE d \in Admitted(D) : d.statement = s) ELSE old
        ELSE [status     |-> IF visible /\ s \in GapKinds \ OpenKinds(w) THEN "retired"
                             ELSE IF n > 0 THEN "supported" ELSE old.status,
              confidence |-> Supported(old, n),
              source     |-> old.source,
              about      |-> old.about]

\* AiAdvisor.want_hypotheses: nothing is asked of a provider while there is only the
\* address to find
TrivialKinds == {"host.unresolved", "host.ports_unknown"}
WorthAsking(w) == \/ \E l \in Leads : w.leads[l].status # "none"
                  \/ OpenKinds(w) \ TrivialKinds # {}

\* Faulty variant: a supported hypothesis promotes what is claimed of its subject
Promoted(w, f, D) ==
    LET ideas == [s \in Statements |-> IdeaAfter(w, f, D, s)]
        subjects == UNION {ideas[s].about : s \in {r \in Statements : ideas[r].status = "supported"}}
    IN  [Synced(w) EXCEPT
            !.ideas = ideas,
            !.claims = [t \in Triples |-> IF t[1] \in subjects /\ Exists(@[t])
                                          THEN [@[t] EXCEPT !.status = "confirmed"] ELSE @[t]]]

Deliberated(w, f, D) ==
    [Synced(w) EXCEPT !.ideas = [s \in Statements |-> IdeaAfter(w, f, D, s)]]
================================================================================
