------------------------------- MODULE Beliefs -------------------------------
(***************************************************************************)
(* What the program believes about a mission's target: assets and claims   *)
(* (world/keys.py, correlation.py, projector.py, status.py, model.py), as  *)
(* operators on a world, which is one record.                              *)
(*                                                                         *)
(* An asset is one canonical key.  A fact is one row of evidence.  The     *)
(* value of an asset is the field that decides about it: the state of a    *)
(* port, the name of a service, the class of status of a URL.  Confidence  *)
(* is in hundredths, rounded.                                              *)
(***************************************************************************)
EXTENDS Integers, Sequences, FiniteSets

CONSTANTS
    Assets, KindOf,    \* canonical keys and the kind each is the key of
    ParentOf, NoAsset, \* the key inside a key: of a port its host, of a service its port, ...
    Barred,            \* the keys the scope gate calls out of scope
    Seeds,             \* the keys of the mission's seed assets
    Facts,             \* identities of evidence
    Fact,              \* what each says and where it comes from
    NoValue,
    Keys,              \* coverage keys
    Signals, NoSignal, \* what findings and hypotheses are about
    Ideas              \* statements an AI provider may propose

Full == 100
Cap  == 40

ASSUME AssetAssumption == ParentOf \in [Assets -> Assets \cup {NoAsset}]
ASSUME FactAssumption ==
    \A e \in Facts : /\ Fact[e].subject \in Assets
                     /\ Fact[e].extras \subseteq Assets
                     /\ Fact[e].reliability \in 0..Full

Statuses == {"unknown", "suspected", "known", "supported", "confirmed", "invalidated"}
Rank == [s \in Statuses |->
    IF s = "unknown" THEN 0 ELSE IF s = "suspected" THEN 1 ELSE IF s = "known" THEN 2
    ELSE IF s = "supported" THEN 3 ELSE IF s = "confirmed" THEN 4 ELSE -1]
Live == {"known", "supported", "confirmed"}

Triple(e)  == <<Fact[e].subject, Fact[e].predicate, Fact[e].object>>
Triples    == {Triple(e) : e \in Facts}
Objects    == {Fact[e].object : e \in Facts}
Rivals(t)  == {u \in Triples : u[1] = t[1] /\ u[2] = t[2] /\ u[3] # t[3]}

NoClaim == [confidence |-> 0, status |-> "unknown", evidence |-> {}, contra |-> {}]
ClaimSet == [confidence : 0..Full, status : Statuses, evidence : SUBSET Facts, contra : SUBSET Facts]

GapKinds == {"host.unresolved", "host.ports_unknown", "port.service_unknown",
             "service.http_unprobed", "service.directories_unknown", "url.tech_unknown",
             "domain.subdomains_unknown", "endpoint.params_unknown"}
Questions == GapKinds \X Assets
Leads == Assets \X Signals
Statements == GapKinds \cup Signals \cup Ideas

NoLead == [status |-> "none", evidence |-> {}, seen |-> 0, checked |-> 0]
LeadSet == [status : {"none", "open", "invalidated"}, evidence : SUBSET Facts,
            seen : Nat, checked : Nat]
NoIdea == [status |-> "none", confidence |-> 0, source |-> "heuristic", about |-> {}]
IdeaSet == [status : {"none", "open", "supported", "retired"}, confidence : 0..Full,
            source : {"heuristic", "ai"}, about : SUBSET Assets]

--------------------------------------------------------------------------------
(***************************************************************************)
(* Confidence and status                                                   *)
(***************************************************************************)
\* Faulty variant: support adds up
Summed(c, r) == c + r

\* confidence.apply_supporting
Raised(c, r) == Full - ((Full - c) * (Full - r)) \div Full

\* confidence.apply_contradicting: the confidence left, and whether nothing is
Weakened(c, r)   == IF r >= c THEN r ELSE (c * (2 * Full - r)) \div (2 * Full)
Overruled(c, r)  == r >= c

\* status.status_from_reliability
DirectPredicates == {"port.state", "http.status", "dns.record", "url.seen", "host.alive"}
FingerPredicates == {"service.product", "service.version", "service.banner", "http.tech"}
SingleStatus(p, r) ==
    IF r >= 90 /\ p \in DirectPredicates THEN "confirmed"
    ELSE IF r >= 70 THEN "known"
    ELSE IF r >= 40 /\ p \in FingerPredicates THEN "supported"
    ELSE "suspected"

\* status.is_independent.  The action type is never part of the stored preview, so only
\* the parser distinguishes two runs.
Independent(e, f) == Fact[e].run # Fact[f].run /\ Fact[e].parser # Fact[f].parser

\* status.status_after_support
SupportedStatus(p, c, E, contested) ==
    LET pair == \E e, f \in E : Independent(e, f)
        best == CHOOSE e \in E : \A f \in E : Fact[f].reliability <= Fact[e].reliability
        base == SingleStatus(p, Fact[best].reliability)
    IN  IF pair /\ c >= 80 /\ ~contested THEN "confirmed"
        ELSE IF pair /\ c >= 70 /\ Rank[base] < Rank["supported"] THEN "supported"
        ELSE base

MaxStatus(s, t) == IF Rank[s] >= Rank[t] THEN s ELSE t

Exists(c)   == c.evidence # {}
IsLive(c)   == Exists(c) /\ c.status # "invalidated"
Believed(c) == Exists(c) /\ c.status \in Live

--------------------------------------------------------------------------------
(***************************************************************************)
(* The world of a process, one record                                      *)
(***************************************************************************)
Worlds == [claims   : [Triples -> ClaimSet],
           status   : [Assets -> Statuses \cup {"absent"}],
           value    : [Assets -> Objects \cup {NoValue}],
           barred   : SUBSET Assets,                  \* out_of_scope
           alias    : SUBSET Assets,                  \* hosts labelled "alias"
           gaps     : [Questions -> {"never", "open", "closed"}],
           leads    : [Leads -> LeadSet],             \* findings, the latest of each identity
           ideas    : [Statements -> IdeaSet],        \* hypotheses, by core statement
           coverage : [Keys -> {"none", "failed", "completed"}],
           applied  : SUBSET Facts]

BlankWorld == [claims   |-> [t \in Triples |-> NoClaim],
               status   |-> [a \in Assets |-> "absent"],
               value    |-> [a \in Assets |-> NoValue],
               barred   |-> {},
               alias    |-> {},
               gaps     |-> [q \in Questions |-> "never"],
               leads    |-> [l \in Leads |-> NoLead],
               ideas    |-> [s \in Statements |-> NoIdea],
               coverage |-> [k \in Keys |-> "none"],
               applied  |-> {}]

Present(w)  == {a \in Assets : w.status[a] # "absent"}
InScope(w)  == Present(w) \ w.barred
OfKind(w, k) == {a \in Present(w) : KindOf[a] = k}
Children(w, a, k) == {b \in OfKind(w, k) : ParentOf[b] = a}

(***************************************************************************)
(* Correlation: the assets a fact names are fetched or created; a new one  *)
(* inherits the mark of its parent.                                        *)
(***************************************************************************)
\* keys.parse_subject_hint: a key spells out the keys it is built from
Parents(S) == S \cup ({ParentOf[a] : a \in S} \ {NoAsset})
Line(a)    == Parents(Parents(Parents({a})))

\* world/keys.py: no key is nested deeper than that of a parameter (param, ep, url, host);
\* a host's key has none inside it and a port's key has its host's.  mission/seed.py
\* makes assets of hosts, domains and URLs.
ASSUME NestingAssumption ==
    /\ \A a \in Assets : Parents(Line(a)) = Line(a)
    /\ \A a \in Assets : KindOf[a] = "host" => ParentOf[a] = NoAsset
    /\ \A a \in Assets : KindOf[a] = "port" => ParentOf[a] # NoAsset /\ KindOf[ParentOf[a]] = "host"
    /\ \A a \in Seeds : KindOf[a] \in {"host", "domain", "url"}

\* _extras: the technology, parameter or authentication surface the object speaks of
Extras(e) == {a \in Fact[e].extras : /\ ParentOf[a] = Fact[e].subject
                                      /\ KindOf[a] \in {"technology", "parameter", "auth_surface"}}

\* _chain: the line of the subject, and the interface of its host
Chain(e) ==
    LET line == Line(Fact[e].subject)
    IN  line \cup {i \in Assets : KindOf[i] = "interface" /\ ParentOf[i] \in line}
             \cup Extras(e)

Missing(w, e) == Chain(e) \ Present(w)

\* The status an asset is created with; an interface takes over that of its host
CreatedStatus(w, a) ==
    IF KindOf[a] = "technology" THEN "supported"
    ELSE IF KindOf[a] = "interface" /\ ParentOf[a] \in Present(w) THEN w.status[ParentOf[a]]
    ELSE "known"

\* out_of_scope of a new asset: its own key is barred, or its parent carries the mark,
\* and the parent may be new itself
Marks(w, e, gated) ==
    LET own == w.barred \cup (IF gated THEN Barred \cap Missing(w, e) ELSE {})
        under(S) == S \cup {a \in Missing(w, e) : ParentOf[a] \in S}
    IN  under(under(under(own))) \cap Missing(w, e)

\* _alias_name_host: a host name seen on an address becomes an alias of that address
Aliased(w, e) ==
    {a \in OfKind(w, "host") : /\ Fact[e].predicate = "host.hostname"
                               /\ Fact[e].object = a /\ Fact[e].subject # a}

Correlate(w, e, gated) ==
    [w EXCEPT !.status = [a \in Assets |->
                  IF a \in Missing(w, e) THEN CreatedStatus(w, a) ELSE w.status[a]],
              !.barred = @ \cup Marks(w, e, gated),
              !.alias  = @ \cup Aliased(w, e)]

(***************************************************************************)
(* Claims                                                                  *)
(***************************************************************************)
\* Faulty variant: new support takes up again what was overruled
RevivedClaim(w, e) ==
    LET t == Triple(e)
        c == w.claims[t]
        conf == Raised(c.confidence, Fact[e].reliability)
    IN  [confidence |-> conf, status |-> SingleStatus(t[2], conf),
         evidence |-> c.evidence \cup {e}, contra |-> c.contra]

\* the branch of _merge_claim for a triple that has a claim already
SupportedClaim(w, e) ==
    LET t == Triple(e)
        c == w.claims[t]
        conf == Raised(c.confidence, Fact[e].reliability)
        E == c.evidence \cup {e}
        contested == \E u \in Rivals(t) : IsLive(w.claims[u])
    IN  [confidence |-> conf,
         status     |-> IF c.status = "invalidated" THEN "invalidated"
                        ELSE SupportedStatus(t[2], conf, E, contested),
         evidence   |-> E,
         contra     |-> c.contra]

\* the branch for a new triple: what happens to a rival, and the new claim
ContradictedClaim(c, e) ==
    LET r == Fact[e].reliability
        left == Weakened(c.confidence, r)
    IN  IF c.status = "invalidated"
        THEN [c EXCEPT !.contra = @ \cup {e}]
        ELSE [confidence |-> left,
              status     |-> IF Overruled(c.confidence, r) THEN "invalidated"
                             ELSE IF left < 30 THEN "suspected" ELSE c.status,
              evidence   |-> c.evidence,
              contra     |-> c.contra \cup {e}]

\* Faulty variant: a new claim does not look for those it contradicts
LoneClaim(w, e) ==
    LET t == Triple(e)
        r == Fact[e].reliability
    IN  [confidence |-> r, status |-> SingleStatus(t[2], r), evidence |-> {e}, contra |-> {}]

NewClaim(w, e) ==
    LET t == Triple(e)
        r == Fact[e].reliability
    IN  [confidence |-> r,
         status     |-> SingleStatus(t[2], r),
         evidence   |-> {e},
         contra     |-> UNION {w.claims[u].evidence : u \in Rivals(t)}]

MergedClaims(w, e) ==
    LET t == Triple(e)
    IN  [u \in Triples |->
            IF u = t
            THEN IF Exists(w.claims[t]) THEN SupportedClaim(w, e) ELSE NewClaim(w, e)
            ELSE IF u \in Rivals(t) /\ ~Exists(w.claims[t]) /\ Exists(w.claims[u])
            THEN ContradictedClaim(w.claims[u], e)
            ELSE w.claims[u]]

\* _side_effects: the subject shows what was said last, whatever became of the claim
DecidingPredicate(k) == IF k = "port" THEN "port.state" ELSE IF k = "service" THEN "service.name"
                        ELSE IF k = "url" THEN "http.status" ELSE "none"

Shown(w, e) ==
    LET a == Fact[e].subject
    IN  IF Fact[e].predicate = DecidingPredicate(KindOf[a])
        THEN [w.value EXCEPT ![a] = Fact[e].object] ELSE w.value

MergeClaim(w, e) ==
    LET a == Fact[e].subject
        claims == MergedClaims(w, e)
        st == claims[Triple(e)].status
    IN  [w EXCEPT !.claims = claims,
                  !.value  = Shown(w, e),
                  !.status = IF st = "invalidated" THEN @
                             ELSE [@ EXCEPT ![a] = MaxStatus(w.status[a], st)]]
================================================================================
