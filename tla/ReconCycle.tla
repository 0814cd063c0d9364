------------------------------- MODULE ReconCycle -------------------------------
(***************************************************************************)
(* The cycle of a running mission around the brain and the adapters        *)
(* (engine/loop.py run_one_cycle, _act): observe the network, select an    *)
(* action, have it authorized, carry it out, learn from it.  Limits,       *)
(* storage and crashes are in module MissionEngine.                        *)
(***************************************************************************)
EXTENDS Selection, Adapters

CONSTANTS
    ScopeLists,     \* target -> the scopes the operator may freeze for it
    DomainOf,       \* mission/seed.py: the domain a host name belongs to
    MaxRelocations

ASSUME TargetAssumption == DOMAIN ScopeLists \subseteq Hosts /\ DomainOf \in [Names -> Names]

VARIABLES
    phase,          \* observe, select, work, rest, over
    relocations

cvars == <<scope, found, cov, target, links, net, job, files, held, troubles, phase,
           relocations>>

\* mission/seed.py, mission/locator.py seed_identity_fields
CycleInit ==
    /\ \E t \in DOMAIN ScopeLists :
         /\ target = [now |-> t, seen |-> {t}, resolved |-> <<>>]
         /\ scope \in ScopeLists[t]
         /\ found = {<<"host", t>>} \cup (IF t \in Names THEN {<<"domain", DomainOf[t]>>} ELSE {})
    /\ cov = [k \in KeySet |-> "none"]
    /\ links = Ifaces
    /\ net = "UNKNOWN"
    /\ job = Idle
    /\ files = {}
    /\ held = FALSE
    /\ phase = "observe"
    /\ troubles = 0 /\ relocations = 0

--------------------------------------------------------------------------------
(***************************************************************************)
(* One cycle                                                               *)
(***************************************************************************)
Observe ==
    /\ phase = "observe"
    /\ net' \in Reachabilities
    /\ phase' = "select"
    /\ UNCHANGED <<scope, found, cov, target, links, job, files, held, troubles, relocations>>

\* What an adapter is given to ask in turn.  A scan is bound to the interface of the route
\* only when that route was seen to be up.
ToAsk(k) ==
    IF k[1] = "dns_enumeration" THEN RecordTypes
    ELSE IF k[1] = "subdomain_enumeration" THEN Candidates[k[2]]
    ELSE IF k[1] = "directory_enumeration" THEN <<NoPage, NoPage>> \o Words[k[2]]
    ELSE IF ~IsPage(k) /\ net = "REACHABLE" THEN <<"bound">> ELSE <<>>

Job(k) == [Idle EXCEPT !.act = k[1], !.on = k[2], !.shape = k[3], !.todo = ToAsk(k),
                       !.at = IF IsPage(k) THEN k[2] ELSE NoPage, !.result = "running"]

\* _act with the boundary: the policy denies what is out of scope, and that is final
Begin(k) ==
    IF Allowed(HostOf(k))
    THEN job' = Job(k) /\ phase' = "work" /\ UNCHANGED cov
    ELSE /\ cov' = [cov EXCEPT ![k] = "denied"] /\ phase' = "observe" /\ UNCHANGED job

Select ==
    /\ phase = "select"
    /\ \E o \in Offers :
          \/ MayWin(o, 0) /\ Begin(o[1]) /\ UNCHANGED troubles
          \/ Trouble /\ \E p \in Offers : p[1] # o[1]
             /\ MayWin(o, 2 * Swing) /\ Begin(o[1])
    /\ UNCHANGED <<scope, found, target, links, net, files, held, relocations>>

\* Nothing to do: the mission is over, or waits for something to change
Stop ==
    /\ phase = "select" /\ Sure = {}
    /\ phase' = IF ObjectivesMet THEN "over" ELSE "rest"
    /\ UNCHANGED <<scope, found, cov, target, links, net, job, files, held, troubles, relocations>>

Work ==
    /\ phase = "work" /\ Working
    /\ UNCHANGED <<scope, found, cov, target, links, net, phase, relocations>>

JobKey == <<job.act, job.on, job.shape>>

\* actions/coverage.py next_failure_coverage: what may be tried once more
NextFailureCoverage(previous, result) ==
    IF result \in {"timeout", "retry"} /\ previous \notin {"attempted", "failed"}
    THEN "attempted" ELSE "failed"

NextCoverage(previous) ==
    IF job.result \in {"completed", "unavailable"} THEN job.result
    ELSE NextFailureCoverage(previous, job.result)

\* Faulty variant of the next one: names are kept with the addresses
RecordedByName(t, new) ==
    [t EXCEPT !.seen = @ \cup new, !.resolved = @ \o SetToSeq(new \ Range(t.resolved))]

\* engine/observe.py ingest_locator_evidence, mission/locator.py observe_locator: an
\* address in scope that an answer names becomes part of the target's history
Named == {f[2] : f \in {g \in job.learned : g[1] = "host"}} \cap {h \in Addresses : Allowed(h)}
Recorded(t, new) ==
    LET resolved == SetToSeq((new \cap Addresses) \ Range(t.resolved))
    IN  [t EXCEPT !.seen = @ \cup new, !.resolved = @ \o resolved]

\* world/correlation.py _chain: a row about a page brings the page, and a page its host
Correlated(facts) ==
    LET pages == {f[2] : f \in {g \in facts : g[1] \in {"url", "status", "tech", "end", "param"}}}
    IN  facts \cup ({"url"} \X pages) \cup ({"host"} \X {u[1] : u \in pages})

\* apply_completed_artifact.  An error nothing catches ends the cycle without coverage.
Learn ==
    /\ phase = "work" /\ job.result # "running"
    /\ cov' = IF job.result = "raised" THEN cov
              ELSE [cov EXCEPT ![JobKey] = NextCoverage(@)]
    /\ IF job.result = "completed"
       THEN /\ found' = found \cup Correlated(job.learned)
            /\ target' = Recorded(target, Named)
       ELSE UNCHANGED <<found, target>>
    /\ phase' = "observe"
    /\ job' = Idle
    /\ UNCHANGED <<scope, links, net, files, held, troubles, relocations>>

--------------------------------------------------------------------------------
(***************************************************************************)
(* Between cycles                                                          *)
(***************************************************************************)
Idling == phase \in {"observe", "rest"}

\* mission/locator.py confirm_locator with engine/loop.py sync_locator_hosts: the hosts
\* of all other locators become historical, and nothing takes that back
Relocate(h) ==
    /\ Idling /\ relocations < MaxRelocations /\ relocations' = relocations + 1
    /\ Allowed(h) /\ h # target.now
    /\ target' = [Recorded(target, {h}) EXCEPT !.now = h]
    /\ found' = found \cup {<<"host", h>>} \cup ({"host", "former"} \X (target.seen \ {h}))
    /\ phase' = "observe"
    /\ UNCHANGED <<scope, cov, links, net, job, files, held, troubles>>

LinkDown(i) ==
    /\ Idling /\ Trouble
    /\ i \in links /\ links' = links \ {i}
    /\ phase' = "observe"
    /\ UNCHANGED <<scope, found, cov, target, net, job, files, held, relocations>>

LinkUp(i) ==
    /\ Idling /\ i \in Ifaces \ links
    /\ links' = links \cup {i}
    /\ phase' = "observe"
    /\ UNCHANGED <<scope, found, cov, target, net, job, files, held, troubles, relocations>>

CycleNext ==
    \/ Observe \/ Select \/ Stop \/ Work \/ Learn
    \/ \E h \in Hosts : Relocate(h)
    \/ \E i \in Ifaces : LinkDown(i) \/ LinkUp(i)

Engine == Observe \/ Select \/ Stop \/ Work \/ Learn
CycleSpec == CycleInit /\ [][CycleNext]_cvars /\ WF_cvars(Engine)

--------------------------------------------------------------------------------
(***************************************************************************)
(* Properties                                                              *)
(***************************************************************************)
\* The shapes of what a cycle keeps: coverage, facts, the target's trail, the job.
ReconTypeOK ==
    /\ found \subseteq FactSet /\ cov \in [KeySet -> Statuses]
    /\ target.now \in target.seen /\ target.seen \subseteq Hosts
    /\ Range(target.resolved) \subseteq target.seen \cap Addresses
    /\ links \subseteq Ifaces /\ phase \in {"observe", "select", "work", "rest", "over"}
    /\ net \in {"UNKNOWN", "REACHABLE", "BLOCKED", "ROUTE_MISSING"}
    /\ job.result \in Results /\ job.learned \subseteq FactSet
    /\ phase = "work" => JobKey \in KeySet

\* Wherever redirects lead, no request of an action leaves the frozen scope, none is sent
\* twice, and there are at most MaxRedirects more than the first (http/adapter.py _probe
\* with safety.py destination_allowed).
RequestsStayInScope ==
    phase = "work" =>
        /\ Allowed(HostOf(JobKey))
        /\ IsPage(JobKey) => Allowed(job.at[1])
        /\ \A i, j \in DOMAIN job.trail :
              Allowed(job.trail[i][1]) /\ (i # j => job.trail[i] # job.trail[j])
        /\ Len(job.trail) <= MaxRedirects + 1

\* An action that is settled as completed has been answered, whatever was lost on the way
\* and whatever an earlier run left behind.  For a page that was probed or fingerprinted
\* there is a stored answer with a body, and all its parser makes of that answer is on
\* record.  After an enumeration every word has its status, unless the host answers all
\* alike.  Only a process that may be missing is ever unavailable (recon_executor.py
\* _status_for, http/directory.py _last_result, engine/apply.py).
CoverageIsEarned ==
    \A k \in KeySet :
        /\ cov[k] = "completed" /\ k[1] \in {"http_probe", "technology_detection"} =>
              \E last \in Pages : <<k[2], last, TRUE>> \in files
                                  /\ Parsed(k[1], k[2], last) \subseteq found
        /\ cov[k] = "completed" /\ k[1] = "directory_enumeration" =>
              \/ k[2][1] \in WildHosts
              \/ \A u \in ToSet(Words[k[2]]) : Is("status", u)
        /\ cov[k] = "unavailable" => k[1] \in {"port_scan", "service_enumeration"}

\* No scan runs against an address the target has left, through whichever question, open
\* port or path it was proposed, and on a blocked network only names are asked for
\* (brain/locators.py, planner.py propose).
OldAddressesLeftAlone ==
    phase = "work" =>
        /\ ~IsPage(JobKey) /\ IpGated(JobKey) => HostOf(JobKey) \notin Obsolete
        /\ Blocks(net) => ~IpGated(JobKey)

\* A question is put to rest by the action that would answer it
OwnAction(q) ==
    LET about == q[2]
    IN  IF q[1] = "host.unresolved" THEN Key("dns_enumeration", about)
        ELSE IF q[1] = "host.ports_unknown" THEN Key("port_scan", about)
        ELSE IF q[1] = "port.service_unknown" THEN Key("service_enumeration", about)
        ELSE IF q[1] = "url.tech_unknown" THEN Key("technology_detection", about)
        ELSE Key("subdomain_enumeration", about)

\* Questions the planner answers one by one, about hosts that are still targets
Pursued(q) ==
    /\ q[1] \in {"host.unresolved", "host.ports_unknown", "port.service_unknown",
                 "url.tech_unknown", "domain.subdomains_unknown"}
    /\ q[1] \in {"host.unresolved", "host.ports_unknown", "port.service_unknown"} =>
          HostOf(OwnAction(q)) \in ContextHosts
    /\ q[1] \in {"host.ports_unknown", "port.service_unknown"} =>
          HostOf(OwnAction(q)) \notin Obsolete
    /\ q[1] = "domain.subdomains_unknown" => Unresolved = {}

\* The mission comes to rest, on a network that is not blocked, only when every question
\* it pursues has had its own action run out: no question is dropped because another
\* was asked instead (planner.py propose, decision.py select).
RestIsEarned ==
    phase = "rest" /\ ~Blocks(net) =>
        \A q \in Questions : Pursued(q) => Exhausted(OwnAction(q))

\* However answers are lost and whatever advice says, cycles do not go on for ever: in
\* the end there is nothing left to choose (coverage, one retry per key), unless a
\* service that is no web server makes the same action raise its error again and again.
ComesToRest == <>[](phase \in {"rest", "over"}) \/ []<>(job.result = "raised")
================================================================================
