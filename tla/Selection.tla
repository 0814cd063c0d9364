------------------------------- MODULE Selection -------------------------------
(***************************************************************************)
(* Which action comes next: brain/planner.py proposes, brain/scorer.py     *)
(* ranks, brain/decision.py takes the best.  Candidates are coverage keys. *)
(*                                                                         *)
(* The caps of the context (50 assets, 50 gaps) are not reached.  Scores   *)
(* are in 1/40000; what findings and paths add to a candidate (_intel_for) *)
(* is left open between nothing and its most, and so is the order of equal *)
(* scores.                                                                 *)
(***************************************************************************)
EXTENDS Reachability

CONSTANT Clues      \* the pages that leave a finding which asks for another probe

VARIABLE net        \* the reachability observed at the beginning of the cycle

\* brain/context.py build: aliases and historical hosts are left out of top_assets
ContextHosts == {h \in All("host") : ~Is("alias", h) /\ ~Is("former", h)}

\* brain/locators.py: every locator of the history but the current one, whether the
\* target has left it or a resolver merely named it
Obsolete == target.seen \ {target.now}

First(S) == CHOOSE x \in S : \A y \in S : Rank[x] <= Rank[y]
Rooted(S) == {u \in S : u[3] = Root}
\* _pick_url and _probed_page: the first page at "/", or else the first page
Foremost(S) == IF Rooted(S) # {} THEN First(Rooted(S)) ELSE First(S)

HostsForIp ==
    LET live == {h \in ContextHosts : Allowed(h)} \ Obsolete
    IN  IF target.now \in live THEN {target.now} ELSE live

--------------------------------------------------------------------------------
(***************************************************************************)
(* What the planner proposes for the open questions (_from_gap)            *)
(***************************************************************************)
Key(act, on) == <<act, on, "url">>

\* A name that has become historical is no longer in the context: its question is put
\* to the first host that is
ForUnresolved ==
    {Key("dns_enumeration", IF h \in ContextHosts THEN h ELSE First(ContextHosts)) :
        h \in IF ContextHosts = {} THEN {} ELSE Unresolved}

\* Faulty variant of the next one: addresses the target has left are scanned as well
ForPortsAnywhere ==
    {Key("port_scan", h) : h \in PortsUnknown \cap ContextHosts}

ForPorts ==
    LET asked == {h \in PortsUnknown : h \in ContextHosts \/ HostsForIp # {}}
        subject(h) == IF h \in ContextHosts THEN h ELSE First(HostsForIp)
    IN  {Key("port_scan", h) : h \in {subject(g) : g \in asked} \ Obsolete}

\* _host_for_port
ForServices ==
    LET asked == IF ContextHosts = {} THEN {} ELSE ServiceUnknown
        host(p) == IF p[1] \in ContextHosts THEN p[1] ELSE First(ContextHosts)
        at == {<<host(p), p[2]>> : p \in asked}
    IN  {Key("service_enumeration", t) : t \in {s \in at : s[1] \notin Obsolete}}

\* _http_probe_params, _http_host_port: once any page is known, that page is probed
\* again and not the service in question
ForUnprobed ==
    IF All("url") # {} THEN {Key("http_probe", Foremost(All("url"))) : p \in Unprobed}
    ELSE {<<"http_probe", <<p[1], p[2], Root>>, "port">> :
            p \in {q \in Unprobed : q[1] \in ContextHosts \ Obsolete}}

\* service.directories_unknown and endpoint.params_unknown say which service and which
\* endpoint, and one page stands for all of them
ForPages ==
    LET probed == IF All("status") # {} THEN All("status") ELSE All("url")
    IN  {Key("technology_detection", u) : u \in TechUnknown}
        \cup {Key("directory_enumeration", Foremost(All("url"))) :
                p \in IF All("url") = {} THEN {} ELSE DirectoriesUnknown}
        \cup {Key("endpoint_discovery", Foremost(probed)) :
                e \in IF All("url") = {} THEN {} ELSE ParamsUnknown}

ForSubdomains == {Key("subdomain_enumeration", d) : d \in SubdomainsUnknown}

\* _http_from_open_ports
OpenWebPorts == {p \in All("port") : p[2] \in WebNumbers}
FromOpenPorts ==
    {<<"http_probe", <<p[1], p[2], Root>>, "port">> :
        p \in {q \in OpenWebPorts : /\ q[1] \in ContextHosts \ Obsolete
                                    /\ ~\E u \in All("url") : u[1] = q[1] /\ u[2] = q[2]}}

\* _dns_from_domains; score() rejects it when neither of its questions is open
FromDomains ==
    IF All("records") = {} /\ (SubdomainsUnknown # {} \/ Unresolved # {})
    THEN {Key("dns_enumeration", d) : d \in All("domain")} ELSE {}

--------------------------------------------------------------------------------
(***************************************************************************)
(* What validation and the investigation paths add                         *)
(***************************************************************************)
\* validation/mappings.py: findings on open ports, on pages and on technologies are
\* worth a request.  Their locators are URLs, which are never obsolete.
Questioned ==
    {k \in {Key("http_probe", <<p[1], p[2], Root>>) : p \in OpenWebPorts}
           \cup {Key("http_probe", u) : u \in All("url") \cap Clues}
           \cup {Key("technology_detection", u) : u \in All("tech")} :
        Allowed(k[2][1])}

\* validation/engine.py _from_draft: proposed while its key has no coverage at all, and
\* perhaps again when the finding has been observed since
FromValidation == {k \in Questioned : cov[k] = "none"}

\* graph/paths.py _seeds
PathSeeds ==
    ({"host"} \X All("host")) \cup ({"domain"} \X All("domain"))
    \cup ({"port"} \X (OpenWebPorts \cup ServiceUnknown))
    \cup ({"url"} \X ((All("url") \cap (Clues \cup TechUnknown)) \cup ParamsUnknown))

\* _walk_up, _best_parent, and the edges of graph/projector.py: from a page to its port
\* or host, from a port to its host
PathHosts(s) ==
    IF s[1] = "host" THEN {s[2]} ELSE IF s[1] = "domain" THEN {} ELSE {s[2][1]} \cap All("host")
PathPorts(s) ==
    IF s[1] = "port" THEN {s[2]}
    ELSE IF s[1] = "url" THEN {p \in All("port") : p[1] = s[2][1] /\ p[2] = s[2][2]} ELSE {}
PathPages(s) == IF s[1] = "url" THEN {s[2]} ELSE {}

\* _questions_and_actions, _action_payload: what is missing along a path.  A name
\* without an address leaves only one question.
Missing(s) ==
    LET hosts == PathHosts(s)
        ports == PathPorts(s)
        pages == PathPages(s)
    IN  IF hosts \cap Names # {} THEN {Key("dns_enumeration", h) : h \in hosts}
        ELSE {Key("subdomain_enumeration", d) : d \in IF s[1] = "domain" THEN {s[2]} ELSE {}}
             \cup {Key("port_scan", h) : h \in IF ports = {} THEN hosts ELSE {}}
             \cup {Key("service_enumeration", p) : p \in ports \cap ServiceUnknown}
             \cup {<<"http_probe", <<p[1], p[2], Root>>, "port">> :
                     p \in IF All("url") = {} THEN ports \cap OpenWebPorts ELSE {}}
             \cup {Key("technology_detection", u) : u \in pages \ All("tech")}
             \cup {Key("endpoint_discovery", u) : u \in pages \ All("end")}

\* _from_paths.  Only the first question of a path is offered, and only the five paths
\* of highest priority: any of these may be absent.
HostOf(k) == IF k[2] \in Hosts THEN k[2] ELSE k[2][1]
IsPage(k) == k[1] \in PageActions
FromPaths ==
    {k \in UNION {Missing(s) : s \in PathSeeds} :
        /\ Allowed(HostOf(k))
        /\ ~IsPage(k) => HostOf(k) \notin Obsolete
        /\ k[1] = "endpoint_discovery" => All("end") = {}}

--------------------------------------------------------------------------------
(***************************************************************************)
(* Scoring and choosing                                                    *)
(***************************************************************************)
FromPlanner == ForUnresolved \cup ForPorts \cup ForServices \cup ForUnprobed \cup ForPages
               \cup ForSubdomains \cup FromOpenPorts \cup FromDomains

\* planner.py IP_GATED_ACTIONS
IpGated(k) == k[1] \notin {"dns_enumeration", "subdomain_enumeration"}

\* Faulty variant of the next one: what was tried once is not tried again
FilteredOnce(keys) ==
    {k \in keys : /\ cov[k] = "none"
                  /\ Unresolved # {} => k[1] # "subdomain_enumeration"
                  /\ Blocks(net) => ~IpGated(k)}

\* propose: nothing exhausted, no subdomains while a host is unresolved, nothing but
\* names while the network is blocked
Filtered(keys) ==
    LET nameless == Unresolved # {}
    IN  {k \in keys : /\ ~Exhausted(k)
                      /\ nameless => k[1] # "subdomain_enumeration"
                      /\ Blocks(net) => ~IpGated(k)}

\* actions/specs.py: cost and risk, in percent
Burden(k) ==
    IF k[1] = "directory_enumeration" THEN 60 + 60
    ELSE IF k[1] \in {"port_scan", "service_enumeration"} THEN 50 + 30
    ELSE IF k[1] = "subdomain_enumeration" THEN 40 + 30
    ELSE IF k[1] = "endpoint_discovery" THEN 30 + 10 ELSE 20 + 10

\* An offer is <<key, information gain>>.  Of the same key the one that promises most
\* counts (dedup.py), and here it comes out first by itself.
Sure  == (Filtered(FromPlanner) \X {80}) \cup (Filtered(FromValidation) \X {65})
Offers == Sure \cup (Filtered(Questioned) \X {65}) \cup (Filtered(FromPaths) \X {62})

\* The range of the score of an offer, without what all have in common
AtLeast(o) == 100 * o[2] - 20 * Burden(o[1])
AtMost(o)  == AtLeast(o) + 15 * (100 - o[2])

\* brain/advisor.py: if there is a choice, a model may move each score by 0.1 either way
Swing == 4000

\* select: this candidate may come out first
MayWin(o, slack) == \A r \in Sure : AtLeast(r) <= AtMost(o) + slack

\* The mission has met its objectives when no question is open, the one the network
\* raises included
ObjectivesMet == Questions = {} /\ ~Blocks(net)
================================================================================
