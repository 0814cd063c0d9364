------------------------------ MODULE ReconWorld ------------------------------
(***************************************************************************)
(* What choosing an action and carrying it out have in common: the things  *)
(* a mission may find, what it has found, what has been tried, where the   *)
(* target is (domain/models/mission.py Target, world/gaps.py,              *)
(* actions/coverage.py).                                                   *)
(*                                                                         *)
(* A port is <<address, number>>, a page <<host, number, path>>.  A fact   *)
(* is <<kind, thing>>: a claim the planner reads.  Facts are only added:   *)
(* what contradictory rows do to claims is in module Beliefs.              *)
(***************************************************************************)
EXTENDS Integers, Sequences, FiniteSets

CONSTANTS
    Names, Addresses,   \* hosts by name and hosts by address
    Ports,              \* <<address, number>>
    Pages,              \* <<host, number, path>>
    Root,               \* the path "/"
    WebNumbers,         \* HTTP_PORTS
    Rank,               \* the order of canonical keys, of hosts and of pages
    Excluded            \* the hosts the scope takes out again

VARIABLES
    scope,      \* the hosts the frozen scope names
    found,      \* the facts
    cov,        \* coverage: key -> status
    target,     \* now: current_locator; seen: locator_history; resolved: resolved_ipv4
    links       \* the interfaces that are up

Hosts   == Names \cup Addresses
Numbers == {p[2] : p \in Ports}

\* Kinds of things do not overlap, ports are ports of addresses, pages are pages of hosts,
\* and every port has a first page.
ASSUME ThingAssumption ==
    /\ IsFiniteSet(Addresses)
    /\ Ports \subseteq Addresses \X Nat
    /\ \A u \in Pages : u[1] \in Hosts
    /\ \A p \in Ports : <<p[1], p[2], Root>> \in Pages
    /\ Hosts \cap (Pages \cup (Hosts \X Numbers)) = {}

\* Canonical keys are strings, and those of a mission can be numbered in their order.
ASSUME RankAssumption == Rank \in [Hosts \cup Pages -> Nat]

Actions == {"dns_enumeration", "subdomain_enumeration", "port_scan", "service_enumeration",
            "http_probe", "technology_detection", "directory_enumeration", "endpoint_discovery"}
PageActions == {"http_probe", "technology_detection", "directory_enumeration", "endpoint_discovery"}

\* actions/coverage.py coverage_key.  A probe of a page has two keys: one for its
\* parameters as an open port gives them, one for a URL alone.
KeySet ==
    ({"subdomain_enumeration"} \X Names \X {"url"})
    \cup ({"dns_enumeration", "port_scan"} \X Hosts \X {"url"})
    \cup ({"service_enumeration"} \X (Hosts \X Numbers) \X {"url"})
    \cup (PageActions \X Pages \X {"url"})
    \cup ({"http_probe"} \X Pages \X {"port"})

Statuses == {"none", "attempted", "completed", "failed", "denied", "unavailable"}
\* BLOCKING_COVERAGE: what has run out, and is not proposed again
Blocking == {"completed", "failed", "denied", "unavailable"}

\* Faulty variant of the next one: what is completed may be asked again
ExhaustedUnlessDone(k) == cov[k] \in Blocking \ {"completed"}

Exhausted(k) == cov[k] \in Blocking

FactSet ==
    ({"host", "alias", "former"} \X Hosts)
    \cup ({"domain", "records", "sub"} \X Names)
    \cup ({"port", "named", "http"} \X Ports)
    \cup ({"url", "status", "tech", "end", "param"} \X Pages)

All(kind) == {f[2] : f \in {g \in found : g[1] = kind}}
Is(kind, x) == <<kind, x>> \in found

\* scope/checker.py check, recon/http/safety.py host_in_allowlist
Allowed(h) == h \in scope \ Excluded

--------------------------------------------------------------------------------
(***************************************************************************)
(* The open questions, a subset of those of module Inquiry: claims here    *)
(* are never overruled                                                     *)
(***************************************************************************)
AskedHosts == {h \in All("host") : Allowed(h) /\ ~Is("alias", h)}
Live(S, h) == {x \in S : x[1] = h}
AskedServices == {p \in All("http") : Allowed(p[1])}

Unresolved == AskedHosts \cap Names
PortsUnknown == {h \in AskedHosts : Live(All("port"), h) = {}}
ServiceUnknown == {p \in All("port") \ All("named") : Allowed(p[1])}
Unprobed == {p \in AskedServices : ~\E u \in All("url") : u[1] = p[1] /\ u[2] = p[2]}
DirectoriesUnknown == {p \in AskedServices : \A u \in Live(All("url"), p[1]) : u[3] = Root}
TechUnknown == {u \in All("status") \ All("tech") : Allowed(u[1])}
SubdomainsUnknown == {d \in All("domain") \ All("sub") : Allowed(d)}
ParamsUnknown == {u \in All("end") \ All("param") : Allowed(u[1])}

Questions ==
    ({"host.unresolved"} \X Unresolved)
    \cup ({"host.ports_unknown"} \X PortsUnknown)
    \cup ({"port.service_unknown"} \X ServiceUnknown)
    \cup ({"service.http_unprobed"} \X Unprobed)
    \cup ({"service.directories_unknown"} \X DirectoriesUnknown)
    \cup ({"url.tech_unknown"} \X TechUnknown)
    \cup ({"domain.subdomains_unknown"} \X SubdomainsUnknown)
    \cup ({"endpoint.params_unknown"} \X ParamsUnknown)
================================================================================
