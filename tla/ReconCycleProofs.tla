---------------------------- MODULE ReconCycleProofs ----------------------------
(***************************************************************************)
(* Theorems about ReconCycle: what a mission asks, settles and leaves      *)
(* alone, for every web of hosts, ports and pages, every scope, and        *)
(* however answers are lost, links fail and the target moves.              *)
(***************************************************************************)
EXTENDS ReconCycle, WellOrder

--------------------------------------------------------------------------------
(***************************************************************************)
(* The things a mission has found                                          *)
(***************************************************************************)
\* Facts are about things of their kind.
LEMMA FoundThings ==
    ASSUME found \subseteq FactSet
    PROVE  /\ All("host") \subseteq Hosts /\ All("alias") \subseteq Hosts
           /\ All("former") \subseteq Hosts
           /\ All("domain") \subseteq Names /\ All("sub") \subseteq Names
           /\ All("port") \subseteq Ports /\ All("named") \subseteq Ports
           /\ All("http") \subseteq Ports
           /\ All("url") \subseteq Pages /\ All("status") \subseteq Pages
           /\ All("tech") \subseteq Pages /\ All("end") \subseteq Pages
<1>1. \A f \in found : f \in FactSet
  OBVIOUS
<1>2. \A f \in FactSet : f[1] \in {"host", "alias", "former"} => f[2] \in Hosts
  BY DEF FactSet
<1>3. \A f \in FactSet : f[1] \in {"domain", "sub"} => f[2] \in Names
  BY DEF FactSet
<1>4. \A f \in FactSet : f[1] \in {"port", "named", "http"} => f[2] \in Ports
  BY DEF FactSet
<1>5. \A f \in FactSet : f[1] \in {"url", "status", "tech", "end"} => f[2] \in Pages
  BY DEF FactSet
<1> QED BY <1>1, <1>2, <1>3, <1>4, <1>5 DEF All

\* A coverage key names an action and what it is aimed at, and a page is no host.
LEMMA KeyParts ==
    ASSUME NEW k \in KeySet
    PROVE  /\ k = <<k[1], k[2], k[3]>>
           /\ k[1] \in Actions /\ k[3] \in {"url", "port"}
           /\ k[1] = "subdomain_enumeration" => k[2] \in Names
           /\ k[1] \in {"dns_enumeration", "port_scan"} => k[2] \in Hosts
           /\ k[1] = "service_enumeration" => /\ k[2] \in Hosts \X Numbers
                                              /\ HostOf(k) = k[2][1]
           /\ IsPage(k) => k[2] \in Pages /\ HostOf(k) = k[2][1]
<1> DEFINE A == {"subdomain_enumeration"} \X Names \X {"url"}
           B == {"dns_enumeration", "port_scan"} \X Hosts \X {"url"}
           C == {"service_enumeration"} \X (Hosts \X Numbers) \X {"url"}
           D == PageActions \X Pages \X {"url"}
           E == {"http_probe"} \X Pages \X {"port"}
<1>1. CASE k \in A
  BY <1>1 DEF Actions, IsPage, PageActions
<1>2. CASE k \in B
  BY <1>2 DEF Actions, IsPage, PageActions
<1>3. CASE k \in C
  <2>1. /\ k[2] \in Hosts \X Numbers /\ k[1] = "service_enumeration"
        /\ k[3] = "url" /\ k = <<k[1], k[2], k[3]>>
    BY <1>3
  <2>2. k[2] \notin Hosts
    BY <2>1, ThingAssumption
  <2> QED BY <2>1, <2>2 DEF Actions, IsPage, PageActions, HostOf
<1>4. CASE k \in D \cup E
  <2>1. /\ k[2] \in Pages /\ k[1] \in PageActions
        /\ k[3] \in {"url", "port"} /\ k = <<k[1], k[2], k[3]>>
    BY <1>4 DEF PageActions
  <2>2. k[2] \notin Hosts
    BY <2>1, ThingAssumption
  <2> QED BY <2>1, <2>2 DEF Actions, IsPage, PageActions, HostOf
<1> QED BY <1>1, <1>2, <1>3, <1>4 DEF KeySet

\* Every set of hosts or pages that is not empty has a first one, and Foremost is one.
LEMMA FirstIsOne ==
    ASSUME NEW S, S \subseteq Hosts \cup Pages, S # {}
    PROVE  First(S) \in S /\ Foremost(S) \in S
<1>1. \A T : T \subseteq Hosts \cup Pages /\ T # {} => First(T) \in T
  <2> SUFFICES ASSUME NEW T, T \subseteq Hosts \cup Pages, T # {}
               PROVE  First(T) \in T
    OBVIOUS
  <2> DEFINE N == {Rank[t] : t \in T}
  <2>1. N \subseteq Nat /\ N # {}
    BY RankAssumption
  <2>2. PICK n \in N : \A m \in N : n <= m
    <3> HIDE DEF N
    <3> QED BY <2>1, LeastElement
  <2>3. PICK x \in T : n = Rank[x]
    BY <2>2
  <2>4. \A y \in T : Rank[x] <= Rank[y]
    BY <2>2, <2>3
  <2> QED BY <2>4 DEF First
<1>2. Rooted(S) \subseteq S
  BY DEF Rooted
<1> QED BY <1>1, <1>2 DEF Foremost

--------------------------------------------------------------------------------
(***************************************************************************)
(* What may be chosen                                                      *)
(***************************************************************************)
\* Which keys there are, thing by thing.
LEMMA KeysOfThings ==
    /\ \A h \in Hosts : /\ Key("dns_enumeration", h) \in KeySet
                        /\ Key("port_scan", h) \in KeySet
    /\ \A d \in Names : Key("subdomain_enumeration", d) \in KeySet
    /\ \A t \in Hosts \X Numbers : Key("service_enumeration", t) \in KeySet
    /\ \A a \in PageActions : \A u \in Pages : Key(a, u) \in KeySet
    /\ \A u \in Pages : <<"http_probe", u, "port">> \in KeySet
    /\ \A p \in Ports : /\ p = <<p[1], p[2]>> /\ p[1] \in Hosts /\ p[2] \in Numbers
                        /\ p \in Hosts \X Numbers /\ <<p[1], p[2], Root>> \in Pages
<1>1. \A p \in Ports : /\ p = <<p[1], p[2]>> /\ p[1] \in Hosts /\ p[2] \in Numbers
                       /\ p \in Hosts \X Numbers /\ <<p[1], p[2], Root>> \in Pages
  BY ThingAssumption DEF Hosts, Numbers
<1> QED BY <1>1 DEF KeySet, Key

\* The hosts that may be asked about are hosts, and those worth a scan are not obsolete.
LEMMA HostsAsked ==
    ASSUME found \subseteq FactSet
    PROVE  /\ ContextHosts \subseteq Hosts
           /\ ContextHosts # {} => First(ContextHosts) \in ContextHosts
           /\ HostsForIp \subseteq Hosts \ Obsolete
           /\ HostsForIp # {} => First(HostsForIp) \in HostsForIp
           /\ Unresolved \subseteq Names /\ PortsUnknown \subseteq Hosts
           /\ ServiceUnknown \subseteq Ports /\ Unprobed \subseteq Ports
           /\ TechUnknown \subseteq Pages /\ SubdomainsUnknown \subseteq Names
           /\ ParamsUnknown \subseteq Pages /\ OpenWebPorts \subseteq Ports
<1>1. ContextHosts \subseteq Hosts
  BY FoundThings DEF ContextHosts
<1>2. HostsForIp \subseteq Hosts \ Obsolete
  BY <1>1 DEF HostsForIp
<1>3. AskedHosts \subseteq Hosts /\ AskedServices \subseteq Ports
  BY FoundThings DEF AskedHosts, AskedServices
<1> QED BY <1>1, <1>2, <1>3, FoundThings, FirstIsOne
        DEF Unresolved, PortsUnknown, ServiceUnknown, Unprobed, TechUnknown,
            SubdomainsUnknown, ParamsUnknown, OpenWebPorts

\* What the planner proposes are keys, and its scans are of no obsolete host.
LEMMA PlannerKeys ==
    ASSUME found \subseteq FactSet
    PROVE  /\ FromPlanner \subseteq KeySet
           /\ \A k \in FromPlanner : ~IsPage(k) /\ IpGated(k) => HostOf(k) \notin Obsolete
<1> USE FoundThings, HostsAsked, KeysOfThings
<1> DEFINE Fine(K) == /\ K \subseteq KeySet
                      /\ \A k \in K : ~IsPage(k) /\ IpGated(k) => HostOf(k) \notin Obsolete
<1>0. /\ \A x : \A a \in PageActions : IsPage(Key(a, x))
      /\ \A x : IsPage(<<"http_probe", x, "port">>)
      /\ \A x : ~IpGated(Key("dns_enumeration", x)) /\ ~IpGated(Key("subdomain_enumeration", x))
  BY DEF IsPage, IpGated, Key, PageActions
<1>1. Fine(ForUnresolved)
  <2>1. \A k \in ForUnresolved : \E h \in Hosts : k = Key("dns_enumeration", h)
    BY DEF ForUnresolved, Hosts
  <2> QED BY <2>1, <1>0
<1>2. Fine(ForPorts)
  <2>1. \A k \in ForPorts : \E h \in Hosts \ Obsolete : k = Key("port_scan", h)
    BY DEF ForPorts
  <2>2. \A h \in Hosts : HostOf(Key("port_scan", h)) = h
    BY DEF HostOf, Key
  <2> QED BY <2>1, <2>2
<1>3. Fine(ForServices)
  <2>1. \A k \in ForServices :
          \E t \in Hosts \X Numbers : t[1] \notin Obsolete /\ k = Key("service_enumeration", t)
    <3> SUFFICES ASSUME NEW k \in ForServices
                 PROVE  \E t \in Hosts \X Numbers :
                            t[1] \notin Obsolete /\ k = Key("service_enumeration", t)
      OBVIOUS
    <3>1. PICK p \in ServiceUnknown :
            /\ ContextHosts # {}
            /\ LET t == <<IF p[1] \in ContextHosts THEN p[1] ELSE First(ContextHosts), p[2]>>
               IN  t[1] \notin Obsolete /\ k = Key("service_enumeration", t)
      BY DEF ForServices
    <3> QED BY <3>1
  <2>2. \A t \in Hosts \X Numbers : HostOf(Key("service_enumeration", t)) = t[1]
    BY ThingAssumption DEF HostOf, Key
  <2> QED BY <2>1, <2>2
<1>4. Fine(ForUnprobed)
  <2>1. \A k \in ForUnprobed : \E u \in Pages : k \in {Key("http_probe", u), <<"http_probe", u, "port">>}
    BY FirstIsOne DEF ForUnprobed
  <2> QED BY <2>1, <1>0 DEF PageActions
<1>5. Fine(ForPages)
  <2>1. \A k \in ForPages : \E a \in PageActions : \E u \in Pages : k = Key(a, u)
    BY FirstIsOne DEF ForPages, PageActions
  <2> QED BY <2>1, <1>0
<1>6. Fine(ForSubdomains)
  <2>1. \A k \in ForSubdomains : \E d \in Names : k = Key("subdomain_enumeration", d)
    BY DEF ForSubdomains
  <2> QED BY <2>1, <1>0
<1>7. Fine(FromOpenPorts)
  <2>1. \A k \in FromOpenPorts : \E u \in Pages : k = <<"http_probe", u, "port">>
    BY DEF FromOpenPorts
  <2> QED BY <2>1, <1>0
<1>8. Fine(FromDomains)
  <2>1. \A k \in FromDomains : \E h \in Hosts : k = Key("dns_enumeration", h)
    BY DEF FromDomains, Hosts
  <2> QED BY <2>1, <1>0
<1> QED BY <1>1, <1>2, <1>3, <1>4, <1>5, <1>6, <1>7, <1>8 DEF FromPlanner

\* What validation and the paths ask for are keys as well.
LEMMA OtherKeys ==
    ASSUME found \subseteq FactSet
    PROVE  Questioned \subseteq KeySet /\ FromPaths \subseteq KeySet
<1> USE FoundThings, HostsAsked, KeysOfThings
<1>1. Questioned \subseteq KeySet
  <2>1. \A k \in Questioned : \E a \in PageActions : \E u \in Pages : k = Key(a, u)
    BY DEF Questioned, PageActions
  <2> QED BY <2>1
<1>2. ASSUME NEW s \in PathSeeds PROVE Missing(s) \subseteq KeySet
  <2>1. PathHosts(s) \subseteq Hosts
    BY DEF PathHosts, PathSeeds
  <2>2. PathPorts(s) \subseteq Ports
    BY DEF PathPorts, PathSeeds
  <2>3. PathPages(s) \subseteq Pages
    BY DEF PathPages, PathSeeds
  <2>4. s[1] = "domain" => s[2] \in Names
    BY DEF PathSeeds
  <2>5. CASE PathHosts(s) \cap Names # {}
    BY <2>1, <2>5 DEF Missing
  <2>6. CASE PathHosts(s) \cap Names = {}
    <3> DEFINE hosts == PathHosts(s)  ports == PathPorts(s)  pages == PathPages(s)
    <3>1. ASSUME NEW k \in Missing(s)
          PROVE  \/ \E d \in Names : k = Key("subdomain_enumeration", d)
                 \/ \E h \in Hosts : k = Key("port_scan", h)
                 \/ \E p \in Ports : k = Key("service_enumeration", p)
                 \/ \E p \in Ports : k = <<"http_probe", <<p[1], p[2], Root>>, "port">>
                 \/ \E u \in Pages : k = Key("technology_detection", u)
                 \/ \E u \in Pages : k = Key("endpoint_discovery", u)
      <4>1. \/ k \in {Key("subdomain_enumeration", d) : d \in IF s[1] = "domain" THEN {s[2]} ELSE {}}
            \/ k \in {Key("port_scan", h) : h \in IF ports = {} THEN hosts ELSE {}}
            \/ k \in {Key("service_enumeration", p) : p \in ports \cap ServiceUnknown}
            \/ k \in {<<"http_probe", <<p[1], p[2], Root>>, "port">> :
                         p \in IF All("url") = {} THEN ports \cap OpenWebPorts ELSE {}}
            \/ k \in {Key("technology_detection", u) : u \in pages \ All("tech")}
            \/ k \in {Key("endpoint_discovery", u) : u \in pages \ All("end")}
        BY <2>6 DEF Missing
      <4> QED BY <2>1, <2>2, <2>3, <2>4, <4>1
    <3>2. /\ \A p \in Ports : Key("service_enumeration", p) \in KeySet
          /\ \A p \in Ports : <<"http_probe", <<p[1], p[2], Root>>, "port">> \in KeySet
          /\ \A u \in Pages : Key("technology_detection", u) \in KeySet
          /\ \A u \in Pages : Key("endpoint_discovery", u) \in KeySet
      BY DEF PageActions
    <3> HIDE FoundThings, HostsAsked
    <3> QED BY <3>1, <3>2
  <2> QED BY <2>5, <2>6
<1> QED BY <1>1, <1>2 DEF FromPaths

\* Whatever is offered is a key that has not run out, is no scan of an obsolete host, and
\* asks for names only while the network is blocked.
LEMMA OffersAreFair ==
    ASSUME found \subseteq FactSet, NEW o \in Offers
    PROVE  /\ o[1] \in KeySet /\ ~Exhausted(o[1])
           /\ ~IsPage(o[1]) /\ IpGated(o[1]) => HostOf(o[1]) \notin Obsolete
           /\ Blocks(net) => ~IpGated(o[1])
<1>1. \A K : Filtered(K) \subseteq K /\ \A k \in Filtered(K) : ~Exhausted(k) /\ (Blocks(net) => ~IpGated(k))
  BY DEF Filtered
<1>2. o[1] \in Filtered(FromPlanner) \cup Filtered(Questioned) \cup Filtered(FromPaths)
  <2>1. Filtered(FromValidation) \subseteq Filtered(Questioned)
    BY DEF FromValidation, Filtered
  <2> QED BY <2>1 DEF Offers, Sure
<1>3. \A k \in Questioned : IsPage(k)
  BY DEF Questioned, Key, IsPage, PageActions
<1>4. \A k \in FromPaths : ~IsPage(k) => HostOf(k) \notin Obsolete
  BY DEF FromPaths
<1> QED BY <1>1, <1>2, <1>3, <1>4, PlannerKeys, OtherKeys

--------------------------------------------------------------------------------
(***************************************************************************)
(* The inductive invariant                                                 *)
(***************************************************************************)
Probes == {"http_probe", "technology_detection"}
Scans == {"port_scan", "service_enumeration"}

\* What a resolver or a scan has left to ask
Queries == Range(RecordTypes) \cup {"bound"}

Jobs == [act : Actions \cup {"none"}, on : Hosts \cup (Hosts \X Numbers) \cup Pages \cup {NoPage},
         shape : {"url", "port", "none"},
         todo : Seq(Pages \cup {NoPage}) \cup Seq(Names) \cup Seq(Queries),
         at : Pages \cup {NoPage}, trail : Seq(Pages), good : Pages \cup {NoPage},
         learned : SUBSET FactSet, late : BOOLEAN, result : Results]

\* What is kept from one cycle to the next
KeptOK ==
    /\ found \subseteq FactSet /\ cov \in [KeySet -> Statuses] /\ links \subseteq Ifaces
    /\ phase \in {"observe", "select", "work", "rest", "over"}
    /\ net \in {"UNKNOWN", "REACHABLE", "BLOCKED", "ROUTE_MISSING"}
    /\ target \in [now : Hosts, seen : SUBSET Hosts, resolved : Seq(Addresses)]
    /\ target.now \in target.seen /\ Range(target.resolved) \subseteq target.seen

\* An action at work is aimed at a key in scope, and asks for things of its kind
AimOK ==
    /\ JobKey \in KeySet /\ Allowed(HostOf(JobKey))
    /\ IsPage(JobKey) => job.at \in Pages /\ Allowed(job.at[1])
    /\ job.act = "directory_enumeration" => job.todo \in Seq(Pages \cup {NoPage})
    /\ job.act = "subdomain_enumeration" => job.todo \in Seq(Names)

\* The pages a probe has asked for are in scope and differ, and while it runs the one it
\* asks for next is none of them
TrailOK ==
    /\ \A i \in DOMAIN job.trail : Allowed(job.trail[i][1])
    /\ \A i, j \in DOMAIN job.trail : i # j => job.trail[i] # job.trail[j]
    /\ Len(job.trail) <= MaxRedirects + 1
    /\ Running(Probes) => /\ Len(job.trail) <= MaxRedirects
                          /\ \A i \in DOMAIN job.trail : job.trail[i] # job.at

\* What a probe or a fingerprint has told is in the answer it was stored with
Answered(told) ==
    \E last \in Pages : <<job.on, last, TRUE>> \in files
                        /\ Parsed(job.act, job.on, last) \subseteq told

\* Of each word of an enumeration the status is told, or it is left to ask
Enumerated(left, told, ends) ==
    job.act = "directory_enumeration" =>
        /\ ends = "running" =>
              \A u \in ToSet(Words[job.on]) : u \in ToSet(left) \/ <<"status", u>> \in told
        /\ ends = "completed" =>
              job.on[1] \in WildHosts \/ \A u \in ToSet(Words[job.on]) : <<"status", u>> \in told

\* What the result of an action at work is worth
ResultOK ==
    /\ job.result = "completed" /\ job.act \in Probes => Answered(job.learned)
    /\ Enumerated(job.todo, job.learned, job.result)
    /\ job.result = "unavailable" => job.act \in Scans

JobOK == job \in Jobs /\ (phase = "work" => AimOK /\ TrailOK /\ ResultOK)

CycleInv ==
    /\ KeptOK /\ JobOK
    /\ CoverageIsEarned
    /\ OldAddressesLeftAlone
    /\ phase = "rest" => Sure = {}

--------------------------------------------------------------------------------
(***************************************************************************)
(* What an answer may tell                                                 *)
(***************************************************************************)
\* Whatever a page, a word, a record or a scan tells is a fact of the mission.
LEMMA AnswersAreFacts ==
    /\ \A a : \A u, v \in Pages : Parsed(a, u, v) \subseteq FactSet
    /\ \A u \in Pages : WordFacts(u) \subseteq FactSet /\ LinkFacts(u) \subseteq FactSet
    /\ \A u \in Pages : {<<"url", u>>, <<"status", u>>} \subseteq FactSet
    /\ \A d, h \in Names : RecordFacts(d, h) \subseteq FactSet /\ <<"sub", d>> \in FactSet
<1>1. /\ \A u \in Pages : /\ <<"url", u>> \in FactSet /\ <<"status", u>> \in FactSet
                         /\ <<"tech", u>> \in FactSet /\ <<"end", u>> \in FactSet
      /\ \A d \in Names : /\ <<"domain", d>> \in FactSet /\ <<"records", d>> \in FactSet
                         /\ <<"sub", d>> \in FactSet
      /\ \A h \in Hosts : <<"alias", h>> \in FactSet
  BY DEF FactSet
<1>0. /\ \A S \in SUBSET Pages : /\ {"url", "end"} \X S \subseteq FactSet
                               /\ {"param"} \X S \subseteq FactSet
      /\ \A S \in SUBSET Hosts : {"host"} \X S \subseteq FactSet
  BY DEF FactSet
<1>2. ASSUME NEW a, NEW u \in Pages, NEW v \in Pages
      PROVE  Parsed(a, u, v) \subseteq FactSet
  <2>1. Site[v].links \subseteq Pages
    BY SiteAssumption
  <2>2. {l \in Site[v].links : l[1] = u[1]} \in SUBSET Pages
    BY <2>1
  <2>3. {"url", "end"} \X {l \in Site[v].links : l[1] = u[1]} \subseteq FactSet
    BY <1>0, <2>2
  <2>4. {<<"tech", u>>} \subseteq FactSet
    BY <1>1
  <2>5. {<<"url", u>>, <<"status", u>>, <<"end", u>>} \subseteq FactSet
    BY <1>1
  <2>6. HttpFacts(u, v) \subseteq FactSet
    BY <2>3, <2>4, <2>5 DEF HttpFacts
  <2>7. TechFacts(u, v) \subseteq FactSet
    BY <2>4 DEF TechFacts
  <2> QED BY <2>6, <2>7 DEF Parsed
<1>3. ASSUME NEW u \in Pages PROVE WordFacts(u) \subseteq FactSet
  <2>1. Site[u].to \in Pages \cup {NoPage}
    BY SiteAssumption
  <2> QED BY <1>1, <2>1 DEF WordFacts
<1>4. ASSUME NEW u \in Pages PROVE LinkFacts(u) \subseteq FactSet
  <2>1. Site[u].links \subseteq Pages
    BY SiteAssumption
  <2>2. /\ {l \in Site[u].links : l[1] = u[1]} \in SUBSET Pages
        /\ {l \in Site[u].links : l[1] = u[1]} \cap Site[u].params \in SUBSET Pages
    BY <2>1
  <2> QED BY <1>0, <2>2 DEF LinkFacts
<1>5. ASSUME NEW d \in Names, NEW h \in Names PROVE RecordFacts(d, h) \subseteq FactSet
  <2>1. AddressesOf(h) \in SUBSET Hosts /\ h \in Hosts
    BY NameAssumption DEF AddressesOf, Hosts
  <2>2. {"host"} \X AddressesOf(h) \subseteq FactSet
    BY <1>0, <2>1
  <2> QED BY <1>1, <2>1, <2>2 DEF RecordFacts
<1>6. /\ \A u \in Pages : {<<"url", u>>, <<"status", u>>} \subseteq FactSet
      /\ \A d \in Names : <<"sub", d>> \in FactSet
  BY <1>1
<1> QED BY <1>2, <1>3, <1>4, <1>5, <1>6

\* What a resolver says of a host that has addresses is a fact: only names have any.
LEMMA RecordsAreFacts ==
    ASSUME NEW h \in Hosts, AddressesOf(h) # {}
    PROVE  RecordFacts(h, h) \subseteq FactSet
<1>1. h \in Names
  BY DEF AddressesOf
<1> QED BY <1>1, AnswersAreFacts

\* What a scan lists are facts.
LEMMA ScansAreFacts ==
    ASSUME JobKey \in KeySet, job.act \in Scans
    PROVE  ScanFacts \subseteq FactSet
<1>1. /\ \A S \in SUBSET Hosts : {"host"} \X S \subseteq FactSet /\ {"alias"} \X S \subseteq FactSet
      /\ \A S \in SUBSET Ports : /\ {"port"} \X S \subseteq FactSet
                               /\ {"named"} \X S \subseteq FactSet
                               /\ {"http"} \X S \subseteq FactSet
  BY DEF FactSet
<1>2. ASSUME NEW S, S \subseteq Ports, NEW f PROVE NamedFacts(S, f) \subseteq FactSet
  <2>1. /\ S \in SUBSET Ports /\ {p \in S : f[p] # "unknown"} \in SUBSET Ports
        /\ {p \in S : f[p] = "http"} \in SUBSET Ports
    BY <1>2
  <2> QED BY <1>1, <2>1 DEF NamedFacts
<1>3. ASSUME NEW h \in Hosts
      PROVE  ({"host"} \X Scanned(h)) \cup ({"alias"} \X ({h} \cap Names)) \subseteq FactSet
  <2>1. Scanned(h) \in SUBSET Hosts /\ {h} \cap Names \in SUBSET Hosts
    BY NameAssumption DEF Scanned, Hosts
  <2> QED BY <1>1, <2>1
<1>4. CASE job.act = "port_scan"
  <2>1. job.on \in Hosts
    BY <1>4, KeyParts DEF JobKey
  <2>2. {p \in Open : p[1] \in Scanned(job.on)} \subseteq Ports
    BY NameAssumption
  <2> QED BY <1>2, <1>3, <1>4, <2>1, <2>2 DEF ScanFacts
<1>5. CASE job.act = "service_enumeration"
  <2>1. job.on[1] \in Hosts
    BY <1>5, KeyParts DEF JobKey
  <2>2. {p \in Open : p[1] \in Scanned(job.on[1]) /\ p[2] = job.on[2]} \subseteq Ports
    BY NameAssumption
  <2> QED BY <1>2, <1>3, <1>5, <2>1, <2>2 DEF ScanFacts
<1> QED BY <1>4, <1>5 DEF Scans

--------------------------------------------------------------------------------
(***************************************************************************)
(* One request, query or process                                           *)
(***************************************************************************)
\* What a step of an action leaves: the same action, aimed at the same key
GoesOn ==
    /\ job' \in Jobs
    /\ job'.act = job.act /\ job'.on = job.on /\ job'.shape = job.shape
    /\ AimOK' /\ TrailOK' /\ ResultOK'

\* The scope is frozen, and the key of an action at work is that of a page if and only if
\* the action is one of those.
LEMMA AtWork ==
    ASSUME JobOK, phase = "work"
    PROVE  /\ job \in Jobs /\ AimOK /\ TrailOK /\ ResultOK
           /\ JobKey[1] = job.act /\ JobKey[2] = job.on /\ JobKey[3] = job.shape
           /\ IsPage(JobKey) <=> job.act \in PageActions
           /\ job.act \in PageActions => job.on \in Pages /\ job.at \in Pages /\ Allowed(job.at[1])
           /\ job.act = "dns_enumeration" => job.on \in Hosts
           /\ job.act = "subdomain_enumeration" => job.on \in Names
<1>1. JobKey[1] = job.act /\ JobKey[2] = job.on /\ JobKey[3] = job.shape
  BY DEF JobKey
<1>2. JobKey \in KeySet /\ (IsPage(JobKey) <=> job.act \in PageActions)
  BY <1>1 DEF JobOK, AimOK, IsPage
<1> QED BY <1>1, <1>2, KeyParts DEF JobOK, AimOK

\* The job after a step that asks for no page
With(left, told, late, ends) ==
    [job EXCEPT !.todo = left, !.learned = told, !.late = late, !.result = ends]

\* The steps of the adapters in that form.
LEMMA QuietForms ==
    ASSUME job \in Jobs
    PROVE  \A left, told, ends :
              /\ Goes(ends) => job' = With(job.todo, job.learned, job.late, ends)
              /\ Ends(ends, told) => job' = With(job.todo, told, job.late, ends)
              /\ LateEnd(ends, told) =>
                    \E late \in BOOLEAN : job' = With(job.todo, told, late, ends)
              /\ [job EXCEPT !.todo = left] = With(left, job.learned, job.late, job.result)
              /\ [job EXCEPT !.todo = left, !.learned = told]
                    = With(left, told, job.late, job.result)
<1> TAKE left, told, ends
<1>1. Goes(ends) => job' = With(job.todo, job.learned, job.late, ends)
  BY DEF Jobs, With, Goes
<1>2. Ends(ends, told) => job' = With(job.todo, told, job.late, ends)
  BY DEF Jobs, With, Ends
<1>3. LateEnd(ends, told) => \E late \in BOOLEAN : job' = With(job.todo, told, late, ends)
  <2>1. [job EXCEPT !.result = ends, !.learned = told, !.late = TRUE]
           = With(job.todo, told, TRUE, ends)
    BY DEF Jobs, With
  <2> QED BY <2>1, Zenon DEF LateEnd
<1>4. [job EXCEPT !.todo = left] = With(left, job.learned, job.late, job.result)
  BY DEF Jobs, With
<1>5. [job EXCEPT !.todo = left, !.learned = told] = With(left, told, job.late, job.result)
  BY DEF Jobs, With
<1> QED BY <1>1, <1>2, <1>3, <1>4, <1>5

\* Such a step, or one that ends the action, leaves the trail as it was.
LEMMA QuietStep ==
    ASSUME JobOK, phase = "work", scope' = scope, job.result = "running",
           NEW left, NEW told, NEW late, NEW ends,
           job' = With(left, told, late, ends),
           left \in Seq(Pages \cup {NoPage}) \cup Seq(Names) \cup Seq(Queries),
           told \in SUBSET FactSet, late \in BOOLEAN, ends \in Results,
           job.act \in Probes => ends \in {"timeout", "failed", "raised"},
           ends = "unavailable" => job.act \in Scans,
           job.act = "directory_enumeration" => left \in Seq(Pages \cup {NoPage}),
           job.act = "subdomain_enumeration" => left \in Seq(Names),
           Enumerated(left, told, ends)
    PROVE  GoesOn
<1>1. job \in Jobs /\ AimOK /\ TrailOK /\ ResultOK
  BY AtWork
<1>2. job' \in Jobs
  BY <1>1 DEF Jobs, With
<1>3. /\ job'.act = job.act /\ job'.on = job.on /\ job'.shape = job.shape
      /\ job'.at = job.at /\ job'.trail = job.trail
      /\ job'.todo = left /\ job'.learned = told /\ job'.result = ends
  BY <1>1 DEF Jobs, With
<1>4. JobKey' = JobKey /\ \A h : Allowed(h)' <=> Allowed(h)
  BY <1>3 DEF JobKey, Allowed
<1>5. AimOK'
  BY <1>1, <1>3, <1>4 DEF AimOK, IsPage, HostOf, Allowed
<1>6. TrailOK'
  <2>1. ~Running(Probes)'
    BY <1>3 DEF Running
  <2> QED BY <1>1, <1>3, <1>4, <2>1 DEF TrailOK, Allowed
<1>7. ResultOK'
  <2>1. Enumerated(job.todo, job.learned, job.result)'
    BY <1>3 DEF Enumerated
  <2> QED BY <1>3, <2>1 DEF ResultOK
<1> QED BY <1>2, <1>3, <1>5, <1>6, <1>7 DEF GoesOn

\* An action that asks for no words, or one that has failed, has none to account for.
LEMMA NothingEnumerated ==
    ASSUME NEW left, NEW told, NEW ends,
           job.act # "directory_enumeration" \/ ends \notin {"running", "completed"}
    PROVE  Enumerated(left, told, ends)
BY DEF Enumerated

\* A query has a head to drop.
LEMMA Dropped ==
    ASSUME NEW S, NEW s \in Seq(S), s # <<>>
    PROVE  /\ Head(s) \in S /\ Tail(s) \in Seq(S)
           /\ \A x \in ToSet(s) : x = Head(s) \/ x \in ToSet(Tail(s))
<1>1. Head(s) \in S /\ Tail(s) \in Seq(S)
  OBVIOUS
<1>2. ASSUME NEW i \in 1..Len(s), i # 1
      PROVE  s[i] \in ToSet(Tail(s))
  <2>1. i - 1 \in 1..Len(Tail(s)) /\ Tail(s)[i - 1] = s[i]
    BY <1>2
  <2>2. DOMAIN Tail(s) = 1..Len(Tail(s))
    BY <1>1
  <2> QED BY <2>1, <2>2 DEF ToSet
<1>3. s[1] = Head(s)
  OBVIOUS
<1> QED BY <1>1, <1>2, <1>3 DEF ToSet

\* The word list of a page: canaries, words and the end of the list.
LEMMA WordsGoOn ==
    ASSUME JobOK, phase = "work", scope' = scope, Canary \/ Word \/ WordsDone
    PROVE  GoesOn
<1>1. /\ job \in Jobs /\ job.act = "directory_enumeration" /\ job.result = "running"
      /\ job.on \in Pages /\ job.todo \in Seq(Pages \cup {NoPage})
  BY AtWork DEF Canary, Word, WordsDone, Running, AimOK, PageActions
<1>2. /\ job.learned \in SUBSET FactSet /\ job.late \in BOOLEAN
      /\ job.act \notin Probes /\ job.act # "subdomain_enumeration"
  BY <1>1 DEF Jobs, Probes
<1>3. /\ Enumerated(job.todo, job.learned, "running")
      /\ ToSet(Words[job.on]) \subseteq Pages
  <2>1. Words[job.on] \in Seq(Pages)
    BY <1>1, SiteAssumption
  <2> QED BY <1>1, <2>1, AtWork DEF ResultOK, ToSet
<1>4. \A ends \in {"failed", "timeout"} : Enumerated(job.todo, {}, ends)
  BY NothingEnumerated
<1>5. CASE Canary
  <2>1. \/ /\ job' = [job EXCEPT !.todo = Tail(job.todo)]
           /\ job.todo # <<>> /\ Head(job.todo) = NoPage
        \/ Ends("completed", {<<"url", job.on>>}) /\ job.on[1] \in WildHosts
        \/ Ends("failed", {}) \/ LateEnd("timeout", {})
    BY <1>5 DEF Canary
  <2>2. CASE /\ job' = [job EXCEPT !.todo = Tail(job.todo)]
             /\ job.todo # <<>> /\ Head(job.todo) = NoPage
    <3>1. job' = With(Tail(job.todo), job.learned, job.late, "running")
      BY <1>1, <2>2, QuietForms
    <3>2. Enumerated(Tail(job.todo), job.learned, "running")
      BY <1>1, <1>3, <2>2, Dropped, SiteAssumption DEF Enumerated
    <3> QED BY <1>1, <1>2, <2>2, <3>1, <3>2, Dropped, QuietStep DEF Results
  <2>3. CASE Ends("completed", {<<"url", job.on>>}) /\ job.on[1] \in WildHosts
    <3>1. job' = With(job.todo, {<<"url", job.on>>}, job.late, "completed")
      BY <1>1, <2>3, QuietForms
    <3>2. {<<"url", job.on>>} \in SUBSET FactSet
      BY <1>1, AnswersAreFacts
    <3>3. Enumerated(job.todo, {<<"url", job.on>>}, "completed")
      BY <2>3 DEF Enumerated
    <3>4. \A told \in SUBSET FactSet :
             /\ job' = With(job.todo, told, job.late, "completed")
             /\ Enumerated(job.todo, told, "completed")
             => GoesOn
      BY <1>1, <1>2, QuietStep DEF Results
    <3> QED BY <3>1, <3>2, <3>3, <3>4, Zenon
  <2>4. CASE Ends("failed", {})
    <3>1. job' = With(job.todo, {}, job.late, "failed")
      BY <1>1, <2>4, QuietForms
    <3> QED BY <1>1, <1>2, <1>4, <3>1, QuietStep DEF Results
  <2>5. CASE LateEnd("timeout", {})
    <3>1. \E late \in BOOLEAN : job' = With(job.todo, {}, late, "timeout")
      BY <1>1, <2>5, QuietForms
    <3> QED BY <1>1, <1>2, <1>4, <3>1, QuietStep DEF Results
  <2> QED BY <2>1, <2>2, <2>3, <2>4, <2>5
<1>6. CASE Word
  <2> DEFINE page == Head(job.todo)
  <2>1. /\ page \in Pages /\ Tail(job.todo) \in Seq(Pages \cup {NoPage})
        /\ \/ \E facts \in {WordFacts(page), {<<"url", page>>, <<"status", page>>}} :
                 job' = [job EXCEPT !.todo = Tail(job.todo), !.learned = @ \cup facts]
           \/ LateEnd("timeout", {})
    BY <1>1, <1>6, Dropped DEF Word
  <2>2. CASE LateEnd("timeout", {})
    <3>1. \E late \in BOOLEAN : job' = With(job.todo, {}, late, "timeout")
      BY <1>1, <2>2, QuietForms
    <3> QED BY <1>1, <1>2, <1>4, <3>1, QuietStep DEF Results
  <2>3. ASSUME NEW facts \in {WordFacts(page), {<<"url", page>>, <<"status", page>>}},
               job' = [job EXCEPT !.todo = Tail(job.todo), !.learned = @ \cup facts]
        PROVE  GoesOn
    <3>1. job' = With(Tail(job.todo), job.learned \cup facts, job.late, "running")
      BY <1>1, <2>3, QuietForms
    <3>2. job.learned \cup facts \in SUBSET FactSet
      BY <1>2, <2>1, AnswersAreFacts
    <3>3. <<"status", page>> \in facts
      BY DEF WordFacts
    <3>4. \A u \in ToSet(job.todo) : u = page \/ u \in ToSet(Tail(job.todo))
      BY <1>1, <1>6, Dropped DEF Word
    <3>5. Enumerated(Tail(job.todo), job.learned \cup facts, "running")
      BY <1>3, <3>3, <3>4 DEF Enumerated
    <3> QED BY <1>1, <1>2, <2>1, <3>1, <3>2, <3>5, QuietStep DEF Results
  <2> QED BY <2>1, <2>2, <2>3
<1>7. CASE WordsDone
  <2>1. job.todo = <<>> /\ (Ends("timeout", {}) \/ Goes("completed"))
    BY <1>7 DEF WordsDone
  <2>2. \/ job' = With(job.todo, {}, job.late, "timeout")
        \/ job' = With(job.todo, job.learned, job.late, "completed")
    BY <1>1, <2>1, QuietForms
  <2>3. CASE job' = With(job.todo, {}, job.late, "timeout")
    BY <1>1, <1>2, <1>4, <2>3, QuietStep DEF Results
  <2>4. CASE job' = With(job.todo, job.learned, job.late, "completed")
    <3>1. Enumerated(job.todo, job.learned, "completed")
      BY <1>3, <2>1 DEF Enumerated, ToSet
    <3> QED BY <1>1, <1>2, <2>4, <3>1, QuietStep DEF Results
  <2> QED BY <2>2, <2>3, <2>4
<1> QED BY <1>5, <1>6, <1>7

\* The queries of the resolver and of the name word list, and their end.
LEMMA NamesGoOn ==
    ASSUME JobOK, phase = "work", scope' = scope, DnsQuery \/ SubdomainQuery \/ NamesDone
    PROVE  GoesOn
<1>1. /\ job \in Jobs /\ job.act \in {"dns_enumeration", "subdomain_enumeration"}
      /\ job.result = "running"
      /\ job.act = "dns_enumeration" => job.on \in Hosts
      /\ job.act = "subdomain_enumeration" => job.on \in Names /\ job.todo \in Seq(Names)
  BY AtWork DEF DnsQuery, SubdomainQuery, NamesDone, Running, AimOK
<1>2. /\ job.learned \in SUBSET FactSet /\ job.late \in BOOLEAN
      /\ job.act \notin Probes /\ job.act # "directory_enumeration"
      /\ job.todo \in Seq(Pages \cup {NoPage}) \cup Seq(Names) \cup Seq(Queries)
  BY <1>1 DEF Jobs, Probes
<1>0. \A left, told, ends : Enumerated(left, told, ends)
  BY <1>2, NothingEnumerated
<1>3. job.todo # <<>> =>
        /\ Tail(job.todo) \in Seq(Pages \cup {NoPage}) \cup Seq(Names) \cup Seq(Queries)
        /\ job.act = "subdomain_enumeration" =>
              Tail(job.todo) \in Seq(Names) /\ Head(job.todo) \in Names
  BY <1>1, <1>2, Dropped
<1>4. ASSUME NEW facts \in SUBSET FactSet, job.todo # <<>>,
             job' = With(Tail(job.todo), facts, job.late, "running")
      PROVE  GoesOn
  <2>1. Enumerated(Tail(job.todo), facts, "running")
    BY <1>0
  <2>2. /\ Tail(job.todo) \in Seq(Pages \cup {NoPage}) \cup Seq(Names) \cup Seq(Queries)
        /\ job.act = "subdomain_enumeration" => Tail(job.todo) \in Seq(Names)
    BY <1>3, <1>4
  <2>3. "running" \in Results /\ "running" # "unavailable"
    BY DEF Results
  <2> QED BY <1>1, <1>2, <1>4, <2>1, <2>2, <2>3, QuietStep
<1>5. ASSUME NEW facts \in SUBSET FactSet, job.todo # <<>>,
             job' = [job EXCEPT !.todo = Tail(job.todo), !.learned = facts]
      PROVE  GoesOn
  <2>1. job' = With(Tail(job.todo), facts, job.late, "running")
    BY <1>1, <1>5, QuietForms
  <2> QED BY <1>4, <1>5, <2>1
<1>6. ASSUME job' = [job EXCEPT !.todo = Tail(job.todo)], job.todo # <<>>
      PROVE  GoesOn
  <2>1. job' = With(Tail(job.todo), job.learned, job.late, "running")
    BY <1>1, <1>6, QuietForms
  <2> QED BY <1>2, <1>4, <1>6, <2>1
<1>7. ASSUME NEW ends \in {"timeout", "completed"}, NEW late \in BOOLEAN,
             job' = With(job.todo, job.learned, late, ends)
      PROVE  GoesOn
  <2>1. Enumerated(job.todo, job.learned, ends)
    BY <1>0
  <2>2. ends \in Results /\ ends # "unavailable"
    BY DEF Results
  <2> QED BY <1>1, <1>2, <1>7, <2>1, <2>2, QuietStep
<1>8. ASSUME Goes("completed") PROVE GoesOn
  <2>1. job' = With(job.todo, job.learned, job.late, "completed")
    BY <1>1, <1>8, QuietForms
  <2> QED BY <1>2, <1>7, <2>1
<1>9. ASSUME LateEnd(IF job.learned = {} THEN "timeout" ELSE "completed", job.learned)
      PROVE  GoesOn
  <2>1. PICK ends \in {"timeout", "completed"} : LateEnd(ends, job.learned)
    BY <1>9, Zenon
  <2>2. \E late \in BOOLEAN : job' = With(job.todo, job.learned, late, ends)
    BY <1>1, <2>1, QuietForms
  <2> QED BY <1>7, <2>2
<1>10. CASE DnsQuery
  <2>1. /\ job.todo # <<>> /\ job.act = "dns_enumeration"
        /\ \/ Goes("completed")
           \/ /\ AddressesOf(job.on) # {}
              /\ job' = [job EXCEPT !.todo = Tail(job.todo),
                                    !.learned = IF Head(job.todo) = "A"
                                                THEN RecordFacts(job.on, job.on)
                                                ELSE job.learned]
           \/ job' = [job EXCEPT !.todo = Tail(job.todo)]
           \/ LateEnd(IF job.learned = {} THEN "timeout" ELSE "completed", job.learned)
    BY <1>1, <1>10 DEF DnsQuery, Running, Jobs
  <2>2. AddressesOf(job.on) # {} => RecordFacts(job.on, job.on) \in SUBSET FactSet
    BY <1>1, <2>1, RecordsAreFacts
  <2>3. AddressesOf(job.on) # {} =>
          (IF Head(job.todo) = "A" THEN RecordFacts(job.on, job.on) ELSE job.learned)
             \in SUBSET FactSet
    BY <1>2, <2>2
  <2> QED BY <1>5, <1>6, <1>8, <1>9, <2>1, <2>3
<1>11. CASE SubdomainQuery
  <2> DEFINE name == Head(job.todo)
  <2>1. /\ job.todo # <<>> /\ job.act = "subdomain_enumeration"
        /\ \/ \E facts \in {{}, RecordFacts(job.on, name) \cup {<<"sub", job.on>>}} :
                 job' = [job EXCEPT !.todo = Tail(job.todo), !.learned = job.learned \cup facts]
           \/ LateEnd(IF job.learned = {} THEN "timeout" ELSE "completed", job.learned)
    BY <1>1, <1>11 DEF SubdomainQuery, Running, Jobs
  <2>2. ASSUME NEW facts \in SUBSET FactSet,
               job' = [job EXCEPT !.todo = Tail(job.todo), !.learned = job.learned \cup facts]
        PROVE  GoesOn
    <3>1. job.learned \cup facts \in SUBSET FactSet
      BY <1>2
    <3> QED BY <1>5, <2>1, <2>2, <3>1
  <2>3. {} \in SUBSET FactSet
    OBVIOUS
  <2>4. RecordFacts(job.on, name) \cup {<<"sub", job.on>>} \in SUBSET FactSet
    BY <1>1, <1>3, <2>1, AnswersAreFacts
  <2> QED BY <1>9, <2>1, <2>2, <2>3, <2>4
<1>12. CASE NamesDone
  BY <1>8, <1>12 DEF NamesDone
<1> QED BY <1>10, <1>11, <1>12

\* A scan, and the reading of stored pages.
LEMMA ScansGoOn ==
    ASSUME JobOK, phase = "work", scope' = scope, Scan \/ Endpoints
    PROVE  GoesOn
<1>1. /\ job \in Jobs /\ job.result = "running" /\ JobKey \in KeySet
      /\ job.act \in Scans \cup {"endpoint_discovery"}
      /\ job.act = "endpoint_discovery" => job.on \in Pages
  BY AtWork DEF Scan, Endpoints, Running, AimOK, Scans, PageActions
<1>2. /\ job.learned \in SUBSET FactSet /\ job.late \in BOOLEAN
      /\ job.todo \in Seq(Pages \cup {NoPage}) \cup Seq(Names) \cup Seq(Queries)
      /\ job.act \notin Probes
      /\ job.act # "directory_enumeration" /\ job.act # "subdomain_enumeration"
  BY <1>1 DEF Jobs, Probes, Scans
<1>0. \A left, told, ends : Enumerated(left, told, ends)
  BY <1>2, NothingEnumerated
<1>3. ASSUME NEW told \in SUBSET FactSet, NEW ends \in Results,
             Ends(ends, told) \/ LateEnd(ends, told), ends = "unavailable" => job.act \in Scans
      PROVE  GoesOn
  <2>1. \E late \in BOOLEAN : job' = With(job.todo, told, late, ends)
    BY <1>1, <1>2, <1>3, QuietForms
  <2> QED BY <1>1, <1>2, <1>3, <2>1, <1>0, QuietStep
<1>4. CASE Scan
  <2>1. job.act \in Scans
    BY <1>4 DEF Scan, Running, Scans
  <2>2. ScanFacts \in SUBSET FactSet
    BY <1>1, <2>1, ScansAreFacts
  <2>3. \/ Ends("completed", ScanFacts) \/ Ends("completed", {}) \/ LateEnd("timeout", {})
        \/ \E result \in {"retry", "failed", "broken", "unavailable"} : Ends(result, {})
        \/ job' = [job EXCEPT !.todo = <<>>]
    BY <1>4 DEF Scan
  <2>4. CASE job' = [job EXCEPT !.todo = <<>>]
    <3>1. job' = With(<<>>, job.learned, job.late, "running")
      BY <1>1, <2>4, QuietForms
    <3>2. <<>> \in Seq(Pages \cup {NoPage}) \cup Seq(Names) \cup Seq(Queries)
      OBVIOUS
    <3> QED BY <1>1, <1>2, <3>1, <3>2, <1>0, QuietStep DEF Results
  <2>5. CASE Ends("completed", ScanFacts) \/ Ends("completed", {}) \/ LateEnd("timeout", {})
    BY <1>3, <2>2, <2>5 DEF Results
  <2>6. CASE \E result \in {"retry", "failed", "broken", "unavailable"} : Ends(result, {})
    BY <1>3, <2>1, <2>6 DEF Results
  <2> QED BY <2>3, <2>4, <2>5, <2>6
<1>5. CASE Endpoints
  <2>1. job.on \in Pages /\ (Ends("completed", LinkFacts(job.on)) \/ Ends("completed", {}))
    BY <1>1, <1>5 DEF Endpoints, Running
  <2>2. LinkFacts(job.on) \in SUBSET FactSet
    BY <2>1, AnswersAreFacts
  <2> QED BY <1>3, <2>1, <2>2 DEF Results
<1> QED BY <1>4, <1>5

\* An error nothing catches: the action ends as it is.
LEMMA RaiseGoesOn ==
    ASSUME JobOK, phase = "work", scope' = scope, HttpRaises
    PROVE  GoesOn
<1>1. /\ job \in Jobs /\ job.result = "running" /\ Goes("raised")
      /\ job.act \in Probes \cup {"directory_enumeration"}
      /\ job.act = "directory_enumeration" => job.todo \in Seq(Pages \cup {NoPage})
  BY AtWork DEF HttpRaises, Running, AimOK, Probes
<1>2. /\ job.learned \in SUBSET FactSet /\ job.late \in BOOLEAN
      /\ job.todo \in Seq(Pages \cup {NoPage}) \cup Seq(Names) \cup Seq(Queries)
      /\ job.act # "subdomain_enumeration"
      /\ Enumerated(job.todo, job.learned, "raised")
  BY <1>1, NothingEnumerated DEF Jobs, Probes
<1>3. job' = With(job.todo, job.learned, job.late, "raised")
  BY <1>1, QuietForms
<1> QED BY <1>1, <1>2, <1>3, QuietStep DEF Results

\* One page more on the trail is one that was not asked before.
LEMMA TrailGrows ==
    ASSUME JobOK, phase = "work", Running(Probes)
    PROVE  LET trail == Asked(job.at)
           IN  /\ trail \in Seq(Pages) /\ Len(trail) = Len(job.trail) + 1
               /\ Len(job.trail) <= MaxRedirects
               /\ \A i \in DOMAIN trail : Allowed(trail[i][1])
               /\ \A i, j \in DOMAIN trail : i # j => trail[i] # trail[j]
               /\ \A i \in DOMAIN trail :
                     trail[i] = job.at \/ \E j \in DOMAIN job.trail : trail[i] = job.trail[j]
<1>1. /\ job.trail \in Seq(Pages) /\ job.at \in Pages /\ Allowed(job.at[1]) /\ TrailOK
  BY AtWork DEF Running, Probes, PageActions, Jobs
<1> DEFINE trail == Append(job.trail, job.at)
<1>2. /\ trail \in Seq(Pages) /\ Len(trail) = Len(job.trail) + 1
      /\ Len(job.trail) \in Nat /\ DOMAIN trail = 1..Len(job.trail) + 1
      /\ DOMAIN job.trail = 1..Len(job.trail)
      /\ \A i \in DOMAIN job.trail : trail[i] = job.trail[i]
      /\ trail[Len(job.trail) + 1] = job.at
  BY <1>1
<1>3. \A i \in DOMAIN trail : i \in DOMAIN job.trail \/ i = Len(job.trail) + 1
  BY <1>2
<1>4. \A i \in DOMAIN trail : Allowed(trail[i][1])
  BY <1>1, <1>2, <1>3 DEF TrailOK
<1>5. \A i, j \in DOMAIN trail : i # j => trail[i] # trail[j]
  BY <1>1, <1>2, <1>3 DEF TrailOK
<1>6. Len(job.trail) <= MaxRedirects
  BY <1>1 DEF TrailOK
<1>7. \A i \in DOMAIN trail :
        trail[i] = job.at \/ \E j \in DOMAIN job.trail : trail[i] = job.trail[j]
  BY <1>2, <1>3
<1> QED BY <1>2, <1>4, <1>5, <1>6, <1>7 DEF Asked

\* A probe that ends leaves a trail of pages in scope that differ.
LEMMA ProbeEnds ==
    ASSUME JobOK, phase = "work", scope' = scope, Running(Probes), NEW ends \in Results \ {"running"},
           ends # "unavailable", job' \in Jobs,
           job'.act = job.act, job'.on = job.on, job'.shape = job.shape, job'.at = job.at,
           job'.todo = job.todo, job'.trail = Asked(job.at), job'.result = ends,
           ends = "completed" => Answered(job.learned)'
    PROVE  GoesOn
<1>1. job \in Jobs /\ AimOK /\ job.act \in Probes
  BY AtWork DEF Running
<1>2. JobKey' = JobKey /\ \A h : Allowed(h)' <=> Allowed(h)
  BY DEF JobKey, Allowed
<1>3. AimOK'
  BY <1>1, <1>2 DEF AimOK, IsPage, HostOf, Allowed
<1>4. Len(job.trail) \in Nat /\ MaxRedirects \in Nat
  BY <1>1, SiteAssumption DEF Jobs
<1>5. TrailOK'
  <2> DEFINE trail == Asked(job.at)
  <2>1. /\ Len(trail) = Len(job.trail) + 1 /\ Len(job.trail) <= MaxRedirects
        /\ \A i \in DOMAIN trail : Allowed(trail[i][1])
        /\ \A i, j \in DOMAIN trail : i # j => trail[i] # trail[j]
    BY TrailGrows
  <2>2. ~Running(Probes)'
    BY DEF Running
  <2>3. job'.trail = trail
    OBVIOUS
  <2> HIDE DEF trail
  <2> QED BY <1>4, <2>1, <2>2, <2>3 DEF TrailOK, Allowed
<1>6. ResultOK'
  <2>1. Enumerated(job.todo, job.learned, job.result)'
    BY <1>1 DEF Enumerated, Probes
  <2> QED BY <2>1 DEF ResultOK
<1> QED BY <1>3, <1>5, <1>6 DEF GoesOn

\* A page answers, and the probe follows its redirect or is done.
LEMMA AnswerGoesOn ==
    ASSUME JobOK, phase = "work", scope' = scope, HttpAnswered
    PROVE  GoesOn
<1>1. /\ job \in Jobs /\ AimOK /\ Running(Probes) /\ job.act \in Probes /\ job.result = "running"
      /\ job.on \in Pages /\ job.at \in Pages /\ Asked(job.at) \in Seq(Pages)
  BY AtWork, TrailGrows DEF HttpAnswered, Running, Probes, PageActions
<1>2. CASE Follows(job.at)
  <2> DEFINE to == Site[job.at].to  trail == Asked(job.at)
  <2>1. job' = [job EXCEPT !.trail = trail, !.good = job.at, !.at = to]
    BY <1>2 DEF HttpAnswered
  <2>2. /\ to \in Pages /\ Allowed(to[1]) /\ to # job.at /\ Len(job.trail) < MaxRedirects
        /\ \A i \in DOMAIN job.trail : job.trail[i] # to
    BY <1>1, <1>2, SiteAssumption DEF Follows
  <2>3. /\ job' \in Jobs /\ job'.act = job.act /\ job'.on = job.on /\ job'.shape = job.shape
        /\ job'.at = to /\ job'.trail = trail /\ job'.result = "running" /\ job'.todo = job.todo
    BY <1>1, <2>1, <2>2 DEF Jobs
  <2>4. JobKey' = JobKey /\ \A h : Allowed(h)' <=> Allowed(h)
    BY <2>3 DEF JobKey, Allowed
  <2>5. AimOK'
    BY <1>1, <2>2, <2>3, <2>4 DEF AimOK, IsPage, HostOf, Allowed
  <2>6. /\ Len(trail) = Len(job.trail) + 1 /\ \A i \in DOMAIN trail : Allowed(trail[i][1])
        /\ \A i, j \in DOMAIN trail : i # j => trail[i] # trail[j]
        /\ \A i \in DOMAIN trail : trail[i] # to
    BY <1>1, <2>2, TrailGrows
  <2>7. Len(job.trail) \in Nat /\ MaxRedirects \in Nat
    BY <1>1, SiteAssumption DEF Jobs
  <2> HIDE DEF trail, to
  <2>8. TrailOK'
    BY <2>2, <2>3, <2>6, <2>7 DEF TrailOK, Allowed
  <2>9. ResultOK'
    BY <1>1, <2>3 DEF ResultOK, Enumerated, Probes
  <2> QED BY <2>3, <2>5, <2>8, <2>9 DEF GoesOn
<1>3. CASE ~Follows(job.at)
  <2>1. /\ job' = [job EXCEPT !.trail = Asked(job.at), !.good = job.at,
                              !.learned = Parsed(job.act, job.on, job.at), !.result = "completed"]
        /\ <<job.on, job.at, TRUE>> \in files'
    BY <1>3 DEF HttpAnswered
  <2>2. Parsed(job.act, job.on, job.at) \in SUBSET FactSet
    BY <1>1, AnswersAreFacts
  <2>3. /\ job' \in Jobs /\ job'.act = job.act /\ job'.on = job.on /\ job'.shape = job.shape
        /\ job'.at = job.at /\ job'.trail = Asked(job.at) /\ job'.result = "completed"
        /\ job'.todo = job.todo /\ job'.learned = Parsed(job.act, job.on, job.at)
    BY <1>1, <2>1, <2>2 DEF Jobs, Results
  <2>4. /\ <<job'.on, job.at, TRUE>> \in files'
        /\ Parsed(job'.act, job'.on, job.at) \subseteq job'.learned
    BY <2>1, <2>3
  <2>5. Answered(job.learned)'
    BY <1>1, <2>4 DEF Answered, Parsed, HttpFacts, TechFacts
  <2> QED BY <1>1, <2>3, <2>5, ProbeEnds DEF Results
<1> QED BY <1>2, <1>3

\* No answer comes: what there was before counts, or the probe has failed.
LEMMA FailureGoesOn ==
    ASSUME JobOK, phase = "work", scope' = scope, HttpFails
    PROVE  GoesOn
<1>1. /\ job \in Jobs /\ Running(Probes) /\ job.act \in Probes
      /\ job.on \in Pages /\ job.at \in Pages /\ Asked(job.at) \in Seq(Pages)
      /\ job.good \in Pages \cup {NoPage}
  BY AtWork, TrailGrows DEF HttpFails, Running, Probes, PageActions, Jobs
<1>2. PICK late \in BOOLEAN : HttpLost(late)
  BY Zenon DEF HttpFails
<1>3. CASE job.good # NoPage
  <2>1. /\ job' = [job EXCEPT !.trail = Asked(job.at), !.late = late, !.result = "completed",
                              !.learned = Parsed(job.act, job.on, job.good)]
        /\ <<job.on, job.good, TRUE>> \in files'
    BY <1>2, <1>3 DEF HttpLost
  <2>2. Parsed(job.act, job.on, job.good) \in SUBSET FactSet
    BY <1>1, <1>3, AnswersAreFacts
  <2>3. /\ job' \in Jobs /\ job'.act = job.act /\ job'.on = job.on /\ job'.shape = job.shape
        /\ job'.at = job.at /\ job'.trail = Asked(job.at) /\ job'.result = "completed"
        /\ job'.todo = job.todo /\ job'.learned = Parsed(job.act, job.on, job.good)
    BY <1>1, <2>1, <2>2 DEF Jobs, Results
  <2>4. /\ <<job'.on, job.good, TRUE>> \in files'
        /\ Parsed(job'.act, job'.on, job.good) \subseteq job'.learned
    BY <2>1, <2>3
  <2>5. Answered(job.learned)'
    BY <1>1, <1>3, <2>4 DEF Answered, Parsed, HttpFacts, TechFacts
  <2> QED BY <1>1, <2>3, <2>5, ProbeEnds DEF Results
<1>4. CASE job.good = NoPage
  <2>1. PICK ends \in {"timeout", "failed"} :
           job' = [job EXCEPT !.trail = Asked(job.at), !.late = late, !.result = ends]
    BY <1>2, <1>4, Zenon DEF HttpLost
  <2>2. /\ job' \in Jobs /\ job'.act = job.act /\ job'.on = job.on /\ job'.shape = job.shape
        /\ job'.at = job.at /\ job'.trail = Asked(job.at) /\ job'.result = ends
        /\ job'.todo = job.todo
    BY <1>1, <2>1 DEF Jobs, Results
  <2> QED BY <1>1, <2>2, ProbeEnds DEF Results
<1> QED BY <1>3, <1>4

--------------------------------------------------------------------------------
(***************************************************************************)
(* One step of the cycle                                                   *)
(***************************************************************************)
\* What was earned stays so while the coverage is left alone: artifacts and facts are kept.
LEMMA EarnedStays ==
    ASSUME CoverageIsEarned, cov' = cov, files \subseteq files', found \subseteq found'
    PROVE  CoverageIsEarned'
BY DEF CoverageIsEarned, Is, Parsed, HttpFacts, TechFacts

\* A step of an adapter changes nothing but the job and what it stores.
LEMMA WorkKeeps ==
    ASSUME CycleInv, Work
    PROVE  CycleInv'
<1>1. /\ JobOK /\ phase = "work" /\ phase' = "work" /\ scope' = scope
      /\ UNCHANGED <<found, cov, target, links, net>>
  BY DEF CycleInv, Work
<1>2. GoesOn
  BY <1>1, RaiseGoesOn, AnswerGoesOn, FailureGoesOn, WordsGoOn, NamesGoOn, ScansGoOn
     DEF Work, Working
<1>3. JobKey' = JobKey /\ Obsolete' = Obsolete
  BY <1>1, <1>2 DEF GoesOn, JobKey, Obsolete
<1>4. KeptOK'
  BY <1>1 DEF CycleInv, KeptOK
<1>5. JobOK'
  BY <1>1, <1>2 DEF GoesOn, JobOK
<1>6. CoverageIsEarned'
  <2>1. files \subseteq files'
    BY DEF Work, Working, HttpAnswered, HttpFails, HttpLost, HttpRaises, Canary, Word, WordsDone,
           Endpoints, DnsQuery, SubdomainQuery, NamesDone, Scan
  <2>2. CoverageIsEarned
    BY DEF CycleInv
  <2> QED BY <1>1, <2>1, <2>2, EarnedStays
<1>7. OldAddressesLeftAlone'
  <2>1. OldAddressesLeftAlone
    BY DEF CycleInv
  <2> QED BY <1>1, <1>3, <2>1 DEF OldAddressesLeftAlone, IsPage, IpGated, HostOf
<1> QED BY <1>1, <1>4, <1>5, <1>6, <1>7 DEF CycleInv

\* What CoverageIsEarned asks of one key
Earned(k) ==
    /\ cov[k] = "completed" /\ k[1] \in Probes =>
          \E last \in Pages : <<k[2], last, TRUE>> \in files
                              /\ Parsed(k[1], k[2], last) \subseteq found
    /\ cov[k] = "completed" /\ k[1] = "directory_enumeration" =>
          k[2][1] \in WildHosts \/ \A u \in ToSet(Words[k[2]]) : Is("status", u)
    /\ cov[k] = "unavailable" => k[1] \in Scans

\* What has been learned is put on record with the coverage of its action.
LEMMA EarnedOnLearning ==
    ASSUME CycleInv, Learn
    PROVE  cov' \in [KeySet -> Statuses] /\ CoverageIsEarned'
<1>1. /\ cov \in [KeySet -> Statuses] /\ CoverageIsEarned /\ job \in Jobs
      /\ phase = "work" /\ ResultOK /\ JobKey \in KeySet
      /\ JobKey[1] = job.act /\ JobKey[2] = job.on
  BY AtWork DEF CycleInv, KeptOK, JobOK, AimOK, Learn
<1>2. job.result \in Results \ {"running"} /\ found \subseteq found' /\ files' = files
  BY <1>1 DEF Jobs, Learn
<1> DEFINE to == NextCoverage(cov[JobKey])
<1>3. /\ to \in Statuses
      /\ to = "completed" => job.result = "completed"
      /\ to = "unavailable" => job.result = "unavailable"
  BY <1>2 DEF NextCoverage, NextFailureCoverage, Statuses
<1>4. cov' = IF job.result = "raised" THEN cov ELSE [cov EXCEPT ![JobKey] = to]
  BY DEF Learn
<1> HIDE DEF to
<1>5. cov' \in [KeySet -> Statuses]
  BY <1>1, <1>3, <1>4
<1>6. ASSUME NEW k \in KeySet
      PROVE  Earned(k)'
  <2>1. CASE cov'[k] = cov[k]
    <3>1. Earned(k)
      BY <1>1 DEF CoverageIsEarned, Earned, Probes, Scans
    <3> QED BY <1>2, <2>1, <3>1 DEF Earned, Is, Parsed, HttpFacts, TechFacts
  <2>2. CASE cov'[k] # cov[k]
    <3>1. k = JobKey /\ cov'[k] = to /\ k[1] = job.act /\ k[2] = job.on
      BY <1>1, <1>4, <2>2
    <3>2. to = "completed" => job.learned \subseteq found'
      BY <1>3 DEF Learn, Correlated
    <3>3. to = "completed" /\ job.act \in Probes =>
            \E last \in Pages : <<job.on, last, TRUE>> \in files
                                /\ Parsed(job.act, job.on, last) \subseteq found'
      BY <1>1, <1>3, <3>2 DEF ResultOK, Answered
    <3>4. to = "completed" /\ job.act = "directory_enumeration" =>
            job.on[1] \in WildHosts \/ \A u \in ToSet(Words[job.on]) : <<"status", u>> \in found'
      BY <1>1, <1>3, <3>2 DEF ResultOK, Enumerated
    <3>5. to = "unavailable" => job.act \in Scans
      BY <1>1, <1>3 DEF ResultOK
    <3> QED BY <1>2, <3>1, <3>3, <3>4, <3>5
            DEF Earned, Is, Parsed, HttpFacts, TechFacts, Probes, Scans
  <2> QED BY <2>1, <2>2
<1> QED BY <1>5, <1>6 DEF CoverageIsEarned, Earned, Probes, Scans

\* The elements of a finite set, put in order, are its elements.
LEMMA OrderedElements ==
    ASSUME NEW S, IsFiniteSet(S)
    PROVE  SetToSeq(S) \in Seq(S) /\ Range(SetToSeq(S)) \subseteq S
<1>1. Cardinality(S) \in Nat /\ ExistsBijection(1..Cardinality(S), S)
  BY FS_CardinalityType
<1>2. PICK f \in [1..Cardinality(S) -> S] : IsInjective(f)
  BY <1>1 DEF ExistsBijection, Bijection, Injection
<1>3. SetToSeq(S) \in [1..Cardinality(S) -> S]
  BY <1>2 DEF SetToSeq
<1> QED BY <1>1, <1>3 DEF Range

\* The history of a target takes in addresses, and what is resolved stays a part of it.
LEMMA TrailOfTarget ==
    ASSUME KeptOK, NEW new \in SUBSET Hosts
    PROVE  LET t == Recorded(target, new)
           IN  /\ t \in [now : Hosts, seen : SUBSET Hosts, resolved : Seq(Addresses)]
               /\ t.now = target.now /\ t.seen = target.seen \cup new
               /\ Range(t.resolved) \subseteq t.seen
<1> DEFINE S == (new \cap Addresses) \ Range(target.resolved)
           more == SetToSeq(S)
           t == Recorded(target, new)
<1>1. more \in Seq(S) /\ Range(more) \subseteq S
  <2>1. IsFiniteSet(S)
    BY ThingAssumption, FS_Subset
  <2> QED BY <2>1, OrderedElements
<1>2. more \in Seq(Addresses) /\ Range(more) \subseteq new
  <2> HIDE DEF more
  <2> QED BY <1>1 DEF Range
<1>3. /\ target \in [now : Hosts, seen : SUBSET Hosts, resolved : Seq(Addresses)]
      /\ Range(target.resolved) \subseteq target.seen
  BY DEF KeptOK
<1>4. t = [target EXCEPT !.seen = target.seen \cup new, !.resolved = target.resolved \o more]
  BY <1>3 DEF Recorded
<1>5. /\ target.resolved \o more \in Seq(Addresses)
      /\ Range(target.resolved \o more) \subseteq target.seen \cup new
  <2> HIDE DEF more
  <2> QED BY <1>2, <1>3 DEF Range
<1>6. /\ t.now = target.now /\ t.seen = target.seen \cup new
      /\ t.resolved = target.resolved \o more
      /\ t \in [now : Hosts, seen : SUBSET Hosts, resolved : Seq(Addresses)]
  BY <1>3, <1>4, <1>5
<1> QED BY <1>5, <1>6

\* The job a key is given starts with nothing asked and nothing told.
LEMMA JobOfKey ==
    ASSUME NEW k \in KeySet
    PROVE  LET j == Job(k)
           IN  /\ j \in Jobs /\ j.act = k[1] /\ j.on = k[2] /\ j.shape = k[3]
               /\ j.todo = ToAsk(k) /\ j.trail = <<>> /\ j.result = "running"
               /\ IsPage(k) => j.at = k[2] /\ k[2] \in Pages /\ HostOf(k) = k[2][1]
               /\ k[1] = "directory_enumeration" => ToAsk(k) \in Seq(Pages \cup {NoPage})
               /\ k[1] = "subdomain_enumeration" => ToAsk(k) \in Seq(Names)
               /\ k[1] = "directory_enumeration" => ToSet(Words[k[2]]) \subseteq ToSet(ToAsk(k))
<1>1. /\ k[1] \in Actions /\ k[3] \in {"url", "port"}
      /\ IsPage(k) => k[2] \in Pages /\ HostOf(k) = k[2][1]
      /\ k[2] \in Hosts \cup (Hosts \X Numbers) \cup Pages
      /\ k[1] = "subdomain_enumeration" => k[2] \in Names
  <2>1. k[1] \in {"subdomain_enumeration", "dns_enumeration", "port_scan", "service_enumeration"}
           \/ IsPage(k)
    BY KeyParts DEF Actions, IsPage, PageActions
  <2> QED BY <2>1, KeyParts DEF Hosts
<1>2. k[1] = "directory_enumeration" => /\ ToAsk(k) \in Seq(Pages \cup {NoPage})
                                        /\ ToSet(Words[k[2]]) \subseteq ToSet(ToAsk(k))
  <2> SUFFICES ASSUME k[1] = "directory_enumeration"
               PROVE  /\ ToAsk(k) \in Seq(Pages \cup {NoPage})
                      /\ ToSet(Words[k[2]]) \subseteq ToSet(ToAsk(k))
    OBVIOUS
  <2>1. Words[k[2]] \in Seq(Pages)
    BY <1>1, SiteAssumption DEF IsPage, PageActions
  <2>2. <<NoPage, NoPage>> \o Words[k[2]] \in Seq(Pages \cup {NoPage})
    BY <2>1
  <2> DEFINE words == Words[k[2]]
             ask == <<NoPage, NoPage>> \o words
  <2>3. \A i \in 1..Len(words) : i + 2 \in 1..Len(ask) /\ ask[i + 2] = words[i]
    BY <2>1
  <2>4. ToSet(words) \subseteq ToSet(ask)
    <3>1. words \in Seq(Pages) /\ ask \in Seq(Pages \cup {NoPage})
      BY <2>1, <2>2
    <3> HIDE DEF words, ask
    <3> QED BY <2>3, <3>1 DEF ToSet
  <2> QED BY <2>2, <2>4 DEF ToAsk
<1>3. k[1] = "subdomain_enumeration" => ToAsk(k) \in Seq(Names)
  BY <1>1, NameAssumption DEF ToAsk
<1>4. ToAsk(k) \in Seq(Pages \cup {NoPage}) \cup Seq(Names) \cup Seq(Queries)
  <2>1. RecordTypes \in Seq(Queries) /\ <<"bound">> \in Seq(Queries) /\ <<>> \in Seq(Queries)
    <3>1. RecordTypes \in Seq(Queries)
      BY NameAssumption DEF Queries, Range
    <3>2. <<"bound">> \in Seq(Queries)
      BY DEF Queries
    <3>3. <<>> \in Seq(Queries)
      OBVIOUS
    <3> QED BY <3>1, <3>2, <3>3
  <2>2. CASE k[1] \in {"directory_enumeration", "subdomain_enumeration"}
    BY <1>2, <1>3, <2>2
  <2>3. CASE k[1] \notin {"directory_enumeration", "subdomain_enumeration"}
    <3>1. ToAsk(k) \in {RecordTypes, <<"bound">>, <<>>}
      BY <2>3 DEF ToAsk
    <3> HIDE DEF ToAsk
    <3> QED BY <2>1, <3>1
  <2> QED BY <2>2, <2>3
<1>5. Idle \in Jobs /\ Idle.trail = <<>>
  BY DEF Jobs, Idle, Results
<1>6. PICK first \in Pages \cup {NoPage} :
         Job(k) = [Idle EXCEPT !.act = k[1], !.on = k[2], !.shape = k[3], !.todo = ToAsk(k),
                               !.at = first, !.result = "running"]
  BY <1>1 DEF Job
<1>7. Job(k) \in Jobs
  BY <1>1, <1>4, <1>5, <1>6 DEF Jobs, Results
<1>8. /\ Job(k).act = k[1] /\ Job(k).on = k[2] /\ Job(k).shape = k[3]
      /\ Job(k).todo = ToAsk(k) /\ Job(k).trail = <<>> /\ Job(k).result = "running"
      /\ IsPage(k) => Job(k).at = k[2]
  BY <1>5 DEF Job, Jobs
<1> QED BY <1>1, <1>2, <1>3, <1>7, <1>8

\* An action is begun for an offer in scope; one that is out of scope is denied for good.
LEMMA SelectKeeps ==
    ASSUME CycleInv, Select
    PROVE  CycleInv'
<1>1. PICK o \in Offers : Begin(o[1])
  BY DEF Select
<1>2. /\ KeptOK /\ CoverageIsEarned /\ phase = "select" /\ job \in Jobs
      /\ UNCHANGED <<scope, found, target, links, net, files>>
  BY DEF CycleInv, JobOK, Select
<1> DEFINE k == o[1]
<1>3. /\ k \in KeySet
      /\ ~IsPage(k) /\ IpGated(k) => HostOf(k) \notin Obsolete
      /\ Blocks(net) => ~IpGated(k)
  BY <1>2, OffersAreFair DEF KeptOK
<1> HIDE DEF k
<1>4. CASE Allowed(HostOf(k))
  <2>1. job' = Job(k) /\ phase' = "work" /\ cov' = cov
    BY <1>1, <1>4 DEF Begin, k
  <2>2. /\ job' \in Jobs /\ job'.act = k[1] /\ job'.on = k[2] /\ job'.shape = k[3]
        /\ job'.todo = ToAsk(k) /\ job'.trail = <<>> /\ job'.result = "running"
        /\ IsPage(k) => job'.at = k[2] /\ k[2] \in Pages /\ HostOf(k) = k[2][1]
        /\ k[1] = "directory_enumeration" => ToAsk(k) \in Seq(Pages \cup {NoPage})
        /\ k[1] = "subdomain_enumeration" => ToAsk(k) \in Seq(Names)
        /\ k[1] = "directory_enumeration" => ToSet(Words[k[2]]) \subseteq ToSet(ToAsk(k))
    BY <1>3, <2>1, JobOfKey
  <2>3. JobKey' = k
    BY <1>3, <2>2, KeyParts DEF JobKey
  <2>4. AimOK'
    BY <1>2, <1>3, <1>4, <2>2, <2>3 DEF AimOK, Allowed, HostOf, IsPage
  <2>5. TrailOK'
    BY <2>2, SiteAssumption DEF TrailOK
  <2>6. ResultOK'
    BY <2>2 DEF ResultOK, Enumerated
  <2>7. KeptOK'
    BY <1>2, <2>1 DEF KeptOK
  <2>8. CoverageIsEarned'
    BY <1>2, <2>1, EarnedStays
  <2>9. OldAddressesLeftAlone'
    BY <1>2, <1>3, <2>3 DEF OldAddressesLeftAlone, IsPage, IpGated, HostOf, Obsolete, Blocks
  <2> QED BY <2>1, <2>2, <2>4, <2>5, <2>6, <2>7, <2>8, <2>9 DEF CycleInv, JobOK
<1>5. CASE ~Allowed(HostOf(k))
  <2>1. cov' = [cov EXCEPT ![k] = "denied"] /\ phase' = "observe" /\ job' = job
    BY <1>1, <1>5 DEF Begin, k
  <2>2. KeptOK'
    BY <1>2, <2>1 DEF KeptOK, Statuses
  <2>3. CoverageIsEarned'
    <3>1. \A c \in KeySet : cov'[c] # "denied" => cov'[c] = cov[c]
      BY <1>2, <1>3, <2>1 DEF KeptOK
    <3> QED BY <1>2, <3>1 DEF CoverageIsEarned, Is, Parsed, HttpFacts, TechFacts
  <2> QED BY <1>2, <2>1, <2>2, <2>3 DEF CycleInv, JobOK, OldAddressesLeftAlone
<1> QED BY <1>4, <1>5

\* An observation says nothing but whether the target can be reached.
LEMMA ObserveKeeps ==
    ASSUME CycleInv, Observe
    PROVE  CycleInv'
<1>1. Reachabilities \subseteq {"UNKNOWN", "REACHABLE", "BLOCKED", "ROUTE_MISSING"}
  BY DEF Reachabilities, ReachabilityOf, RouteStatus
<1>2. /\ net' \in {"UNKNOWN", "REACHABLE", "BLOCKED", "ROUTE_MISSING"} /\ phase' = "select"
      /\ UNCHANGED <<scope, found, cov, target, links, job, files>>
  BY <1>1 DEF Observe
<1>3. CoverageIsEarned'
  BY <1>2, EarnedStays DEF CycleInv
<1> QED BY <1>2, <1>3 DEF CycleInv, KeptOK, JobOK, OldAddressesLeftAlone

\* What is sure to be offered depends on what is known, tried and observed.
LEMMA SureIsStable ==
    ASSUME UNCHANGED <<scope, found, cov, target, net>>
    PROVE  Sure' = Sure
BY DEF Sure, Filtered, FromPlanner, FromValidation, ForUnresolved, ForPorts, ForServices,
       ForUnprobed, ForPages, ForSubdomains, FromOpenPorts, FromDomains, Exhausted, Blocks,
       IpGated, All, Is, Allowed, ContextHosts, Obsolete, HostsForIp, First, Rooted, Foremost,
       AskedHosts, AskedServices, Live, Unresolved, PortsUnknown, ServiceUnknown, Unprobed,
       DirectoriesUnknown, TechUnknown, SubdomainsUnknown, ParamsUnknown, OpenWebPorts,
       Questioned

\* A mission comes to rest, or ends, when nothing is sure to be offered.
LEMMA StopKeeps ==
    ASSUME CycleInv, Stop
    PROVE  CycleInv'
<1>1. /\ phase' \in {"over", "rest"} /\ Sure = {}
      /\ UNCHANGED <<scope, found, cov, target, links, net, job, files>>
  BY DEF Stop
<1>2. Sure' = Sure
  BY <1>1, SureIsStable
<1>3. CoverageIsEarned'
  BY <1>1, EarnedStays DEF CycleInv
<1> QED BY <1>1, <1>2, <1>3 DEF CycleInv, KeptOK, JobOK, OldAddressesLeftAlone

\* What a row about a page brings are facts: the page, and its host.
LEMMA CorrelatedAreFacts ==
    ASSUME NEW facts \in SUBSET FactSet
    PROVE  Correlated(facts) \subseteq FactSet
<1> DEFINE pages == {f[2] : f \in {g \in facts : g[1] \in {"url", "status", "tech", "end", "param"}}}
<1>1. pages \subseteq Pages
  <2>1. \A f \in FactSet : f[1] \in {"url", "status", "tech", "end", "param"} => f[2] \in Pages
    BY DEF FactSet
  <2> QED BY <2>1
<1>2. pages \in SUBSET Pages /\ {u[1] : u \in pages} \in SUBSET Hosts
  BY <1>1, ThingAssumption
<1>3. /\ \A S \in SUBSET Pages : {"url"} \X S \subseteq FactSet
      /\ \A S \in SUBSET Hosts : {"host"} \X S \subseteq FactSet
  BY DEF FactSet
<1>4. /\ {"url"} \X pages \subseteq FactSet
      /\ {"host"} \X {u[1] : u \in pages} \subseteq FactSet
  BY <1>2, <1>3
<1> QED BY <1>4 DEF Correlated

\* The cycle ends with what its action has brought.
LEMMA LearnKeeps ==
    ASSUME CycleInv, Learn
    PROVE  CycleInv'
<1>1. /\ KeptOK /\ job \in Jobs /\ job' = Idle /\ phase' = "observe"
      /\ UNCHANGED <<scope, links, net>>
  BY DEF CycleInv, JobOK, Learn
<1>2. cov' \in [KeySet -> Statuses] /\ CoverageIsEarned'
  BY EarnedOnLearning
<1>3. found' \subseteq FactSet
  <2>1. Correlated(job.learned) \subseteq FactSet
    BY <1>1, CorrelatedAreFacts DEF Jobs
  <2> QED BY <1>1, <2>1 DEF KeptOK, Learn
<1>4. /\ target' \in [now : Hosts, seen : SUBSET Hosts, resolved : Seq(Addresses)]
      /\ target'.now \in target'.seen /\ Range(target'.resolved) \subseteq target'.seen
  <2>1. Named \in SUBSET Hosts
    BY DEF Named, Hosts
  <2>2. CASE target' = Recorded(target, Named)
    BY <1>1, <2>1, <2>2, TrailOfTarget DEF KeptOK
  <2>3. CASE target' = target
    BY <1>1, <2>3 DEF KeptOK
  <2> QED BY <2>2, <2>3 DEF Learn
<1>5. KeptOK'
  BY <1>1, <1>2, <1>3, <1>4 DEF KeptOK
<1>6. Idle \in Jobs
  BY DEF Jobs, Idle, Results
<1> QED BY <1>1, <1>2, <1>5, <1>6 DEF CycleInv, JobOK, OldAddressesLeftAlone

\* The target moves to a host in scope, which becomes a part of its history.
LEMMA RelocateKeeps ==
    ASSUME CycleInv, NEW h \in Hosts, Relocate(h)
    PROVE  CycleInv'
<1>1. /\ KeptOK /\ job \in Jobs /\ CoverageIsEarned /\ phase' = "observe"
      /\ target' = [Recorded(target, {h}) EXCEPT !.now = h]
      /\ found' = found \cup {<<"host", h>>} \cup ({"host", "former"} \X (target.seen \ {h}))
      /\ UNCHANGED <<scope, cov, links, net, job, files>>
  BY DEF CycleInv, JobOK, Relocate
<1>2. found' \subseteq FactSet
  <2>1. \A S \in SUBSET Hosts : {"host", "former"} \X S \subseteq FactSet
    BY DEF FactSet
  <2>2. <<"host", h>> \in FactSet
    BY DEF FactSet
  <2>3. target.seen \ {h} \in SUBSET Hosts
    BY <1>1 DEF KeptOK
  <2> QED BY <1>1, <2>1, <2>2, <2>3 DEF KeptOK
<1>3. /\ target' \in [now : Hosts, seen : SUBSET Hosts, resolved : Seq(Addresses)]
      /\ target'.now \in target'.seen /\ Range(target'.resolved) \subseteq target'.seen
  <2> DEFINE t == Recorded(target, {h})
  <2>1. /\ t \in [now : Hosts, seen : SUBSET Hosts, resolved : Seq(Addresses)]
        /\ h \in t.seen /\ Range(t.resolved) \subseteq t.seen
    BY <1>1, TrailOfTarget
  <2>2. target' = [t EXCEPT !.now = h]
    BY <1>1
  <2> HIDE DEF t
  <2> QED BY <2>1, <2>2
<1>4. KeptOK'
  BY <1>1, <1>2, <1>3 DEF KeptOK
<1>5. CoverageIsEarned'
  BY <1>1, EarnedStays
<1> QED BY <1>1, <1>4, <1>5 DEF CycleInv, JobOK, OldAddressesLeftAlone

\* Interfaces go down and come up.
LEMMA LinksKeep ==
    ASSUME CycleInv, NEW i \in Ifaces, LinkDown(i) \/ LinkUp(i)
    PROVE  CycleInv'
<1>1. /\ links' \subseteq Ifaces /\ phase' = "observe"
      /\ UNCHANGED <<scope, found, cov, target, net, job, files>>
  BY DEF CycleInv, KeptOK, LinkDown, LinkUp
<1>2. CoverageIsEarned'
  BY <1>1, EarnedStays DEF CycleInv
<1> QED BY <1>1, <1>2 DEF CycleInv, KeptOK, JobOK, OldAddressesLeftAlone

--------------------------------------------------------------------------------
(***************************************************************************)
(* Theorems                                                                *)
(***************************************************************************)
\* A mission begins with its target alone, and with nothing tried.
LEMMA CycleInit_Inv ==
    ASSUME CycleInit
    PROVE  CycleInv
<1>1. PICK t \in DOMAIN ScopeLists :
        /\ target = [now |-> t, seen |-> {t}, resolved |-> <<>>]
        /\ found = {<<"host", t>>} \cup (IF t \in Names THEN {<<"domain", DomainOf[t]>>} ELSE {})
  BY DEF CycleInit
<1>2. t \in Hosts
  BY TargetAssumption
<1>3. found \subseteq FactSet
  <2>1. <<"host", t>> \in FactSet
    BY <1>2 DEF FactSet
  <2>2. t \in Names => <<"domain", DomainOf[t]>> \in FactSet
    <3>1. t \in Names => DomainOf[t] \in Names
      BY TargetAssumption
    <3> QED BY <3>1 DEF FactSet
  <2> QED BY <1>1, <2>1, <2>2
<1>4. /\ target \in [now : Hosts, seen : SUBSET Hosts, resolved : Seq(Addresses)]
      /\ target.now \in target.seen /\ Range(target.resolved) \subseteq target.seen
  BY <1>1, <1>2 DEF Range
<1>5. KeptOK
  BY <1>3, <1>4 DEF KeptOK, CycleInit, Statuses
<1>6. Idle \in Jobs
  BY DEF Jobs, Idle, Results
<1> QED BY <1>5, <1>6
        DEF CycleInv, CycleInit, JobOK, CoverageIsEarned, OldAddressesLeftAlone

\* Every step keeps the invariant.
LEMMA CycleNext_Inv ==
    ASSUME CycleInv, [CycleNext]_cvars
    PROVE  CycleInv'
<1>1. CASE UNCHANGED cvars
  <2>1. Sure' = Sure
    BY <1>1, SureIsStable DEF cvars
  <2>2. KeptOK' /\ CoverageIsEarned'
    BY <1>1, EarnedStays DEF CycleInv, cvars, KeptOK
  <2>3. JobOK'
    BY <1>1 DEF CycleInv, cvars, JobOK, AimOK, TrailOK, ResultOK, JobKey, IsPage, HostOf,
                Allowed, Running, Answered, Enumerated, Parsed, HttpFacts, TechFacts
  <2>4. OldAddressesLeftAlone'
    BY <1>1 DEF CycleInv, cvars, OldAddressesLeftAlone, JobKey, IsPage, HostOf, IpGated,
                Obsolete, Blocks
  <2> QED BY <1>1, <2>1, <2>2, <2>3, <2>4 DEF CycleInv, cvars
<1>2. CASE Observe
  BY <1>2, ObserveKeeps
<1>3. CASE Select
  BY <1>3, SelectKeeps
<1>4. CASE Stop
  BY <1>4, StopKeeps
<1>5. CASE Work
  BY <1>5, WorkKeeps
<1>6. CASE Learn
  BY <1>6, LearnKeeps
<1>7. CASE \E h \in Hosts : Relocate(h)
  BY <1>7, RelocateKeeps
<1>8. CASE \E i \in Ifaces : LinkDown(i) \/ LinkUp(i)
  BY <1>8, LinksKeep
<1> QED BY <1>1, <1>2, <1>3, <1>4, <1>5, <1>6, <1>7, <1>8 DEF CycleNext

\* What the cycle keeps, from which the theorems below follow.
THEOREM CycleSpec_Inv == CycleSpec => []CycleInv
<1>1. CycleInit => CycleInv
  BY CycleInit_Inv
<1>2. CycleInv /\ [CycleNext]_cvars => CycleInv'
  BY CycleNext_Inv
<1> QED BY <1>1, <1>2, PTL DEF CycleSpec

\* Coverage, facts, trail and job keep their shapes.
THEOREM CycleKeepsTypes == CycleSpec => []ReconTypeOK
<1>1. CycleInv => ReconTypeOK
  <2> SUFFICES ASSUME CycleInv PROVE ReconTypeOK
    OBVIOUS
  <2>1. KeptOK /\ JobOK
    BY DEF CycleInv
  <2>2. Range(target.resolved) \subseteq Addresses
    BY <2>1 DEF KeptOK, Range
  <2> QED BY <2>1, <2>2 DEF KeptOK, JobOK, AimOK, Jobs, ReconTypeOK
<1> QED BY <1>1, CycleSpec_Inv, PTL

\* No request leaves the frozen scope or is sent twice, and redirects come to an end.
THEOREM RequestsNeverLeaveScope == CycleSpec => []RequestsStayInScope
<1>1. CycleInv => RequestsStayInScope
  BY DEF CycleInv, JobOK, AimOK, TrailOK, RequestsStayInScope
<1> QED BY <1>1, CycleSpec_Inv, PTL

\* What is settled as completed has been answered, and all that the answer tells is on
\* record.
THEOREM CompletedIsEarned == CycleSpec => []CoverageIsEarned
<1>1. CycleInv => CoverageIsEarned
  BY DEF CycleInv
<1> QED BY <1>1, CycleSpec_Inv, PTL

\* No scan runs against an address the target has left.
THEOREM LeftAddressesStayAlone == CycleSpec => []OldAddressesLeftAlone
<1>1. CycleInv => OldAddressesLeftAlone
  BY DEF CycleInv
<1> QED BY <1>1, CycleSpec_Inv, PTL

\* A question the mission pursues is asked by the action that would answer it.
LEMMA PursuedIsProposed ==
    ASSUME found \subseteq FactSet, NEW q \in Questions, Pursued(q)
    PROVE  /\ OwnAction(q) \in FromPlanner
           /\ OwnAction(q)[1] = "subdomain_enumeration" => Unresolved = {}
<1> USE FoundThings, HostsAsked
<1>0. /\ q[1] = "host.unresolved" => q[2] \in Unresolved
      /\ q[1] = "host.ports_unknown" => q[2] \in PortsUnknown
      /\ q[1] = "port.service_unknown" => q[2] \in ServiceUnknown
      /\ q[1] = "url.tech_unknown" => q[2] \in TechUnknown
      /\ q[1] = "domain.subdomains_unknown" => q[2] \in SubdomainsUnknown
  BY DEF Questions
<1> DEFINE x == q[2]
<1>1. CASE q[1] = "host.unresolved"
  <2>1. x \in Hosts /\ OwnAction(q) = Key("dns_enumeration", x) /\ x \in Unresolved
    BY <1>0, <1>1 DEF OwnAction, Hosts
  <2>2. x \in ContextHosts
    BY <1>1, <2>1 DEF Pursued, HostOf, Key
  <2>3. OwnAction(q) \in ForUnresolved
    BY <2>1, <2>2 DEF ForUnresolved
  <2> QED BY <2>1, <2>3 DEF FromPlanner, Key
<1>2. CASE q[1] = "host.ports_unknown"
  <2>1. x \in Hosts /\ OwnAction(q) = Key("port_scan", x) /\ x \in PortsUnknown
    BY <1>0, <1>2 DEF OwnAction
  <2>2. x \in ContextHosts /\ x \notin Obsolete
    BY <1>2, <2>1 DEF Pursued, HostOf, Key
  <2>3. OwnAction(q) \in ForPorts
    BY <2>1, <2>2 DEF ForPorts
  <2> QED BY <2>1, <2>3 DEF FromPlanner, Key
<1>3. CASE q[1] = "port.service_unknown"
  <2>1. x \in Ports /\ OwnAction(q) = Key("service_enumeration", x) /\ x \in ServiceUnknown
    BY <1>0, <1>3 DEF OwnAction
  <2>2. x = <<x[1], x[2]>> /\ x \notin Hosts
    BY <2>1, KeysOfThings, ThingAssumption
  <2>3. x[1] \in ContextHosts /\ x[1] \notin Obsolete
    BY <1>3, <2>1, <2>2 DEF Pursued, HostOf, Key
  <2>4. OwnAction(q) \in ForServices
    BY <2>1, <2>2, <2>3 DEF ForServices
  <2> QED BY <2>1, <2>4 DEF FromPlanner, Key
<1>4. CASE q[1] = "url.tech_unknown"
  BY <1>0, <1>4 DEF OwnAction, ForPages, FromPlanner, Key
<1>5. CASE q[1] = "domain.subdomains_unknown"
  BY <1>0, <1>5 DEF OwnAction, Pursued, ForSubdomains, FromPlanner, Key
<1> QED BY <1>1, <1>2, <1>3, <1>4, <1>5 DEF Pursued

\* The mission comes to rest only when every question it pursues has had its own action
\* run out.
THEOREM RestIsAlwaysEarned == CycleSpec => []RestIsEarned
<1>1. CycleInv => RestIsEarned
  <2> SUFFICES ASSUME CycleInv, phase = "rest", ~Blocks(net),
                      NEW q \in Questions, Pursued(q)
               PROVE  Exhausted(OwnAction(q))
    BY DEF RestIsEarned
  <2>1. found \subseteq FactSet /\ Sure = {}
    BY DEF CycleInv, KeptOK
  <2>2. /\ OwnAction(q) \in FromPlanner
        /\ OwnAction(q)[1] = "subdomain_enumeration" => Unresolved = {}
    BY <2>1, PursuedIsProposed
  <2>3. \A k \in Filtered(FromPlanner) : <<k, 80>> \in Sure
    BY DEF Sure
  <2> QED BY <2>1, <2>2, <2>3 DEF Filtered
<1> QED BY <1>1, CycleSpec_Inv, PTL

================================================================================
