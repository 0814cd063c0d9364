----------------------------- MODULE Reachability -----------------------------
(***************************************************************************)
(* Whether packets would find their way to the target: network/observer.py,*)
(* resolver.py, routing.py and engine/observe.py NetworkCycle.             *)
(***************************************************************************)
EXTENDS ReconWorld

CONSTANTS
    Routes,     \* dest: a set of addresses, prefix, metric, default, iface
    Ifaces

ASSUME RouteAssumption ==
    \A r \in Routes : r.dest \subseteq Addresses /\ r.prefix \in Nat /\ r.metric \in Nat

\* NetworkResolver._target_ip: the first address ever resolved or confirmed is taken
\* before the current one; a name nobody has resolved is looked up, with luck
TargetAddresses ==
    IF target.resolved # <<>> THEN {Head(target.resolved)}
    ELSE IF target.now \in Addresses THEN {target.now} ELSE Addresses \cup {target.now}

\* select_route: the longest prefix, then the lowest metric; the default route is the
\* fallback.  Of two equals the one whose interface comes first is taken: one of the set.
Better(r, s) == r.prefix > s.prefix \/ (r.prefix = s.prefix /\ r.metric <= s.metric)
SelectedRoutes(a) ==
    LET own      == {r \in Routes : ~r.default /\ a \in r.dest}
        fallback == {r \in Routes : r.default}
    IN  IF own # {} THEN {r \in own : \A s \in own : Better(r, s)}
        ELSE {r \in fallback : \A s \in fallback : r.metric <= s.metric}

\* reachability_for
RouteStatus(r) == IF r.iface \notin Ifaces THEN "ROUTE_MISSING"
                  ELSE IF r.iface \in links THEN "REACHABLE" ELSE "BLOCKED"

\* resolve: a name that stays unresolved says nothing about routes, and neither does an
\* observer without any interface to look at
ReachabilityOf(a) ==
    IF Ifaces = {} \/ a \notin Addresses THEN {"UNKNOWN"}
    ELSE IF SelectedRoutes(a) = {} THEN {"ROUTE_MISSING"}
    ELSE {RouteStatus(r) : r \in SelectedRoutes(a)}

Reachabilities == UNION {ReachabilityOf(a) : a \in TargetAddresses}

\* brain/locators.py network_blocks_ip
Blocks(status) == status \in {"ROUTE_MISSING", "UNREACHABLE", "BLOCKED"}
================================================================================
