------------------------------ MODULE MCReconCycle ------------------------------
(***************************************************************************)
(* An instance of ReconCycle.  The domain d holds the name n with the      *)
(* address a1 and the name w with the address a2.  On a1 is a web server   *)
(* whose first page redirects out of scope, to x, while a page found by    *)
(* its name redirects to a third one and back and links to a closed port;  *)
(* what runs it can be told from its first page, but not by a probe.       *)
(* On a2 any path is answered; on port 80 of a3 something that is no web   *)
(* server answers.                                                         *)
(***************************************************************************)
EXTENDS ReconCycle

CONSTANTS n, d, w, a1, a2, a3, x, nopage, eth0

root1  == <<a1, 80, "/">>
login  == <<a1, 80, "/login">>
old    == <<a1, 80, "/old">>
gone   == <<a1, 80, "/gone">>
wild   == <<a2, 80, "/">>
garbled == <<a3, 80, "/">>
closed == <<a1, 8080, "/login">>
away   == <<x, 80, "/">>

MCPorts == {<<a1, 80>>, <<a2, 80>>, <<a3, 80>>, <<x, 80>>}
MCOpen  == {<<a1, 80>>, <<a2, 80>>, <<a3, 80>>, <<x, 80>>}
MCPages == {root1, login, old, gone, closed, wild, garbled, away}
MCClues == {login, closed}

Order == <<d, n, w, a1, a2, a3, x, root1, login, old, gone, closed, wild, garbled, away>>
MCRank == [t \in Hosts \cup Pages |-> CHOOSE i \in DOMAIN Order : Order[i] = t]

Answer(code, to, server, marks, near, params) ==
    [code |-> code, to |-> to, server |-> server, marks |-> marks, links |-> near,
     params |-> params]
MCSite == [p \in Pages |->
    IF p = root1 THEN Answer("redirect", away, FALSE, TRUE, {away}, {})
    ELSE IF p = old THEN Answer("redirect", login, TRUE, TRUE, {closed}, {closed})
    ELSE IF p = login THEN Answer("redirect", old, FALSE, FALSE, {}, {})
    ELSE IF p = gone THEN Answer("missing", nopage, FALSE, FALSE, {}, {})
    ELSE Answer("ok", nopage, FALSE, FALSE, {}, {})]
MCWords == [p \in Pages |-> IF PortOf(p) = <<a1, 80>> THEN <<gone, old>> ELSE <<>>]
MCZone == [h \in Names |-> IF h = n THEN {a1} ELSE IF h = w THEN {a2} ELSE {}]
MCCandidates == [h \in Names |-> IF h = n THEN <<w, d>> ELSE <<n>>]
MCDomainOf == [h \in Names |-> d]
MCTableName == [p \in Ports |-> "unknown"]
MCTrueName == [p \in Ports |-> IF p[1] = a3 THEN "ssh" ELSE "http"]
MCRoutes == {[dest |-> {a1, a2, a3}, prefix |-> 24, metric |-> 0, default |-> FALSE, iface |-> eth0]}
MCScopes == [t \in {n, a1} |-> IF t = n THEN {{n, w, a1, a2, a3}} ELSE {{n, a1}}]
MCRecords == <<"A", "MX">>
================================================================================
