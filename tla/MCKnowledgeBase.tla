---------------------------- MODULE MCKnowledgeBase ----------------------------
(***************************************************************************)
(* An instance of KnowledgeBase: a host with an HTTP service and two pages *)
(* of it, and a host out of scope whose key extends the key of the first.  *)
(***************************************************************************)
EXTENDS KnowledgeBase

CONSTANTS h1, h10, p1, p10, s1, root, admin, none, nothing,
          scan, rescan, probe,
          open1, closed1, again, http1, early, page, path, moved, stray,
          hint

MCKindOf == [a \in Assets |->
    IF a \in {h1, h10} THEN "host" ELSE IF a \in {p1, p10} THEN "port"
    ELSE IF a = s1 THEN "service" ELSE "url"]
MCParentOf == [a \in Assets |->
    IF a = p1 THEN h1 ELSE IF a = p10 THEN h10 ELSE IF a = s1 THEN p1
    ELSE IF a \in {root, admin} THEN h1 ELSE none]
MCSpelled == {<<h1, h10>>}
MCSiteOf == [a \in Assets |-> IF a = root THEN p1 ELSE none]
MCPathSignal == [a \in Assets |-> IF a = admin THEN "admin_surface" ELSE "nosignal"]
MCPortSignal == [a \in Assets |-> "exposed_service"]
MCProbe == [l \in {h1, h10, p1, p10, s1, root, admin} \X
                  {"nosignal", "admin_surface", "exposed_service", "out_of_scope"} |->
    IF l = <<admin, "admin_surface">> THEN probe ELSE nothing]
MCExpected == [s \in Signals |-> {"http.status"}]
MCMentions == {<<hint, "admin_surface">>}
MCDrafts == {[statement |-> hint, confidence |-> 60, cites |-> FALSE, about |-> {}],
             [statement |-> hint, confidence |-> 90, cites |-> TRUE, about |-> {}]}

Row(s, p, o, r, run, parser) ==
    [subject |-> s, predicate |-> p, object |-> o, reliability |-> r, run |-> run,
     parser |-> parser, extras |-> {}, mapped |-> TRUE]
MCFact == [e \in Facts |->
    IF e = open1 THEN Row(p1, "port.state", "open", 95, 1, "nmap")
    ELSE IF e = http1 THEN Row(s1, "service.name", "http", 85, 1, "nmap")
    ELSE IF e = closed1 THEN Row(p1, "port.state", "closed", 95, 3, "nmap")
    ELSE IF e = again THEN Row(p1, "port.state", "open", 70, 4, "probe")
    ELSE IF e = early THEN Row(admin, "http.status", "ok", 90, 5, "http")
    ELSE IF e = moved THEN Row(admin, "http.status", "redirect", 90, 4, "probe")
    ELSE IF e = page THEN Row(root, "http.status", "ok", 90, 5, "http")
    ELSE IF e = path THEN Row(admin, "url.seen", "seen", 85, 5, "http")
    ELSE Row(p10, "port.state", "open", 95, 6, "nmap")]
MCRowOrder == [e \in Facts |-> CHOOSE i \in 1..9 :
    <<open1, http1, closed1, stray, again, early, path, moved, page>>[i] = e]
MCBatch == [k \in Keys |->
    IF k = scan THEN <<<<open1, http1>>>>
    ELSE IF k = rescan THEN <<<<closed1, stray>>, <<again, moved>>>>
    ELSE <<<<early, path, page>>>>]
================================================================================
