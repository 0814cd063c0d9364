------------------------- MODULE MCMissionEngine -------------------------
(* Small instances of MissionEngine.  The target's scan opens a probe of  *)
(* the target and a scan of a neighbour; the neighbour is in scope in one *)
(* draft of the lists and out of scope in the other.                      *)
EXTENDS MissionEngine

CONSTANTS box, neighbour, scan, probe, stray

MCSubjects == {box, neighbour}
MCExact == [s \in MCSubjects |-> {s}]
MCSubdomains == [s \in MCSubjects |-> {}]
MCExcludes == [s \in MCSubjects |-> {s}]
MCEdits == {[allowed |-> {box}, excluded |-> {}, subdomains |-> TRUE],
            [allowed |-> {box, neighbour}, excluded |-> {}, subdomains |-> TRUE]}

MCKeys == {scan, probe, stray}
MCSubjectOf == [k \in MCKeys |-> IF k = stray THEN neighbour ELSE box]
MCRoots == {scan}
MCOpens == [k \in MCKeys |-> IF k = scan THEN {probe, stray} ELSE {}]
MCGapless == {}

\* A mission for a network: its only root is network_discovery, which no
\* knowledge gap stands behind.
SweepGapless == {scan}
=============================================================================
