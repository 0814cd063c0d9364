------------------------ MODULE MCMissionLifecycle ------------------------
(* A small instance of MissionLifecycle: a host name as target, its parent *)
(* domain, and a second name below the parent; every draft of the lists.   *)
EXTENDS MissionLifecycle

CONSTANTS box, parent, sibling

MCSubjects == {box, parent, sibling}
MCExact == [s \in MCSubjects |-> {s}]
MCSubdomains ==
    [s \in MCSubjects |-> IF s = parent THEN {box, sibling} ELSE {}]
MCExcludes == [s \in MCSubjects |-> {s}]
MCEdits == [allowed : SUBSET MCSubjects, excluded : SUBSET MCSubjects,
            subdomains : BOOLEAN]
=============================================================================
