--------------------------- MODULE MissionContract ---------------------------
(***************************************************************************)
(* What a cyberx mission promises its operator, without cycles, storage or *)
(* a World Model: a boundary is drafted, authorized once with the target   *)
(* inside it, and from then on a subject is touched only while the mission *)
(* is live and only if it lies within the boundary that was authorized.    *)
(* A closed mission touches nothing any more.  README.md and docs/SPEC.md  *)
(* section 4 state this in prose; MissionEngine is shown to implement it.  *)
(***************************************************************************)
CONSTANTS Subjects, Target

VARIABLES
    phase,     \* draft, held (authorized, not acting), live or closed
    boundary,  \* the subjects the mission may touch
    touched    \* the subjects an adapter was run against

contractVars == <<phase, boundary, touched>>

ContractInit ==
    /\ phase = "draft"
    /\ boundary \in SUBSET Subjects
    /\ touched = {}

Redraft ==
    /\ phase = "draft"
    /\ boundary' \in SUBSET Subjects
    /\ UNCHANGED <<phase, touched>>

Authorize ==
    /\ phase = "draft"
    /\ phase' = "held"
    /\ boundary' \in {b \in SUBSET Subjects : Target \in b}
    /\ UNCHANGED touched

Switch ==
    /\ \/ phase = "held" /\ phase' = "live"
       \/ phase = "live" /\ phase' = "held"
    /\ UNCHANGED <<boundary, touched>>

Touch(s) ==
    /\ phase = "live"
    /\ s \in boundary
    /\ touched' = touched \cup {s}
    /\ UNCHANGED <<phase, boundary>>

Finish ==
    /\ phase # "closed"
    /\ phase' = "closed"
    /\ UNCHANGED <<boundary, touched>>

ContractNext ==
    Redraft \/ Authorize \/ Switch \/ (\E s \in Subjects : Touch(s)) \/ Finish

ContractSpec == ContractInit /\ [][ContractNext]_contractVars
=============================================================================
