-------------------------- MODULE MissionLifecycle --------------------------
(***************************************************************************)
(* The mission record that cyberx keeps in its store, and the operations   *)
(* of MissionService that change it (mission/service.py), with the command *)
(* table of mission/state_machine.py (the status each command starts from  *)
(* and leads to) and the scope validation of mission/scope_build.py.  The  *)
(* engine (module MissionEngine) extends this module and changes the       *)
(* record only through these operations.                                   *)
(*                                                                         *)
(* A subject is anything a scope list can name: an address, a network, a   *)
(* host name.  What an entry of a list covers is data of the domain        *)
(* (address arithmetic, DNS suffixes), given by three constant functions.  *)
(***************************************************************************)
EXTENDS Naturals

CONSTANTS
    Subjects,       \* what scope lists name and actions are aimed at
    Target,         \* the subject the mission was created for
    Exact,          \* Exact[e]: subjects an allow entry e covers by itself
    Subdomains,     \* Subdomains[e]: names below e, covered if the scope says so
    Excludes,       \* Excludes[e]: subjects an exclusion entry e covers
    Edits,          \* the scope lists an operator tries while drafting
    MaxIterations   \* mission.max_iterations

ScopeLists == [allowed : SUBSET Subjects, excluded : SUBSET Subjects,
               subdomains : BOOLEAN]

ASSUME ScopeAssumption ==
    /\ Target \in Subjects
    /\ Exact \in [Subjects -> SUBSET Subjects]
    /\ Subdomains \in [Subjects -> SUBSET Subjects]
    /\ Excludes \in [Subjects -> SUBSET Subjects]
    /\ Target \in Exact[Target]
    /\ Edits \subseteq ScopeLists

ASSUME IterationAssumption == MaxIterations \in Nat

VARIABLES
    status,          \* Mission.status
    pauseRequested,  \* Mission.pause_requested
    stopReason,      \* Mission.stop_reason, "none" while unset
    started,         \* Mission.started_at is not None
    iteration,       \* Mission.iteration
    lists,           \* the allow and exclusion lists of Scope
    frozen           \* Scope.frozen

lifecycleVars ==
    <<status, pauseRequested, stopReason, started, iteration, lists, frozen>>

Terminal == {"COMPLETED", "STOPPED", "FAILED"}
Statuses == {"CREATED", "CONFIRMED", "RUNNING", "PAUSED"} \cup Terminal
CompletionReasons ==
    {"objectives_met", "no_actions", "stalled", "max_iterations",
     "max_runtime", "too_many_failures"}
Reasons == CompletionReasons \cup {"none", "operator", "error"}

-----------------------------------------------------------------------------
(* Scope lists: exclusions win, then an allow entry must cover the subject. *)

Excluded(l, s) == \E e \in l.excluded : s \in Excludes[e]

Allowed(l, s) ==
    \E e \in l.allowed : s \in Exact[e] \/ (l.subdomains /\ s \in Subdomains[e])

InScope(l, s) == Allowed(l, s) /\ ~Excluded(l, s)

\* Validation looks at the target as if subdomains were allowed.
ValidLists(l) ==
    /\ l.allowed # {}
    /\ ~Excluded(l, Target)
    /\ Allowed([l EXCEPT !.subdomains = TRUE], Target)

WithTarget(l) == [l EXCEPT !.allowed = @ \cup {Target}]

-----------------------------------------------------------------------------
LifecycleInit ==
    /\ status = "CREATED"
    /\ pauseRequested = FALSE
    /\ stopReason = "none"
    /\ started = FALSE
    /\ iteration = 0
    /\ \E l \in Edits : lists = WithTarget(l) /\ ValidLists(lists)
    /\ frozen = FALSE

\* Faulty variant: edits stay open until the mission starts.
UpdateScopeUntilStart(l) ==
    /\ status \in {"CREATED", "CONFIRMED"}
    /\ ValidLists(l)
    /\ lists' = l
    /\ UNCHANGED <<status, pauseRequested, stopReason, started, iteration, frozen>>

UpdateScope(l) ==
    /\ status = "CREATED"
    /\ ~frozen
    /\ ValidLists(l)
    /\ lists' = l
    /\ UNCHANGED <<status, pauseRequested, stopReason, started, iteration, frozen>>

\* Faulty variant: the lists are confirmed as they were drafted.
ConfirmAsDrafted ==
    /\ status = "CREATED"
    /\ ValidLists(lists)
    /\ status' = "CONFIRMED"
    /\ frozen' = TRUE
    /\ UNCHANGED <<pauseRequested, stopReason, started, iteration, lists>>

Confirm ==
    /\ status = "CREATED"
    /\ ValidLists(WithTarget(lists))
    /\ status' = "CONFIRMED"
    /\ lists' = WithTarget(lists)
    /\ frozen' = TRUE
    /\ UNCHANGED <<pauseRequested, stopReason, started, iteration>>

\* MissionService._transition.  A command is legal from some statuses and
\* leads to one; the mission goes on, or ends with a reason.
Move(from, to) ==
    /\ status = from
    /\ status' = to
    /\ pauseRequested' = (to = "PAUSED")
    /\ UNCHANGED <<stopReason, iteration, lists, frozen>>

\* Faulty variant: the pause flag outlives the mission.
EndPaused(from, to, reason) ==
    /\ status \in from
    /\ status' = to
    /\ stopReason' = reason
    /\ UNCHANGED <<pauseRequested, started, iteration, lists, frozen>>

End(from, to, reason) ==
    /\ status \in from
    /\ status' = to
    /\ pauseRequested' = FALSE
    /\ stopReason' = reason
    /\ UNCHANGED <<started, iteration, lists, frozen>>

Start  == Move("CONFIRMED", "RUNNING") /\ started' = TRUE
Pause  == Move("RUNNING", "PAUSED") /\ UNCHANGED started
Resume == Move("PAUSED", "RUNNING") /\ UNCHANGED started

\* Faulty variant: an ended mission can be stopped.
StopAnytime == End(Statuses, "STOPPED", "operator")

Stop == End({"CREATED", "CONFIRMED", "RUNNING", "PAUSED"}, "STOPPED", "operator")
Complete(reason) == End({"RUNNING"}, "COMPLETED", reason)

\* Faulty variant: a status the record does not have.
FailUnknown == End({"RUNNING", "PAUSED"}, "ERROR", "error")

Fail == End({"RUNNING", "PAUSED"}, "FAILED", "error")

\* Looks at no status: the engine is trusted to call it only in a cycle.
BumpIteration ==
    /\ iteration' = iteration + 1
    /\ UNCHANGED <<status, pauseRequested, stopReason, started, lists, frozen>>

\* What the operator can do to the record between two cycles.
Operator ==
    \/ \E l \in Edits : UpdateScope(l)
    \/ Confirm
    \/ Start
    \/ Pause
    \/ Resume
    \/ Stop

\* The engine seen from the service: any completion, any number of bumps up
\* to max_iterations while the mission runs.
EngineCalls ==
    \/ \E reason \in CompletionReasons : Complete(reason)
    \/ Fail
    \/ status = "RUNNING" /\ iteration < MaxIterations /\ BumpIteration

LifecycleNext == Operator \/ EngineCalls

LifecycleSpec == LifecycleInit /\ [][LifecycleNext]_lifecycleVars

-----------------------------------------------------------------------------
(* Correctness.                                                            *)

LifecycleTypeOK ==
    /\ status \in Statuses
    /\ pauseRequested \in BOOLEAN
    /\ stopReason \in Reasons
    /\ started \in BOOLEAN
    /\ iteration \in Nat
    /\ lists \in ScopeLists
    /\ frozen \in BOOLEAN

\* Once a mission left CREATED its frozen scope admits its own target under
\* the very check the policy makes before each action, whatever the operator
\* did to the lists while drafting: a list accepted only because a parent
\* domain covers the target must not confirm into a mission that denies
\* itself (mission/service.py confirm, scope/checker.py).
AuthorizedTarget ==
    status \notin {"CREATED", "STOPPED"} => frozen /\ InScope(lists, Target)

\* The authorization the operator gave is never widened or narrowed: after
\* the freeze neither the lists nor the freeze itself change again
\* (mission/service.py update_scope and confirm).
FreezeIsFinal == [][frozen => frozen' /\ lists' = lists]_lifecycleVars

\* A mission that ended stays as it ended: status, reason and the iteration
\* count are those of the last command (mission/state_machine.py: no row of
\* the command table starts in a terminal status).
EndIsFinal ==
    [][(status \in Terminal) => UNCHANGED <<status, stopReason, iteration>>]_lifecycleVars

\* The pause flag, which the engine's guard reads beside the status, agrees
\* with the status after every sequence of commands, and a reason is recorded
\* exactly for missions that ended (mission/service.py _transition).
FlagsAgree ==
    /\ pauseRequested <=> status = "PAUSED"
    /\ stopReason # "none" <=> status \in Terminal
=============================================================================
