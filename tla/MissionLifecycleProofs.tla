----------------------- MODULE MissionLifecycleProofs -----------------------
(***************************************************************************)
(* Theorems of MissionLifecycle, for every set of subjects, every coverage *)
(* of the list entries and every max_iterations.                           *)
(***************************************************************************)
EXTENDS MissionLifecycle, TLAPS

(***************************************************************************)
(* Type correctness.                                                       *)
(***************************************************************************)

\* Adding the target to well-formed lists, as create and confirm do
\* (scope_build.ensure_scope_includes_target), gives well-formed lists.
LEMMA WithTargetType ==
    ASSUME NEW l \in ScopeLists
    PROVE  WithTarget(l) \in ScopeLists
BY ScopeAssumption DEF WithTarget, ScopeLists

\* The mission record is well formed initially (MissionService.create).
LEMMA InitType == LifecycleInit => LifecycleTypeOK
<1> SUFFICES ASSUME LifecycleInit PROVE LifecycleTypeOK
  OBVIOUS
<1>1. lists \in ScopeLists
  BY WithTargetType, ScopeAssumption DEF LifecycleInit
<1> QED BY <1>1 DEF LifecycleInit, LifecycleTypeOK, Statuses, Reasons

\* No operation of the operator leaves the types of the record.
LEMMA OperatorType ==
    ASSUME LifecycleTypeOK, Operator
    PROVE  LifecycleTypeOK'
<1> USE DEF LifecycleTypeOK, Statuses, Terminal, Reasons
<1>1. CASE \E l \in Edits : UpdateScope(l)
  BY <1>1, ScopeAssumption DEF UpdateScope
<1>2. CASE Confirm
  <2>1. lists' \in ScopeLists
    BY <1>2, WithTargetType DEF Confirm
  <2> QED BY <1>2, <2>1 DEF Confirm
<1>3. CASE Start \/ Pause \/ Resume
  BY <1>3 DEF Start, Pause, Resume, Move
<1>4. CASE Stop
  BY <1>4 DEF Stop, End
<1> QED BY <1>1, <1>2, <1>3, <1>4 DEF Operator

\* Nor does a completion, a failure or an iteration of the engine.
LEMMA CompleteType ==
    ASSUME LifecycleTypeOK, NEW reason \in Reasons, Complete(reason)
    PROVE  LifecycleTypeOK' /\ status = "RUNNING" /\ status' = "COMPLETED"
BY DEF LifecycleTypeOK, Statuses, Terminal, Reasons, Complete, End

\* Counting an iteration keeps the record well formed (MissionService.bump_iteration).
LEMMA BumpType == LifecycleTypeOK /\ BumpIteration => LifecycleTypeOK'
BY DEF LifecycleTypeOK, BumpIteration

\* Every step keeps the record well formed.
LEMMA NextType == LifecycleTypeOK /\ [LifecycleNext]_lifecycleVars => LifecycleTypeOK'
<1> SUFFICES ASSUME LifecycleTypeOK, [LifecycleNext]_lifecycleVars
             PROVE  LifecycleTypeOK'
  OBVIOUS
<1>1. CASE Operator
  BY <1>1, OperatorType
<1>2. CASE \E reason \in CompletionReasons : Complete(reason)
  BY <1>2, CompleteType DEF Reasons
<1>3. CASE Fail
  BY <1>3 DEF LifecycleTypeOK, Statuses, Terminal, Reasons, Fail, End
<1>4. CASE BumpIteration
  BY <1>4, BumpType
<1>5. CASE UNCHANGED lifecycleVars
  BY <1>5 DEF LifecycleTypeOK, lifecycleVars
<1> QED BY <1>1, <1>2, <1>3, <1>4, <1>5 DEF LifecycleNext, EngineCalls

\* The mission record is well formed after any sequence of commands
\* (mission/service.py).
THEOREM LifecycleTypeCorrect == LifecycleSpec => []LifecycleTypeOK
<1>1. LifecycleInit => LifecycleTypeOK
  BY InitType
<1>2. LifecycleTypeOK /\ [LifecycleNext]_lifecycleVars => LifecycleTypeOK'
  BY NextType
<1> QED BY <1>1, <1>2, PTL DEF LifecycleSpec

(***************************************************************************)
(* The authorization.  AuthorizedTarget is not inductive by itself only    *)
(* because FreezeIsFinal must also know that a frozen scope belongs to a   *)
(* mission that has left CREATED.                                          *)
(***************************************************************************)

\* A frozen scope is never that of a draft (MissionService.confirm sets both).
FrozenLeftDraft == frozen => status # "CREATED"

Authorization == LifecycleTypeOK /\ AuthorizedTarget /\ FrozenLeftDraft

\* Lists that validation accepts with the target among them admit the target
\* under the policy's own check, whatever the subdomain flag: the entry for
\* the target covers it, and validation has ruled the exclusions out
\* (scope_build.validate_scope_values, ScopeChecker._check_ip, _check_fqdn).
LEMMA ConfirmedListsAdmitTarget ==
    ASSUME NEW l \in ScopeLists, ValidLists(WithTarget(l))
    PROVE  InScope(WithTarget(l), Target)
<1>1. Target \in WithTarget(l).allowed
  BY DEF WithTarget, ScopeLists
<1>2. Allowed(WithTarget(l), Target)
  BY <1>1, ScopeAssumption DEF Allowed
<1> QED BY <1>2 DEF InScope, ValidLists

\* A draft is not frozen (MissionService.create).
LEMMA AuthorizationInit == LifecycleInit => Authorization
BY InitType DEF LifecycleInit, Authorization, AuthorizedTarget, FrozenLeftDraft

\* Each operation of the operator keeps the authorization.
LEMMA AuthorizationOperator ==
    ASSUME Authorization, Operator
    PROVE  Authorization'
<1> USE DEF Authorization
<1>1. LifecycleTypeOK'
  BY OperatorType
<1>2. CASE \E l \in Edits : UpdateScope(l)
  BY <1>1, <1>2 DEF UpdateScope, AuthorizedTarget, FrozenLeftDraft
<1>3. CASE Confirm
  <2>1. InScope(lists', Target)
    BY <1>3, ConfirmedListsAdmitTarget DEF Confirm, LifecycleTypeOK
  <2> QED BY <1>1, <1>3, <2>1 DEF Confirm, AuthorizedTarget, FrozenLeftDraft
<1>4. CASE Start \/ Pause \/ Resume
  BY <1>1, <1>4 DEF Start, Pause, Resume, Move, AuthorizedTarget, FrozenLeftDraft
<1>5. CASE Stop
  BY <1>1, <1>5 DEF Stop, End, AuthorizedTarget, FrozenLeftDraft
<1> QED BY <1>2, <1>3, <1>4, <1>5 DEF Operator

\* So does every step.
LEMMA AuthorizationNext ==
    Authorization /\ [LifecycleNext]_lifecycleVars => Authorization'
<1> SUFFICES ASSUME Authorization, [LifecycleNext]_lifecycleVars
             PROVE  Authorization'
  OBVIOUS
<1>1. CASE Operator
  BY <1>1, AuthorizationOperator
<1>2. CASE EngineCalls
  <2>1. LifecycleTypeOK'
    BY NextType DEF Authorization
  <2> QED BY <1>2, <2>1 DEF EngineCalls, Complete, Fail, End, BumpIteration,
               Authorization, AuthorizedTarget, FrozenLeftDraft
<1>3. CASE UNCHANGED lifecycleVars
  BY <1>3, NextType DEF lifecycleVars, Authorization, AuthorizedTarget,
                        FrozenLeftDraft
<1> QED BY <1>1, <1>2, <1>3 DEF LifecycleNext

\* Whatever the operator drafted, a confirmed mission's frozen scope admits
\* the mission's own target (mission/service.py confirm).
THEOREM TargetIsAuthorized == LifecycleSpec => []AuthorizedTarget
<1>1. LifecycleInit => Authorization
  BY AuthorizationInit
<1>2. Authorization /\ [LifecycleNext]_lifecycleVars => Authorization'
  BY AuthorizationNext
<1>3. Authorization => AuthorizedTarget
  BY DEF Authorization
<1> QED BY <1>1, <1>2, <1>3, PTL DEF LifecycleSpec

\* Nothing changes a scope once it is frozen (mission/service.py update_scope).
THEOREM ScopeStaysFrozen == LifecycleSpec => FreezeIsFinal
<1>1. LifecycleInit => Authorization
  BY AuthorizationInit
<1>2. Authorization /\ [LifecycleNext]_lifecycleVars => Authorization'
  BY AuthorizationNext
<1>3. Authorization /\ [LifecycleNext]_lifecycleVars
        => [frozen => frozen' /\ lists' = lists]_lifecycleVars
  BY DEF Authorization, FrozenLeftDraft, LifecycleNext, Operator, EngineCalls,
         UpdateScope, Confirm, Start, Pause, Resume, Stop, Complete, Fail, Move,
         End, BumpIteration, lifecycleVars
<1> QED BY <1>1, <1>2, <1>3, PTL DEF LifecycleSpec, FreezeIsFinal

(***************************************************************************)
(* The end of a mission.                                                   *)
(***************************************************************************)

\* No command leads out of a terminal status (mission/state_machine.py).
THEOREM EndStays == LifecycleSpec => EndIsFinal
<1>1. [LifecycleNext]_lifecycleVars
        => [(status \in Terminal) => UNCHANGED <<status, stopReason, iteration>>]_lifecycleVars
  BY DEF Terminal, LifecycleNext, Operator, EngineCalls, UpdateScope, Confirm,
         Start, Pause, Resume, Stop, Complete, Fail, Move, End, BumpIteration,
         lifecycleVars
<1> QED BY <1>1, PTL DEF LifecycleSpec, EndIsFinal

\* The flags the engine and the views read beside the status agree with it
\* (mission/service.py _transition).
THEOREM FlagsAlwaysAgree == LifecycleSpec => []FlagsAgree
<1>1. LifecycleInit => FlagsAgree
  BY DEF LifecycleInit, FlagsAgree, Terminal
<1>2. FlagsAgree /\ [LifecycleNext]_lifecycleVars => FlagsAgree'
  <2> SUFFICES ASSUME FlagsAgree, [LifecycleNext]_lifecycleVars PROVE FlagsAgree'
    OBVIOUS
  <2> USE DEF FlagsAgree, Terminal
  <2>1. CASE \E l \in Edits : UpdateScope(l)
    BY <2>1 DEF UpdateScope
  <2>2. CASE Confirm
    BY <2>2 DEF Confirm
  <2>3. CASE Start \/ Pause \/ Resume
    BY <2>3 DEF Start, Pause, Resume, Move
  <2>4. CASE Stop \/ Fail \/ \E reason \in CompletionReasons : Complete(reason)
    BY <2>4 DEF Stop, Fail, Complete, End, CompletionReasons
  <2>5. CASE BumpIteration
    BY <2>5 DEF BumpIteration
  <2>6. CASE UNCHANGED lifecycleVars
    BY <2>6 DEF lifecycleVars
  <2> QED BY <2>1, <2>2, <2>3, <2>4, <2>5, <2>6
          DEF LifecycleNext, Operator, EngineCalls
<1> QED BY <1>1, <1>2, PTL DEF LifecycleSpec
=============================================================================
