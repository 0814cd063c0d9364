------------------------- MODULE MissionEngineProofs -------------------------
(***************************************************************************)
(* Theorems of MissionEngine, for every set of keys and subjects, every    *)
(* limit and any number of crashes and storage faults.                     *)
(***************************************************************************)
EXTENDS MissionEngine, MissionLifecycleProofs, WellOrder

(***************************************************************************)
(* The inductive invariant.                                                *)
(***************************************************************************)

InFlight == {"running", "result", "applied"}

\* A cycle is in progress only in a live process, below the iteration limit
\* and for a mission that runs; an adapter's key is one the world leaves open.
CycleInv ==
    /\ pc # "idle" => up
    /\ pc \notin {"idle", "saving"} => status = "RUNNING"
    /\ pc \in InFlight \cup {"counting"} => iteration < MaxIterations
    /\ pc \in InFlight => act.key \in Keys /\ world.cover[act.key] \notin Blocking
    /\ iteration <= MaxIterations

\* Every adapter run has been counted as an iteration, except the one of the
\* cycle in progress, one lost to each interruption, and the last one of a
\* mission that has too many failures.
RunLedger ==
    /\ runs <= MaxIterations + Interruptions
    /\ pc # "idle" => runs <= iteration + 1 + Interruptions
    /\ pc \in {"idle", "saving"} /\ status \notin Terminal =>
          runs <= iteration + Interruptions

\* The attempts a coverage status accounts for.
Spent(c) == IF c = "none" THEN 0 ELSE IF c = "attempted" THEN 1 ELSE MaxAttempts

\* What the coverage in memory, and the coverage in the checkpoint, account
\* for: all attempts but those an interruption hid, and the one in flight.
Accounted(k) ==
    /\ up => attempts[k] <= Spent(world.cover[k]) + Interruptions
                + (IF pc \in InFlight /\ act.key = k THEN 1 ELSE 0)
    /\ attempts[k] <= Spent(checkpoint.world.cover[k]) + Interruptions
                + (IF pc = "idle" THEN 0 ELSE 1)

AttemptLedger == \A k \in Keys : Accounted(k)

\* Before the first checkpoint its coverage is that of the seeds.
CheckpointInv == checkpoint.taken \/ checkpoint = NoCheckpoint

EngineInv == TypeOK /\ CheckpointInv /\ CycleInv /\ RunLedger /\ AttemptLedger

(***************************************************************************)
(* Type correctness.                                                       *)
(***************************************************************************)

\* Applying rows of the evidence table to a world gives a world with the same
\* coverage (InMemoryWorldModel.apply_evidence).
LEMMA ProjectType ==
    ASSUME NEW w \in Worlds, NEW table \in Seq(Rows),
           NEW rows \in SUBSET (DOMAIN table), NEW gated \in BOOLEAN
    PROVE  /\ Project(w, table, rows, gated) \in Worlds
           /\ Project(w, table, rows, gated).cover = w.cover
<1> DEFINE new == Raised(table, rows) \ (w.live \cup w.barred)
           out == {k \in new : MarkedOut(k, gated)}
<1>1. rows \subseteq Nat /\ \A i \in rows : table[i] \in Rows
  OBVIOUS
<1>2. new \subseteq Keys
  BY <1>1 DEF Raised, Rows
<1>3. out \subseteq Keys
  BY <1>2
<1>4. Project(w, table, rows, gated) =
        [applied |-> w.applied \cup rows, live |-> w.live \cup (new \ out),
         barred |-> w.barred \cup out, cover |-> w.cover]
  BY DEF Project
<1> HIDE DEF new, out
<1>5. /\ w.applied \cup rows \in SUBSET Nat
      /\ w.live \cup (new \ out) \in SUBSET Keys
      /\ w.barred \cup out \in SUBSET Keys
      /\ w.cover \in [Keys -> Coverage]
  BY <1>1, <1>2, <1>3 DEF Worlds
<1> HIDE DEF Project
<1> QED BY <1>4, <1>5 DEF Worlds

\* Recording a coverage status changes that entry and nothing else.
LEMMA CoveredType ==
    ASSUME NEW w \in Worlds, NEW k \in Keys, NEW c \in Coverage
    PROVE  /\ Covered(w, k, c) \in Worlds
           /\ Covered(w, k, c).cover[k] = c
           /\ \A j \in Keys \ {k} : Covered(w, k, c).cover[j] = w.cover[j]
BY DEF Covered, Worlds

\* The seeds give a world with nothing covered.
LEMMA SeededType ==
    /\ SeededWorld \in Worlds
    /\ \A k \in Keys : SeededWorld.cover[k] = "none"
BY KeyAssumption DEF SeededWorld, Worlds, Coverage

\* A resumed world has the coverage of the checkpoint it was resumed from
\* (SqliteStore.resume_world, rebuild_from_evidence).
LEMMA ResumedType ==
    ASSUME TypeOK, CheckpointInv
    PROVE  /\ ResumedWorld \in Worlds
           /\ ResumedWorld.cover = checkpoint.world.cover
<1>1. Pending(checkpoint.world) \in SUBSET (DOMAIN evidence)
  BY DEF Pending
<1>2. evidence \in Seq(Rows) /\ checkpoint.world \in Worlds
  BY DEF TypeOK
<1>3. CASE checkpoint.taken
  BY <1>1, <1>2, <1>3, ProjectType DEF ResumedWorld
<1>4. CASE ~checkpoint.taken
  <2>1. checkpoint.world = SeededWorld
    BY <1>4 DEF CheckpointInv, NoCheckpoint
  <2> QED BY <1>2, <1>4, <2>1, ProjectType, SeededType DEF ResumedWorld
<1> QED BY <1>3, <1>4

\* What a cycle is about is well formed, and only an adapter's run has a key.
LEMMA ActTypes ==
    /\ NoAct \in Acts
    /\ \A p \in {"skip", "note", "test"}, a \in BOOLEAN : Counting(p, a) \in Acts
    /\ \A r \in Reasons : Closing(r) \in Acts
    /\ \A k \in Keys : [NoAct EXCEPT !.key = k] \in Acts /\ [NoAct EXCEPT !.key = k].key = k
BY DEF NoAct, Acts, Counting, Closing, Reasons

\* A first failure leaves one retry, a second one closes the key for good
\* (actions/coverage.py next_failure_coverage).
LEMMA FailureCoverageSpent ==
    ASSUME NEW c \in Coverage, NEW retryable \in BOOLEAN, c \notin Blocking
    PROVE  /\ FailureCoverage(c, retryable) \in Coverage
           /\ Spent(c) \in Nat
           /\ Spent(FailureCoverage(c, retryable)) >= Spent(c) + 1
BY DEF FailureCoverage, Coverage, Blocking, Spent, MaxAttempts

\* A status that closes a key accounts for the whole budget of attempts.
LEMMA SpentBounds ==
    ASSUME NEW c \in Coverage
    PROVE  /\ Spent(c) \in 0..MaxAttempts
           /\ c \in Blocking => Spent(c) = MaxAttempts
           /\ c \notin Blocking => Spent(c) <= 1
BY DEF Coverage, Blocking, Spent, MaxAttempts

\* A step that leaves the mission record alone leaves it well formed.
LEMMA LifecycleUnchanged ==
    LifecycleTypeOK /\ UNCHANGED lifecycleVars => LifecycleTypeOK'
BY DEF LifecycleTypeOK, lifecycleVars

\* The process starts with nothing run and nothing covered.
LEMMA EngineInit == Init => EngineInv
<1> SUFFICES ASSUME Init PROVE EngineInv
  OBVIOUS
<1>1. TypeOK
  BY InitType, SeededType, ActTypes DEF Init, TypeOK, NoCheckpoint, Points
<1>2. CheckpointInv /\ CycleInv /\ RunLedger
  BY IterationAssumption DEF Init, LifecycleInit, CheckpointInv, CycleInv, RunLedger,
     InFlight, Interruptions
<1>3. AttemptLedger
  BY SeededType DEF Init, AttemptLedger, Accounted, NoCheckpoint, Spent, InFlight, Interruptions
<1> QED BY <1>1, <1>2, <1>3 DEF EngineInv

\* Recording a status in the World Model keeps it well formed.
LEMMA RecordType ==
    ASSUME world \in Worlds, NEW k \in Keys, NEW c \in Coverage, Record(k, c)
    PROVE  /\ world' \in Worlds /\ moved' \in BOOLEAN
           /\ world'.cover[k] = c
           /\ \A j \in Keys \ {k} : world'.cover[j] = world.cover[j]
BY CoveredType DEF Record

\* No step of the operator, a cycle or an outage leaves the types.
LEMMA StepType ==
    ASSUME TypeOK, CheckpointInv, CycleInv, [Next]_vars
    PROVE  TypeOK'
<1> USE DEF TypeOK, Points, memory, history, outages
<1>1. CASE OperatorCommand
  BY <1>1, OperatorType DEF OperatorCommand, engineVars
<1>2. CASE GuardStops
  BY <1>2, CompleteType DEF GuardStops, engineVars, Reasons, CompletionReasons
<1>3. CASE Finish
  <2>1. PICK r \in Reasons : Complete(r)
    BY <1>3 DEF Finish, Reasons, CompletionReasons
  <2> QED BY <1>3, <2>1, CompleteType DEF Finish
<1>4. CASE Defer
  BY <1>4, ActTypes, LifecycleUnchanged DEF Defer
<1>5. ASSUME NEW k \in Keys, Deny(k) PROVE TypeOK'
  BY <1>5, ActTypes, LifecycleUnchanged, RecordType DEF Deny, Coverage, Blocking
<1>6. ASSUME NEW k \in Keys, Reject(k) PROVE TypeOK'
  BY <1>6, ActTypes, LifecycleUnchanged, RecordType DEF Reject, Coverage, Blocking
<1>7. ASSUME NEW k \in Keys, Unavailable(k) PROVE TypeOK'
  <2>1. world' \in Worlds /\ moved' \in BOOLEAN
    BY <1>7, RecordType DEF Unavailable, Coverage, Blocking
  <2>2. pc' \in Points /\ act' \in Acts
    BY <1>7, ActTypes DEF Unavailable, AfterFailure, Reasons, CompletionReasons
  <2>3. LifecycleTypeOK'
    BY <1>7, LifecycleUnchanged DEF Unavailable
  <2> QED BY <1>7, <2>1, <2>2, <2>3 DEF Unavailable
<1>8. ASSUME NEW k \in Keys, Execute(k) PROVE TypeOK'
  BY <1>8, ActTypes, LifecycleUnchanged DEF Execute
<1>9. ASSUME NEW retryable \in BOOLEAN, ResultFailed(retryable) PROVE TypeOK'
  <2>1. FailureCoverage(world.cover[act.key], retryable) \in Coverage
    BY DEF FailureCoverage, Coverage, Blocking
  <2>2. world' \in Worlds /\ moved' \in BOOLEAN
    BY <1>9, <2>1, RecordType DEF ResultFailed, CycleInv, InFlight
  <2>3. pc' \in Points /\ act' \in Acts
    BY <1>9, ActTypes DEF ResultFailed, AfterFailure, Reasons, CompletionReasons
  <2>4. LifecycleTypeOK'
    BY <1>9, LifecycleUnchanged DEF ResultFailed
  <2> QED BY <1>9, <2>2, <2>3, <2>4 DEF ResultFailed
<1>10. CASE ResultCompleted
  BY <1>10, LifecycleUnchanged DEF ResultCompleted
<1>11. CASE ParseFailed
  <2>1. world' \in Worlds /\ moved' \in BOOLEAN
    BY <1>11, RecordType DEF ParseFailed, CycleInv, InFlight, Coverage, Blocking
  <2>2. LifecycleTypeOK'
    BY <1>11, LifecycleUnchanged DEF ParseFailed
  <2>3. act' \in Acts
    BY <1>11, ActTypes DEF ParseFailed
  <2>4. failures' \in Nat /\ streak' \in Nat
    BY <1>11 DEF ParseFailed
  <2> QED BY <1>11, <2>1, <2>2, <2>3, <2>4 DEF ParseFailed
<1>12. CASE EvidenceSaved
  <2>1. act.key \in Keys
    BY <1>12 DEF EvidenceSaved, CycleInv, InFlight
  <2>2. evidence' \in Seq(Rows) /\ Len(evidence') \in DOMAIN evidence'
    <3>1. PICK found \in SUBSET Opens[act.key] :
            evidence' = Append(evidence, [key |-> act.key, brings |-> found])
      BY <1>12 DEF EvidenceSaved
    <3>2. [key |-> act.key, brings |-> found] \in Rows
      BY <2>1, KeyAssumption DEF Rows
    <3> QED BY <3>1, <3>2
  <2>3. world' \in Worlds
    BY <1>12, <2>2, ProjectType DEF EvidenceSaved
  <2>4. act' \in Acts
    BY <1>12 DEF EvidenceSaved, Acts
  <2> QED BY <1>12, <2>2, <2>3, <2>4, LifecycleUnchanged DEF EvidenceSaved
<1>13. CASE NothingFound
  BY <1>13, LifecycleUnchanged DEF NothingFound
<1>14. CASE ActionCovered
  <2>1. act.key \in Keys /\ act.added \in BOOLEAN
    BY <1>14 DEF ActionCovered, CycleInv, InFlight, Acts
  <2> QED BY <1>14, <2>1, ActTypes, LifecycleUnchanged, RecordType
          DEF ActionCovered, Coverage, Blocking
<1>15. CASE Count
  <2>1. act' \in Acts /\ pc' \in Points
    BY <1>15, ActTypes DEF Count, Reasons, CompletionReasons
  <2>2. dry' \in Nat
    BY <1>15 DEF Count
  <2>3. stalls' \in Nat
    BY <1>15 DEF Count
  <2>4. moved' \in BOOLEAN
    BY <1>15, Zenon DEF Count
  <2> QED BY <1>15, <2>1, <2>2, <2>3, <2>4, BumpType DEF Count
<1>16. CASE Close
  <2>1. act.reason \in Reasons
    BY DEF Acts
  <2> QED BY <1>16, <2>1, ActTypes, CompleteType DEF Close
<1>17. CASE Save
  BY <1>17, LifecycleUnchanged DEF Save
<1>18. CASE Crash
  <2>1. LifecycleTypeOK'
    BY <1>18, LifecycleUnchanged DEF Crash
  <2>2. act' \in Acts /\ world' \in Worlds
    BY <1>18, ActTypes, SeededType DEF Crash
  <2>3. up' \in BOOLEAN /\ moved' \in BOOLEAN
    BY <1>18, Zenon DEF Crash
  <2>4. crashes' \in Nat /\ failures' \in Nat /\ stalls' \in Nat
    BY <1>18 DEF Crash
  <2> QED BY <1>18, <2>1, <2>2, <2>3, <2>4 DEF Crash
<1>19. CASE Restart
  <2>1. world' \in Worlds
    BY <1>19, ResumedType DEF Restart
  <2> QED BY <1>19, <2>1, LifecycleUnchanged DEF Restart
<1>20. CASE Abort
  BY <1>20, ActTypes, LifecycleUnchanged DEF Abort
<1>21. CASE UNCHANGED vars
  BY <1>21, LifecycleUnchanged DEF vars, engineVars
<1> QED BY <1>1, <1>2, <1>3, <1>4, <1>5, <1>6, <1>7, <1>8, <1>9, <1>10, <1>11,
           <1>12, <1>13, <1>14, <1>15, <1>16, <1>17, <1>18, <1>19, <1>20, <1>21
        DEF Next, Cycle, Decide, Continue

\* The checkpoint is replaced whole, by the transaction that ends a cycle.
LEMMA StepCheckpoint ==
    ASSUME CheckpointInv, [Next]_vars
    PROVE  CheckpointInv'
<1>1. CASE Save
  BY <1>1 DEF Save, CheckpointInv
<1>2. CASE UNCHANGED checkpoint
  BY <1>2 DEF CheckpointInv, NoCheckpoint, SeededWorld
<1>3. Save \/ UNCHANGED checkpoint
  BY DEF Next, Cycle, Decide, Continue, OperatorCommand, GuardStops, Finish, Defer,
         Deny, Reject, Unavailable, Execute, ResultFailed, ResultCompleted,
         ParseFailed, EvidenceSaved, NothingFound, ActionCovered, Count, Close,
         Crash, Restart, Abort, vars, engineVars
<1> QED BY <1>1, <1>2, <1>3

(***************************************************************************)
(* A cycle in progress.                                                    *)
(***************************************************************************)

\* Only a command of the operator between cycles, or a completion by the
\* engine, changes the status of a mission.
LEMMA StepCycle ==
    ASSUME TypeOK, CycleInv, [Next]_vars
    PROVE  CycleInv'
<1> USE DEF CycleInv, InFlight, lifecycleVars, memory, history, outages
<1>1. CASE OperatorCommand
  <2>1. UNCHANGED <<pc, up, world, act, iteration>>
    BY <1>1 DEF OperatorCommand, Operator, UpdateScope, Confirm, Start, Pause,
       Resume, Move, Stop, End, engineVars
  <2> QED BY <1>1, <2>1 DEF OperatorCommand
<1>2. CASE GuardStops
  BY <1>2 DEF GuardStops, Complete, End, Called, engineVars
<1>3. CASE Finish
  BY <1>3 DEF Finish, Complete, End, Ready, Called
<1>4. CASE Defer
  BY <1>4 DEF Defer, Ready, Called
<1>5. ASSUME NEW k \in Keys, Deny(k) PROVE CycleInv'
  BY <1>5 DEF Deny, Ready, Called
<1>6. ASSUME NEW k \in Keys, Reject(k) PROVE CycleInv'
  BY <1>6 DEF Reject, Ready, Called
<1>7. ASSUME NEW k \in Keys, Unavailable(k) PROVE CycleInv'
  BY <1>7 DEF Unavailable, AfterFailure, Ready, Called
<1>8. ASSUME NEW k \in Keys, Execute(k) PROVE CycleInv'
  <2>1. act'.key = k /\ world'.cover[k] \notin Blocking
    BY <1>8, ActTypes DEF Execute, Candidates
  <2> QED BY <1>8, <2>1 DEF Execute, Ready, Called
<1>9. ASSUME NEW retryable \in BOOLEAN, ResultFailed(retryable) PROVE CycleInv'
  BY <1>9 DEF ResultFailed, AfterFailure
<1>10. CASE ResultCompleted
  BY <1>10 DEF ResultCompleted
<1>11. CASE ParseFailed
  BY <1>11 DEF ParseFailed
<1>12. CASE EvidenceSaved
  <2>1. act'.key = act.key
    BY <1>12 DEF EvidenceSaved, TypeOK, Acts
  <2>2. world'.cover = world.cover
    BY <1>12 DEF EvidenceSaved, Project
  <2> QED BY <1>12, <2>1, <2>2 DEF EvidenceSaved
<1>13. CASE NothingFound
  BY <1>13 DEF NothingFound
<1>14. CASE ActionCovered
  BY <1>14 DEF ActionCovered
<1>15. CASE Count
  BY <1>15, IterationAssumption DEF Count, BumpIteration, TypeOK, LifecycleTypeOK
<1>16. CASE Close
  BY <1>16 DEF Close, Complete, End
<1>17. CASE Save
  BY <1>17 DEF Save
<1>18. CASE Crash
  BY <1>18 DEF Crash
<1>19. CASE Restart
  BY <1>19 DEF Restart
<1>20. CASE Abort
  BY <1>20 DEF Abort
<1>21. CASE UNCHANGED vars
  BY <1>21 DEF vars, engineVars
<1> QED BY <1>1, <1>2, <1>3, <1>4, <1>5, <1>6, <1>7, <1>8, <1>9, <1>10, <1>11,
           <1>12, <1>13, <1>14, <1>15, <1>16, <1>17, <1>18, <1>19, <1>20, <1>21
        DEF Next, Cycle, Decide, Continue

(***************************************************************************)
(* The ledger of executions.                                               *)
(***************************************************************************)

\* An adapter's run is paid for by the iteration its cycle counts, or by the
\* interruption that keeps it from counting.
LEMMA StepRuns ==
    ASSUME TypeOK, CycleInv, RunLedger, [Next]_vars
    PROVE  RunLedger'
<1> USE DEF RunLedger, Interruptions, InFlight, Terminal, lifecycleVars, memory,
            history, outages
<1>0. /\ MaxIterations \in Nat /\ iteration \in Nat /\ runs \in Nat
      /\ crashes \in Nat /\ faults \in Nat /\ iteration <= MaxIterations
  BY IterationAssumption DEF TypeOK, LifecycleTypeOK, CycleInv
<1>1. CASE OperatorCommand
  <2>1. UNCHANGED <<pc, runs, crashes, faults, iteration>>
    BY <1>1 DEF OperatorCommand, Operator, UpdateScope, Confirm, Start, Pause,
       Resume, Move, Stop, End, engineVars
  <2>2. status \in Terminal => status' \in Terminal
    BY <1>1 DEF OperatorCommand, Operator, UpdateScope, Confirm, Start, Pause,
       Resume, Move, Stop, End
  <2> QED BY <2>1, <2>2
<1>2. CASE GuardStops
  BY <1>2 DEF GuardStops, Complete, End, engineVars
<1>3. CASE Finish
  BY <1>0, <1>3 DEF Finish, Complete, End, Ready, Called
<1>4. CASE Defer
  BY <1>0, <1>4 DEF Defer, Ready, Called
<1>5. ASSUME NEW k \in Keys, Deny(k) \/ Reject(k) PROVE RunLedger'
  <2>1. CASE Deny(k)
    BY <1>0, <2>1 DEF Deny, Ready, Called
  <2>2. CASE Reject(k)
    BY <1>0, <2>2 DEF Reject, Ready, Called
  <2> QED BY <1>5, <2>1, <2>2
<1>6. ASSUME NEW k \in Keys, Unavailable(k) PROVE RunLedger'
  BY <1>0, <1>6 DEF Unavailable, AfterFailure, Ready, Called
<1>7. ASSUME NEW k \in Keys, Execute(k) PROVE RunLedger'
  BY <1>0, <1>7 DEF Execute, Ready, Called
<1>8. ASSUME NEW retryable \in BOOLEAN, ResultFailed(retryable) PROVE RunLedger'
  BY <1>8 DEF ResultFailed, AfterFailure
<1>9. CASE ResultCompleted \/ ParseFailed \/ EvidenceSaved \/ NothingFound
  BY <1>9 DEF ResultCompleted, ParseFailed, EvidenceSaved, NothingFound
<1>10. CASE ActionCovered
  BY <1>10 DEF ActionCovered
<1>11. CASE Count
  BY <1>0, <1>11 DEF Count, BumpIteration
<1>12. CASE Close
  BY <1>12 DEF Close, Complete, End
<1>13. CASE Save
  BY <1>13 DEF Save
<1>14. CASE Crash
  BY <1>0, <1>14 DEF Crash
<1>15. CASE Restart
  BY <1>15 DEF Restart
<1>16. CASE Abort
  BY <1>0, <1>16 DEF Abort
<1>17. CASE UNCHANGED vars
  BY <1>17 DEF vars, engineVars
<1> QED BY <1>1, <1>2, <1>3, <1>4, <1>5, <1>6, <1>7, <1>8, <1>9, <1>10, <1>11,
           <1>12, <1>13, <1>14, <1>15, <1>16, <1>17
        DEF Next, Cycle, Decide, Continue

(***************************************************************************)
(* The ledger of attempts.                                                 *)
(***************************************************************************)

\* A status recorded between runs accounts for no less than the one it
\* replaces, and the attempts do not change.
LEMMA CoverBetweenRuns ==
    ASSUME TypeOK, AttemptLedger, up, pc = "idle", NEW j \in Keys, NEW c \in Blocking,
           Record(j, c), UNCHANGED <<attempts, checkpoint, crashes, faults, up>>,
           pc' \notin InFlight \cup {"idle"}
    PROVE  AttemptLedger'
<1> SUFFICES ASSUME NEW k \in Keys PROVE Accounted(k)'
  BY DEF AttemptLedger
<1>1. /\ attempts[k] \in Nat /\ crashes \in Nat /\ faults \in Nat
      /\ world \in Worlds /\ world.cover[k] \in Coverage
      /\ checkpoint.world.cover[k] \in Coverage
  BY DEF TypeOK, Worlds
<1>2. Accounted(k)
  BY DEF AttemptLedger
<1>3. Spent(world'.cover[k]) >= Spent(world.cover[k])
  <2>1. CASE k = j
    BY <1>1, <2>1, RecordType, SpentBounds DEF Coverage, MaxAttempts
  <2>2. CASE k # j
    BY <1>1, <2>2, RecordType, SpentBounds DEF Coverage
  <2> QED BY <2>1, <2>2
<1>4. /\ Spent(world.cover[k]) \in Nat /\ Spent(world'.cover[k]) \in Nat
      /\ Spent(checkpoint.world.cover[k]) \in Nat
  <2>1. world'.cover[k] \in Coverage
    BY <1>1, RecordType DEF Coverage, Worlds
  <2> QED BY <1>1, <2>1, SpentBounds
<1> QED BY <1>1, <1>2, <1>3, <1>4 DEF Accounted, Interruptions, InFlight

\* The status recorded when an adapter's run is over accounts for that run.
LEMMA CoverAfterRun ==
    ASSUME TypeOK, CycleInv, AttemptLedger, pc \in InFlight, NEW c \in Coverage,
           Spent(c) >= Spent(world.cover[act.key]) + 1,
           Record(act.key, c), UNCHANGED <<attempts, checkpoint, crashes, faults, up>>,
           pc' \notin InFlight \cup {"idle"}
    PROVE  AttemptLedger'
<1> SUFFICES ASSUME NEW k \in Keys PROVE Accounted(k)'
  BY DEF AttemptLedger
<1>1. /\ attempts[k] \in Nat /\ crashes \in Nat /\ faults \in Nat
      /\ world \in Worlds /\ world.cover[k] \in Coverage
      /\ checkpoint.world.cover[k] \in Coverage /\ act.key \in Keys
  BY DEF TypeOK, Worlds, CycleInv
<1>2. up /\ pc # "idle"
  BY DEF CycleInv, InFlight
<1>3. Accounted(k)
  BY DEF AttemptLedger
<1>4. /\ Spent(world.cover[k]) \in Nat /\ Spent(c) \in Nat
      /\ Spent(checkpoint.world.cover[k]) \in Nat
  BY <1>1, SpentBounds
<1>5. world'.cover[act.key] = c
  BY <1>1, RecordType
<1>6. act.key # k => world'.cover[k] = world.cover[k]
  BY <1>1, RecordType
<1> QED BY <1>1, <1>2, <1>3, <1>4, <1>5, <1>6 DEF Accounted, Interruptions, InFlight

\* A step that neither runs an adapter nor records a status, and does not
\* leave a run behind, keeps the ledger.
LEMMA LedgerUntouched ==
    ASSUME TypeOK, AttemptLedger,
           UNCHANGED <<attempts, checkpoint, crashes, faults, up>>,
           world'.cover = world.cover,
           pc \in InFlight => pc' \in InFlight /\ act'.key = act.key,
           pc' = "idle" => pc = "idle"
    PROVE  AttemptLedger'
<1> SUFFICES ASSUME NEW k \in Keys PROVE Accounted(k)'
  BY DEF AttemptLedger
<1>1. /\ attempts[k] \in Nat /\ crashes \in Nat /\ faults \in Nat
      /\ Spent(world.cover[k]) \in Nat /\ Spent(checkpoint.world.cover[k]) \in Nat
  BY SpentBounds DEF TypeOK, Worlds
<1>2. Accounted(k)
  BY DEF AttemptLedger
<1> QED BY <1>1, <1>2 DEF Accounted, Interruptions

\* Every attempt is accounted for by a recorded status, by the run in
\* progress or by an interruption.
LEMMA StepAttempts ==
    ASSUME TypeOK, CheckpointInv, CycleInv, AttemptLedger, [Next]_vars
    PROVE  AttemptLedger'
<1> USE DEF lifecycleVars, memory, history, outages
<1>0. ASSUME NEW k \in Keys
      PROVE  /\ attempts[k] \in Nat /\ crashes \in Nat /\ faults \in Nat
             /\ Spent(world.cover[k]) \in Nat
             /\ Spent(checkpoint.world.cover[k]) \in Nat
             /\ Accounted(k)
  BY SpentBounds DEF TypeOK, Worlds, AttemptLedger
<1>1. CASE OperatorCommand
  BY <1>1, LedgerUntouched DEF OperatorCommand, engineVars
<1>2. CASE GuardStops
  BY <1>2, LedgerUntouched DEF GuardStops, engineVars
<1>3. CASE Finish \/ Defer
  BY <1>3, LedgerUntouched DEF Finish, Defer, Ready, Called, InFlight
<1>4. ASSUME NEW k \in Keys, Deny(k) PROVE AttemptLedger'
  BY <1>4, CoverBetweenRuns DEF Deny, Ready, Called, InFlight, Blocking
<1>5. ASSUME NEW k \in Keys, Reject(k) PROVE AttemptLedger'
  BY <1>5, CoverBetweenRuns DEF Reject, Ready, Called, InFlight, Blocking
<1>6. ASSUME NEW k \in Keys, Unavailable(k) PROVE AttemptLedger'
  BY <1>6, CoverBetweenRuns DEF Unavailable, AfterFailure, Ready, Called, InFlight,
     Blocking
<1>7. ASSUME NEW j \in Keys, Execute(j) PROVE AttemptLedger'
  <2> SUFFICES ASSUME NEW k \in Keys PROVE Accounted(k)'
    BY DEF AttemptLedger
  <2>1. act'.key = j
    BY <1>7, ActTypes DEF Execute
  <2>2. attempts'[k] = IF k = j THEN attempts[k] + 1 ELSE attempts[k]
    BY <1>7 DEF Execute, TypeOK
  <2> QED BY <1>0, <1>7, <2>1, <2>2
          DEF Execute, Ready, Called, Accounted, Interruptions, InFlight
<1>8. ASSUME NEW retryable \in BOOLEAN, ResultFailed(retryable) PROVE AttemptLedger'
  <2> DEFINE c == FailureCoverage(world.cover[act.key], retryable)
  <2>1. world.cover[act.key] \in Coverage \ Blocking
    BY <1>8 DEF ResultFailed, CycleInv, InFlight, TypeOK, Worlds
  <2>2. c \in Coverage /\ Spent(c) >= Spent(world.cover[act.key]) + 1
    BY <2>1, FailureCoverageSpent
  <2>3. Record(act.key, c)
    BY <1>8 DEF ResultFailed
  <2> HIDE DEF c
  <2> QED BY <1>8, <2>2, <2>3, CoverAfterRun DEF ResultFailed, AfterFailure, InFlight
<1>9. CASE ResultCompleted \/ NothingFound
  BY <1>9, LedgerUntouched DEF ResultCompleted, NothingFound, InFlight
<1>10. CASE EvidenceSaved
  <2>1. act'.key = act.key
    BY <1>10 DEF EvidenceSaved, TypeOK, Acts
  <2>2. world'.cover = world.cover
    BY <1>10 DEF EvidenceSaved, Project
  <2> QED BY <1>10, <2>1, <2>2, LedgerUntouched DEF EvidenceSaved, InFlight
<1>11. ASSUME pc \in InFlight, NEW c \in {"failed", "completed"}
       PROVE  c \in Coverage /\ Spent(c) >= Spent(world.cover[act.key]) + 1
  BY <1>11, SpentBounds DEF CycleInv, TypeOK, Worlds, Spent, MaxAttempts, Coverage,
     Blocking
<1>12. CASE ParseFailed
  BY <1>11, <1>12, CoverAfterRun DEF ParseFailed, InFlight
<1>13. CASE ActionCovered
  BY <1>11, <1>13, CoverAfterRun DEF ActionCovered, InFlight
<1>14. CASE Count
  BY <1>14, LedgerUntouched DEF Count, InFlight
<1>15. CASE Close
  BY <1>15, LedgerUntouched DEF Close, InFlight
<1>16. CASE Save
  <2> SUFFICES ASSUME NEW k \in Keys PROVE Accounted(k)'
    BY DEF AttemptLedger
  <2>1. checkpoint'.world = world
    BY <1>16 DEF Save
  <2> QED BY <1>0, <1>16, <2>1 DEF Save, Accounted, Interruptions, InFlight
<1>17. CASE Crash
  <2> SUFFICES ASSUME NEW k \in Keys PROVE Accounted(k)'
    BY DEF AttemptLedger
  <2> QED BY <1>0, <1>17 DEF Crash, Accounted, Interruptions
<1>18. CASE Restart
  <2> SUFFICES ASSUME NEW k \in Keys PROVE Accounted(k)'
    BY DEF AttemptLedger
  <2>1. world'.cover = checkpoint.world.cover
    BY <1>18, ResumedType DEF Restart
  <2>2. pc = "idle"
    BY <1>18 DEF Restart, CycleInv
  <2> QED BY <1>0, <1>18, <2>1, <2>2 DEF Restart, Accounted, Interruptions, InFlight
<1>19. CASE Abort
  <2> SUFFICES ASSUME NEW k \in Keys PROVE Accounted(k)'
    BY DEF AttemptLedger
  <2> QED BY <1>0, <1>19 DEF Abort, Accounted, Interruptions, InFlight
<1>20. CASE UNCHANGED vars
  BY <1>20, LedgerUntouched DEF vars, engineVars
<1> QED BY <1>1, <1>2, <1>3, <1>4, <1>5, <1>6, <1>7, <1>8, <1>9, <1>10, <1>12,
           <1>13, <1>14, <1>15, <1>16, <1>17, <1>18, <1>19, <1>20
        DEF Next, Cycle, Decide, Continue

\* The five parts of the invariant support each other: types need the cycle
\* invariant for the key of a run, the ledgers need both.
LEMMA StepInv == EngineInv /\ [Next]_vars => EngineInv'
BY StepType, StepCheckpoint, StepCycle, StepRuns, StepAttempts DEF EngineInv

(***************************************************************************)
(* Theorems.                                                               *)
(***************************************************************************)

\* The inductive invariant holds in every state of the engine (engine/loop.py).
THEOREM EngineInvariant == Spec => []EngineInv
BY EngineInit, StepInv, PTL DEF Spec

\* The engine keeps its state well formed through every outage.
THEOREM EngineTypeCorrect == Spec => []TypeOK
<1>1. EngineInv => TypeOK
  BY DEF EngineInv
<1> QED BY <1>1, EngineInvariant, PTL

\* No coverage key is run against more than its two attempts and one more for
\* each interruption (actions/coverage.py, engine/loop.py _act).
THEOREM AttemptsAreBudgeted == Spec => []AttemptBudget
<1>1. EngineInv => AttemptBudget
  <2> SUFFICES ASSUME EngineInv, NEW k \in Keys
               PROVE  attempts[k] <= MaxAttempts + Interruptions
    BY DEF AttemptBudget
  <2>1. /\ Accounted(k) /\ attempts[k] \in Nat /\ Interruptions \in Nat
        /\ world.cover[k] \in Coverage /\ checkpoint.world.cover[k] \in Coverage
    BY DEF EngineInv, AttemptLedger, TypeOK, Worlds, Interruptions
  <2>2. CASE up
    <3>1. pc \in InFlight /\ act.key = k => world.cover[k] \notin Blocking
      BY DEF EngineInv, CycleInv
    <3> QED BY <2>1, <2>2, <3>1, SpentBounds DEF Accounted, MaxAttempts
  <2>3. CASE ~up
    <3>1. pc = "idle"
      BY <2>3 DEF EngineInv, CycleInv
    <3> QED BY <2>1, <3>1, SpentBounds DEF Accounted, MaxAttempts
  <2> QED BY <2>2, <2>3
<1> QED BY <1>1, EngineInvariant, PTL

\* No mission runs more adapters than max_iterations and one more for each
\* interruption (engine/loop.py _guard and _act).
THEOREM ExecutionsAreBudgeted == Spec => []ExecutionBudget
<1>1. EngineInv => ExecutionBudget
  BY DEF EngineInv, CycleInv, RunLedger, ExecutionBudget
<1> QED BY <1>1, EngineInvariant, PTL

(***************************************************************************)
(* The end of a mission, and the coverage, as action properties.           *)
(***************************************************************************)

\* Nothing happens to a mission that has ended but the save of the cycle that
\* ended it, and outages (engine/loop.py; mission/state_machine.py).
THEOREM EndStaysQuiet == Spec => EndIsQuiet
<1> DEFINE Quiet == UNCHANGED <<status, stopReason, iteration, evidence, attempts>>
<1>1. EngineInv /\ [Next]_vars => [(status \in Terminal) => Quiet]_vars
  <2> SUFFICES ASSUME EngineInv, Next, status \in Terminal PROVE Quiet
    BY DEF vars
  <2>1. pc \in {"idle", "saving"} /\ status \notin {"CREATED", "CONFIRMED", "RUNNING", "PAUSED"}
    BY DEF EngineInv, CycleInv, Terminal
  <2>2. ~OperatorCommand
    BY <2>1 DEF OperatorCommand, Operator, UpdateScope, Confirm, Start, Pause, Resume,
       Move, Stop, End
  <2>3. ~Decide
    BY <2>1 DEF Decide, GuardStops, Finish, Defer, Deny, Reject, Unavailable, Execute,
       Ready, Called
  <2>4. CASE Continue
    BY <2>1, <2>4 DEF Continue, ResultFailed, ResultCompleted, ParseFailed,
       EvidenceSaved, NothingFound, ActionCovered, Count, Close, Save, lifecycleVars,
       history
  <2>5. CASE Crash \/ Restart \/ Abort
    BY <2>5 DEF Crash, Restart, Abort, lifecycleVars, history
  <2> QED BY <2>2, <2>3, <2>4, <2>5 DEF Next, Cycle
<1> QED BY <1>1, EngineInvariant, PTL DEF Spec, EndIsQuiet

\* Between two restarts a key that is covered stays covered and is not run
\* again, however the cycles in between end (brain/planner.py propose;
\* actions/coverage.py).
THEOREM CoverageStaysFinal == Spec => CoverageIsFinal
<1> DEFINE Kept(k) == world'.cover[k] \in Blocking /\ attempts'[k] = attempts[k]
           Final == up /\ up' => \A k \in Keys : world.cover[k] \in Blocking => Kept(k)
<1>1. EngineInv /\ [Next]_vars => [Final]_vars
  <2> SUFFICES ASSUME EngineInv, Next, up, up', NEW k \in Keys,
                      world.cover[k] \in Blocking
               PROVE  Kept(k)
    BY DEF vars
  <2> USE DEF lifecycleVars, memory, history
  <2>0. /\ world \in Worlds /\ attempts \in [Keys -> Nat]
        /\ pc \in InFlight => act.key \in Keys /\ act.key # k
    BY DEF EngineInv, TypeOK, CycleInv
  <2>1. ASSUME NEW j \in Keys, NEW c \in Coverage, Record(j, c), j # k,
               UNCHANGED attempts
        PROVE  Kept(k)
    BY <2>0, <2>1, RecordType
  <2>2. CASE OperatorCommand
    BY <2>2 DEF OperatorCommand, engineVars
  <2>3. CASE GuardStops \/ Finish \/ Defer
    BY <2>3 DEF GuardStops, Finish, Defer, engineVars
  <2>4. ASSUME NEW j \in Keys, Deny(j) \/ Reject(j) \/ Unavailable(j) PROVE Kept(k)
    <3>1. j # k /\ UNCHANGED attempts
      BY <2>4 DEF Deny, Reject, Unavailable, Candidates
    <3>2. PICK c \in Coverage : Record(j, c)
      BY <2>4 DEF Deny, Reject, Unavailable, Coverage, Blocking
    <3> QED BY <2>1, <3>1, <3>2
  <2>5. ASSUME NEW j \in Keys, Execute(j) PROVE Kept(k)
    <3>1. j # k
      BY <2>5 DEF Execute, Candidates
    <3> QED BY <2>0, <2>5, <3>1 DEF Execute
  <2>6. ASSUME NEW retryable \in BOOLEAN, ResultFailed(retryable) PROVE Kept(k)
    <3>1. FailureCoverage(world.cover[act.key], retryable) \in Coverage
      BY DEF FailureCoverage, Coverage, Blocking
    <3> QED BY <2>0, <2>1, <2>6, <3>1 DEF ResultFailed, InFlight
  <2>7. CASE ResultCompleted \/ NothingFound
    BY <2>7 DEF ResultCompleted, NothingFound
  <2>8. CASE ParseFailed
    BY <2>0, <2>1, <2>8 DEF ParseFailed, InFlight, Coverage, Blocking
  <2>9. CASE EvidenceSaved
    BY <2>9 DEF EvidenceSaved, Project
  <2>10. CASE ActionCovered
    BY <2>0, <2>1, <2>10 DEF ActionCovered, InFlight, Coverage, Blocking
  <2>11. CASE Count \/ Close \/ Save
    BY <2>11 DEF Count, Close, Save
  <2>12. CASE Abort
    BY <2>12 DEF Abort
  <2>13. ~Crash /\ ~Restart
    BY DEF Crash, Restart
  <2> QED BY <2>2, <2>3, <2>4, <2>5, <2>6, <2>7, <2>8, <2>9, <2>10, <2>11, <2>12, <2>13
          DEF Next, Cycle, Decide, Continue
<1> QED BY <1>1, EngineInvariant, PTL DEF Spec, CoverageIsFinal

(***************************************************************************)
(* The engine implements the contract.                                     *)
(***************************************************************************)

Boundary == {s \in Subjects : InScope(lists, s)}
Touched == {s \in Subjects : \E k \in Keys : SubjectOf[k] = s /\ attempts[k] > 0}

\* The contract sees the status, the lists and the attempts, nothing else.
LEMMA ContractStutter ==
    UNCHANGED <<status, lists, attempts>> => UNCHANGED Contract!contractVars
<1> SUFFICES ASSUME UNCHANGED <<status, lists, attempts>>
             PROVE  UNCHANGED <<Phase, Boundary, Touched>>
  BY DEF Contract!contractVars, Boundary, Touched
<1>1. UNCHANGED Phase
  BY DEF Phase, Terminal
<1>2. UNCHANGED Boundary
  BY DEF Boundary, InScope, Allowed, Excluded
<1>3. UNCHANGED Touched
  BY DEF Touched
<1> QED BY <1>1, <1>2, <1>3

\* Each operation on the mission record is the contract's own (mission/service.py).
LEMMA OperatorKeepsContract ==
    ASSUME TypeOK, Operator, UNCHANGED attempts
    PROVE  Contract!ContractNext
<1> USE DEF Contract!ContractNext, Phase, Terminal
<1>0. UNCHANGED Touched
  BY DEF Touched
<1>1. CASE \E l \in Edits : UpdateScope(l)
  <2>1. Contract!Redraft
    BY <1>0, <1>1 DEF UpdateScope, Contract!Redraft, Touched
  <2> QED BY <2>1
<1>2. CASE Confirm
  <2>1. InScope(lists', Target)
    BY <1>2, ConfirmedListsAdmitTarget DEF Confirm, TypeOK, LifecycleTypeOK
  <2>2. Target \in Boundary'
    BY <2>1, ScopeAssumption DEF Boundary, InScope, Allowed, Excluded
  <2>3. Boundary' \in {b \in SUBSET Subjects : Target \in b}
    BY <2>2 DEF Boundary
  <2>4. Contract!Authorize
    BY <1>0, <1>2, <2>3 DEF Confirm, Contract!Authorize, Touched, Boundary
  <2> QED BY <2>4
<1>3. CASE Start \/ Pause \/ Resume
  <2>1. UNCHANGED lists
    BY <1>3 DEF Start, Pause, Resume, Move
  <2>2. UNCHANGED Boundary
    BY <2>1 DEF Boundary, InScope, Allowed, Excluded
  <2>3. Contract!Switch
    BY <1>0, <1>3, <2>2 DEF Start, Pause, Resume, Move, Contract!Switch, Touched,
       Boundary
  <2> QED BY <2>3
<1>4. CASE Stop
  <2>1. UNCHANGED lists
    BY <1>4 DEF Stop, End
  <2>2. UNCHANGED Boundary
    BY <2>1 DEF Boundary, InScope, Allowed, Excluded
  <2>3. Contract!Finish
    BY <1>0, <1>4, <2>2 DEF Stop, End, Contract!Finish, Touched, Boundary
  <2> QED BY <2>3
<1> QED BY <1>1, <1>2, <1>3, <1>4 DEF Operator

\* So is a completion.
LEMMA CompleteKeepsContract ==
    ASSUME NEW reason, Complete(reason), UNCHANGED attempts
    PROVE  Contract!ContractNext
<1>1. UNCHANGED Touched
  BY DEF Touched
<1>2. UNCHANGED Boundary
  BY DEF Complete, End, Boundary, InScope, Allowed, Excluded
<1>3. Contract!Finish
  BY <1>1, <1>2 DEF Complete, End, Phase, Terminal, Contract!Finish, Touched, Boundary
<1> QED BY <1>3 DEF Contract!ContractNext

\* An adapter's run touches a subject of the authorized boundary while the
\* mission is live (policy/engine.py authorize, engine/boundary.py).
LEMMA ExecuteKeepsContract ==
    ASSUME TypeOK, NEW k \in Keys, Execute(k)
    PROVE  Contract!ContractNext
<1> USE DEF lifecycleVars
<1>1. SubjectOf[k] \in Boundary
  BY KeyAssumption DEF Execute, Authorized, Boundary
<1>2. UNCHANGED <<Phase, Boundary>>
  BY DEF Execute, Phase, Terminal, Boundary, InScope, Allowed, Excluded
<1>3. Phase = "live"
  BY DEF Execute, Authorized, Phase
<1>4. \A j \in Keys : attempts'[j] = IF j = k THEN attempts[j] + 1 ELSE attempts[j]
  BY DEF Execute, TypeOK
<1>5. \A j \in Keys : attempts'[j] > 0 <=> j = k \/ attempts[j] > 0
  BY <1>4 DEF TypeOK
<1>6. Touched' = Touched \cup {SubjectOf[k]}
  BY <1>5, KeyAssumption DEF Touched
<1>7. Contract!Touch(SubjectOf[k])
  BY <1>1, <1>2, <1>3, <1>6 DEF Contract!Touch, Boundary, Touched
<1> QED BY <1>7, KeyAssumption DEF Contract!ContractNext

\* The engine keeps the contract through every outage.
THEOREM EngineKeepsContract == Spec => ContractKept
<1>1. Init => Contract!ContractInit
  BY DEF Init, LifecycleInit, Contract!ContractInit, Phase
<1>2. EngineInv /\ [Next]_vars => [Contract!ContractNext]_(Contract!contractVars)
  <2> SUFFICES ASSUME EngineInv, [Next]_vars
               PROVE  Contract!ContractNext \/ UNCHANGED Contract!contractVars
    OBVIOUS
  <2> USE DEF lifecycleVars, history
  <2>0. TypeOK
    BY DEF EngineInv
  <2>1. CASE OperatorCommand
    BY <2>0, <2>1, OperatorKeepsContract DEF OperatorCommand, engineVars
  <2>2. CASE GuardStops \/ Finish \/ Close
    <3>1. PICK reason : Complete(reason)
      BY <2>2 DEF GuardStops, Finish, Close
    <3>2. UNCHANGED attempts
      BY <2>2 DEF GuardStops, Finish, Close, engineVars
    <3> QED BY <3>1, <3>2, CompleteKeepsContract
  <2>3. ASSUME NEW k \in Keys, Execute(k)
        PROVE  Contract!ContractNext \/ UNCHANGED Contract!contractVars
    BY <2>0, <2>3, ExecuteKeepsContract
  <2>4. ASSUME NEW k \in Keys, Deny(k) \/ Reject(k) \/ Unavailable(k)
        PROVE  UNCHANGED Contract!contractVars
    BY <2>4, ContractStutter DEF Deny, Reject, Unavailable
  <2>5. CASE Defer \/ Count
    BY <2>5, ContractStutter DEF Defer, Count, BumpIteration
  <2>6. ASSUME NEW retryable \in BOOLEAN, ResultFailed(retryable)
        PROVE  UNCHANGED Contract!contractVars
    BY <2>6, ContractStutter DEF ResultFailed
  <2>7. CASE ResultCompleted \/ ParseFailed \/ EvidenceSaved \/ NothingFound
    BY <2>7, ContractStutter DEF ResultCompleted, ParseFailed, EvidenceSaved, NothingFound
  <2>8. CASE ActionCovered \/ Save
    BY <2>8, ContractStutter DEF ActionCovered, Save
  <2>9. CASE Crash \/ Restart \/ Abort
    BY <2>9, ContractStutter DEF Crash, Restart, Abort
  <2>10. CASE UNCHANGED vars
    BY <2>10, ContractStutter DEF vars, engineVars
  <2> QED BY <2>1, <2>2, <2>3, <2>4, <2>5, <2>6, <2>7, <2>8, <2>9, <2>10
          DEF Next, Cycle, Decide, Continue
<1> QED BY <1>1, <1>2, EngineInvariant, PTL DEF Spec, ContractKept, Contract!ContractSpec

(***************************************************************************)
(* What a resumed World Model may have lost.                               *)
(***************************************************************************)

\* The rows a world has applied are the last rows of the table; those a
\* checkpoint has applied are some rows without a gap between them.
RowsInv ==
    /\ up => /\ world.applied \subseteq DOMAIN evidence
             /\ \A i \in world.applied : i..Len(evidence) \subseteq world.applied
    /\ checkpoint.world.applied \subseteq DOMAIN evidence
    /\ \A i, j \in checkpoint.world.applied : i..j \subseteq checkpoint.world.applied

\* The tail of the table closes the gap between a checkpoint and its end, if
\* the checkpoint names a row at all (storage/sqlite.py resume_world).
LEMMA ResumedRows ==
    ASSUME TypeOK, CheckpointInv, RowsInv
    PROVE  /\ ResumedWorld.applied \subseteq DOMAIN evidence
           /\ \A i \in ResumedWorld.applied :
                 i..Len(evidence) \subseteq ResumedWorld.applied
<1> DEFINE A == checkpoint.world.applied
           P == Pending(checkpoint.world)
<1>0. Len(evidence) \in Nat /\ DOMAIN evidence = 1..Len(evidence)
  BY DEF TypeOK
<1>1. CASE ~checkpoint.taken
  <2>1. ResumedWorld.applied = DOMAIN evidence
    BY <1>1 DEF ResumedWorld, Project, SeededWorld
  <2> QED BY <1>0, <2>1
<1>2. CASE checkpoint.taken
  <2>1. ResumedWorld.applied = A \cup P
    BY <1>2 DEF ResumedWorld, Project
  <2>2. A \subseteq 1..Len(evidence) /\ \A i, j \in A : i..j \subseteq A
    BY <1>0 DEF RowsInv
  <2>3. P = {i \in 1..Len(evidence) : A # {} /\ \A j \in A : j < i}
    BY <1>0 DEF Pending
  <2> HIDE DEF A, P
  <2>4. ASSUME NEW i \in A \cup P, NEW m \in i..Len(evidence) PROVE m \in A \cup P
    <3>1. m \in 1..Len(evidence) /\ A # {}
      BY <1>0, <2>2, <2>3, <2>4
    <3>2. CASE \A j \in A : j < m
      BY <2>3, <3>1, <3>2
    <3>3. ASSUME NEW j \in A, ~(j < m) PROVE m \in A
      <4>1. i \in A
        BY <1>0, <2>2, <2>3, <2>4, <3>3
      <4> QED BY <1>0, <2>2, <2>4, <3>3, <4>1
    <3> QED BY <3>2, <3>3
  <2> QED BY <1>0, <2>1, <2>2, <2>3, <2>4
<1> QED BY <1>1, <1>2

\* Rows are added at the end of the table and of the world at once, and a
\* checkpoint is a world of its time (engine/apply.py; engine/persist.py).
LEMMA StepRows ==
    ASSUME TypeOK, CheckpointInv, RowsInv, [Next]_vars
    PROVE  RowsInv'
<1> USE DEF lifecycleVars, memory
<1>0. /\ evidence \in Seq(Rows) /\ Len(evidence) \in Nat
      /\ DOMAIN evidence = 1..Len(evidence)
      /\ world.applied \in SUBSET Nat /\ checkpoint.world.applied \in SUBSET Nat
  BY DEF TypeOK, Worlds
<1>1. CASE EvidenceSaved
  <2>1. /\ up /\ up' /\ checkpoint' = checkpoint
        /\ Len(evidence') = Len(evidence) + 1
        /\ DOMAIN evidence' = 1..(Len(evidence) + 1)
        /\ world'.applied = world.applied \cup {Len(evidence) + 1}
    BY <1>0, <1>1 DEF EvidenceSaved, Project
  <2> QED BY <1>0, <2>1 DEF RowsInv
<1>2. CASE Save
  <2>1. /\ up /\ up' /\ evidence' = evidence /\ world' = world
        /\ checkpoint'.world = world
    BY <1>2 DEF Save
  <2>2. \A i, j \in world.applied : i..j \subseteq i..Len(evidence)
    BY <1>0, <2>1 DEF RowsInv
  <2> QED BY <1>0, <2>1, <2>2 DEF RowsInv
<1>3. CASE Restart
  BY <1>3, ResumedRows DEF Restart, RowsInv
<1>4. CASE Crash
  BY <1>4 DEF Crash, RowsInv
<1>5. CASE UNCHANGED <<evidence, checkpoint, up>> /\ world'.applied = world.applied
  BY <1>5 DEF RowsInv
<1>6. ASSUME NEW k, NEW c, Record(k, c) PROVE world'.applied = world.applied
  BY <1>6, <1>0 DEF Record, Covered, TypeOK, Worlds
<1>7. ASSUME NEW k \in Keys, Deny(k) \/ Reject(k) \/ Unavailable(k)
      PROVE  UNCHANGED <<evidence, checkpoint, up>> /\ world'.applied = world.applied
  BY <1>6, <1>7 DEF Deny, Reject, Unavailable
<1>8. ASSUME NEW retryable \in BOOLEAN, ResultFailed(retryable)
      PROVE  UNCHANGED <<evidence, checkpoint, up>> /\ world'.applied = world.applied
  BY <1>6, <1>8 DEF ResultFailed
<1>9. CASE ParseFailed \/ ActionCovered
  BY <1>5, <1>6, <1>9 DEF ParseFailed, ActionCovered
<1>10. CASE OperatorCommand \/ GuardStops \/ Finish \/ Defer \/ UNCHANGED vars
  BY <1>5, <1>10 DEF OperatorCommand, GuardStops, Finish, Defer, vars, engineVars
<1>11. ASSUME NEW k \in Keys, Execute(k) PROVE RowsInv'
  BY <1>5, <1>11 DEF Execute
<1>12. CASE ResultCompleted \/ NothingFound \/ Count \/ Close \/ Abort
  BY <1>5, <1>12 DEF ResultCompleted, NothingFound, Count, Close, Abort
<1> QED BY <1>1, <1>2, <1>3, <1>4, <1>5, <1>7, <1>8, <1>9, <1>10, <1>11, <1>12
        DEF Next, Cycle, Decide, Continue

\* A resumed World Model has forgotten at most the rows stored before the
\* first it applied (storage/sqlite.py resume_world; engine/apply.py).
THEOREM LaterEvidenceIsKept == Spec => []NoEvidenceLostLater
<1> DEFINE Inv == EngineInv /\ RowsInv
<1>1. Init => Inv
  BY EngineInit DEF Init, RowsInv, SeededWorld, NoCheckpoint
<1>2. Inv /\ [Next]_vars => Inv'
  BY StepInv, StepRows DEF EngineInv
<1>3. Inv => NoEvidenceLostLater
  BY DEF RowsInv, NoEvidenceLostLater
<1> QED BY <1>1, <1>2, <1>3, PTL DEF Spec

(***************************************************************************)
(* The counters that end a mission.                                        *)
(***************************************************************************)

Room(limit) == limit - 1 + faults

\* What the local variables of a cycle say of the counters.
LocalsInv ==
    /\ crashes <= MaxCrashes /\ faults <= MaxFaults
    /\ ~up => crashes > 0
    /\ pc = "result" => failures = 0
    /\ act.added => pc \in {"applied", "counting"}
    /\ pc = "counting" => /\ act.added => act.progress = "test"
                          /\ act.progress = "note" => moved
    /\ pc = "closing" => act.reason \in {"too_many_failures", "stalled"}
    /\ stopReason # "none" => status \in Terminal

\* The failure counter, in memory and in the checkpoint: a counter at its limit is that of
\* a mission being ended, or of one whose end could not be stored.
FailuresInv ==
    /\ up => failures <= streak + Restored(MaxFailures)
    /\ up /\ status \notin Terminal =>
          failures <= Room(MaxFailures) \/ (pc = "closing" /\ failures <= Room(MaxFailures) + 1)
    /\ \/ checkpoint.failures <= Room(MaxFailures)
       \/ status \in Terminal /\ checkpoint.failures <= streak + Restored(MaxFailures)
    /\ pc = "closing" /\ act.reason = "too_many_failures" => failures >= MaxFailures
    /\ stopReason = "too_many_failures" => streak + Restored(MaxFailures) >= MaxFailures

\* The stall counter likewise, as far as the revision has not moved.
StallsInv ==
    /\ up => moved \/ stalls <= dry + Restored(StallCycles)
    /\ up => \/ stalls <= Room(StallCycles)
             \/ pc = "closing" /\ ~moved /\ stalls <= Room(StallCycles) + 1
             \/ status \in Terminal /\ stalls <= dry + Restored(StallCycles)
    /\ \/ checkpoint.stalls <= Room(StallCycles)
       \/ status \in Terminal /\ checkpoint.stalls <= dry + Restored(StallCycles)
    /\ pc = "closing" /\ act.reason = "stalled" => stalls >= StallCycles /\ ~moved
    /\ stopReason = "stalled" => dry + Restored(StallCycles) >= StallCycles \/ faults > 0

\* Each restart and each fault leaves more room.
LEMMA RestoredGrows ==
    ASSUME TypeOK, NEW limit \in Nat \ {0}
    PROVE  /\ Restored(limit) \in Nat /\ Room(limit) \in Nat
           /\ crashes > 0 => Restored(limit) >= Room(limit)
           /\ UNCHANGED outages => Restored(limit)' = Restored(limit) /\ Room(limit)' = Room(limit)
           /\ crashes' = crashes + 1 /\ faults' = faults =>
                 /\ Restored(limit)' = Restored(limit) + Room(limit)
                 /\ Room(limit)' = Room(limit)
           /\ crashes' = crashes /\ faults' = faults + 1 =>
                 /\ Restored(limit)' >= Restored(limit)
                 /\ Restored(limit)' \in Nat
                 /\ Room(limit)' = Room(limit) + 1
<1> DEFINE r == Room(limit)
<1>1. crashes \in Nat /\ faults \in Nat /\ r \in Nat /\ Restored(limit) = crashes * r
  BY DEF TypeOK, Room, Restored
<1>2. crashes * r \in Nat
  BY <1>1
<1>3. (crashes + 1) * r = crashes * r + r /\ crashes * (r + 1) = crashes * r + crashes
  BY <1>1
<1>10. crashes > 0 => crashes * r >= r
  <2>1. crashes > 0 => crashes - 1 \in Nat /\ crashes * r = (crashes - 1) * r + r
    BY <1>1
  <2>2. crashes > 0 => (crashes - 1) * r \in Nat
    BY <1>1
  <2> QED BY <1>1, <2>1, <2>2
<1>4. crashes' = crashes + 1 /\ faults' = faults => Restored(limit)' = (crashes + 1) * r
  BY <1>1 DEF Restored, Room
<1>5. crashes' = crashes /\ faults' = faults + 1 => Restored(limit)' = crashes * (r + 1)
  <2> SUFFICES ASSUME crashes' = crashes, faults' = faults + 1
               PROVE  Restored(limit)' = crashes * (r + 1)
    OBVIOUS
  <2>1. limit - 1 + faults' = r + 1
    BY <1>1 DEF Room
  <2> QED BY <2>1 DEF Restored
<1>6. crashes' = crashes /\ faults' = faults + 1 => Room(limit)' = r + 1
  BY <1>1 DEF Room
<1>7. UNCHANGED outages => Restored(limit)' = Restored(limit) /\ Room(limit)' = Room(limit)
  BY DEF outages, Restored, Room
<1>8. crashes' = crashes + 1 /\ faults' = faults => Room(limit)' = r
  BY DEF Room
<1>9. crashes' = crashes /\ faults' = faults + 1 =>
        Restored(limit)' >= Restored(limit) /\ Restored(limit)' \in Nat
  <2>1. crashes * r + crashes >= crashes * r /\ crashes * r + crashes \in Nat
    BY <1>1, <1>2
  <2> QED BY <1>1, <1>3, <1>5, <2>1
<1>11. crashes' = crashes + 1 /\ faults' = faults => Restored(limit)' = Restored(limit) + r
  BY <1>1, <1>3, <1>4
<1>12. r = Room(limit)
  OBVIOUS
<1> HIDE DEF r
<1> QED BY <1>1, <1>2, <1>6, <1>7, <1>8, <1>9, <1>10, <1>11, <1>12

\* The local variables of a cycle are as each step leaves them.
LEMMA StepLocals == EngineInv /\ LocalsInv /\ [Next]_vars => LocalsInv'
<1> SUFFICES ASSUME EngineInv, LocalsInv, [Next]_vars PROVE LocalsInv'
  OBVIOUS
<1> USE DEF LocalsInv, lifecycleVars, memory, history, outages
<1>0. /\ crashes \in Nat /\ faults \in Nat /\ failures \in Nat
      /\ pc # "idle" => up
      /\ pc \notin {"idle", "saving"} => status = "RUNNING"
  BY DEF EngineInv, TypeOK, CycleInv
<1>1. NoAct.added = FALSE /\ \A reason : Closing(reason).added = FALSE
  BY DEF NoAct, Closing
<1>2. \A p, a : Counting(p, a).added = a /\ Counting(p, a).progress = p
  BY DEF NoAct, Counting
<1>3. CASE OperatorCommand
  <2>1. stopReason' # "none" => status' \in Terminal
    BY <1>3 DEF OperatorCommand, Operator, UpdateScope, Confirm, Start, Pause, Resume,
       Move, Stop, End, Terminal
  <2> QED BY <1>3, <2>1 DEF OperatorCommand, engineVars
<1>4. CASE GuardStops \/ Finish
  <2>1. status' \in Terminal
    BY <1>4 DEF GuardStops, Finish, Complete, End, Terminal
  <2> QED BY <1>0, <1>4, <2>1 DEF GuardStops, Finish, Ready, Called, engineVars
<1>5. CASE Defer
  BY <1>0, <1>2, <1>5 DEF Defer, Ready, Called
<1>6. ASSUME NEW k \in Keys, Deny(k) \/ Reject(k) PROVE LocalsInv'
  <2>0. act' = Counting("note", FALSE) \/ act' = Counting("skip", FALSE)
    BY <1>6 DEF Deny, Reject
  <2>1. act'.added = FALSE
    BY <2>0 DEF Counting, NoAct
  <2>2. moved' = TRUE
    BY <1>6 DEF Deny, Reject, Record
  <2>3. pc' = "counting" /\ up' = up /\ UNCHANGED <<status, stopReason, crashes, faults>>
    BY <1>6 DEF Deny, Reject
  <2> QED BY <1>0, <2>1, <2>2, <2>3
<1>7. ASSUME NEW k \in Keys, Unavailable(k) PROVE LocalsInv'
  <2>0. \/ pc' = "closing" /\ act' = Closing("too_many_failures")
        \/ pc' = "counting" /\ act' = Counting("skip", FALSE)
    BY <1>7 DEF Unavailable, AfterFailure
  <2>1. /\ act'.added = FALSE /\ pc' \in {"closing", "counting"}
        /\ pc' = "counting" => act'.progress = "skip"
        /\ pc' = "closing" => act'.reason = "too_many_failures"
    BY <2>0 DEF Closing, Counting, NoAct
  <2> QED BY <1>0, <1>7, <2>1 DEF Unavailable, Ready, Called
<1>8. ASSUME NEW k \in Keys, Execute(k) PROVE LocalsInv'
  BY <1>0, <1>1, <1>8, ActTypes DEF Execute, NoAct, Ready, Called
<1>9. ASSUME NEW retryable \in BOOLEAN, ResultFailed(retryable) PROVE LocalsInv'
  <2>0. \/ pc' = "closing" /\ act' = Closing("too_many_failures")
        \/ pc' = "counting" /\ act' = Counting("test", FALSE)
    BY <1>9 DEF ResultFailed, AfterFailure
  <2>1. /\ act'.added = FALSE /\ pc' \in {"closing", "counting"}
        /\ pc' = "counting" => act'.progress = "test"
        /\ pc' = "closing" => act'.reason = "too_many_failures"
    BY <2>0 DEF Closing, Counting, NoAct
  <2> QED BY <1>0, <1>9, <2>1 DEF ResultFailed
<1>10. CASE ResultCompleted \/ NothingFound
  BY <1>0, <1>10 DEF ResultCompleted, NothingFound
<1>11. CASE ParseFailed
  BY <1>0, <1>2, <1>11 DEF ParseFailed
<1>12. CASE EvidenceSaved
  BY <1>0, <1>12 DEF EvidenceSaved
<1>13. CASE ActionCovered
  BY <1>0, <1>2, <1>13 DEF ActionCovered
<1>14. CASE Count
  <2>1. /\ pc' = "closing" => act'.reason = "stalled" /\ act'.added = FALSE
        /\ pc' = "saving" => act'.added = FALSE
        /\ pc' \in {"closing", "saving"}
    BY <1>1, <1>14 DEF Count, Closing, NoAct
  <2> QED BY <1>0, <1>14, <2>1 DEF Count, BumpIteration
<1>15. CASE Close \/ Save
  <2>1. Close => status' \in Terminal
    BY DEF Close, Complete, End, Terminal
  <2> QED BY <1>0, <1>1, <1>15, <2>1 DEF Close, Save
<1>16. CASE Crash
  BY <1>0, <1>1, <1>16, LimitAssumption DEF Crash
<1>17. CASE Restart
  BY <1>0, <1>17 DEF Restart
<1>18. CASE Abort
  BY <1>0, <1>1, <1>18, LimitAssumption DEF Abort
<1>19. CASE UNCHANGED vars
  BY <1>19 DEF vars, engineVars
<1> QED BY <1>3, <1>4, <1>5, <1>6, <1>7, <1>8, <1>9, <1>10, <1>11, <1>12, <1>13, <1>14,
           <1>15, <1>16, <1>17, <1>18, <1>19 DEF Next, Cycle, Decide, Continue

\* The record's end is final for the engine too.
LEMMA StepEnds ==
    ASSUME [Next]_vars, status \in Terminal
    PROVE  status' \in Terminal
<1> USE DEF lifecycleVars
<1>1. CASE OperatorCommand
  BY <1>1 DEF OperatorCommand, Operator, UpdateScope, Confirm, Start, Pause, Resume,
     Move, Stop, End, Terminal
<1>2. ASSUME NEW reason, Complete(reason)
      PROVE  status' \in Terminal
  BY <1>2 DEF Complete, End, Terminal
<1>3. CASE GuardStops \/ Finish \/ Close
  BY <1>2, <1>3 DEF GuardStops, Finish, Close
<1>4. CASE Count
  BY <1>4 DEF Count, BumpIteration
<1>5. ASSUME UNCHANGED status
      PROVE  status' \in Terminal
  BY <1>5
<1>6. CASE Defer \/ \E k \in Keys : Deny(k) \/ Reject(k) \/ Unavailable(k) \/ Execute(k)
  BY <1>5, <1>6 DEF Defer, Deny, Reject, Unavailable, Execute
<1>7. CASE \/ \E retryable \in BOOLEAN : ResultFailed(retryable)
           \/ ResultCompleted \/ ParseFailed \/ EvidenceSaved \/ NothingFound
           \/ ActionCovered \/ Save
  BY <1>5, <1>7 DEF ResultFailed, ResultCompleted, ParseFailed, EvidenceSaved,
     NothingFound, ActionCovered, Save
<1>8. CASE Crash \/ Restart \/ Abort \/ UNCHANGED vars
  BY <1>5, <1>8 DEF Crash, Restart, Abort, vars
<1> QED BY <1>1, <1>3, <1>4, <1>6, <1>7, <1>8 DEF Next, Cycle, Decide, Continue

\* Failures are counted one by one, and a mission whose counter reaches the limit is on
\* its way to its end (engine/loop.py _act, _unavailable).
LEMMA StepFailures ==
    ASSUME EngineInv, LocalsInv, FailuresInv, [Next]_vars, MaxFailures > 1
    PROVE  FailuresInv'
<1> DEFINE m == MaxFailures
           s == Restored(MaxFailures)
           r == Room(MaxFailures)
<1> USE DEF FailuresInv, lifecycleVars, memory, history
<1>0. /\ failures \in Nat /\ streak \in Nat /\ checkpoint.failures \in Nat
      /\ m \in Nat /\ m > 1 /\ s \in Nat /\ r \in Nat /\ r >= m - 1
  BY RestoredGrows, LimitAssumption DEF EngineInv, TypeOK, Room
<1>1. /\ pc # "idle" => up
      /\ pc \notin {"idle", "saving"} => status = "RUNNING"
      /\ pc = "result" => failures = 0
      /\ ~up => crashes > 0
      /\ status = "RUNNING" => status \notin Terminal
      /\ stopReason # "none" => status \in Terminal
  BY DEF EngineInv, CycleInv, LocalsInv, Terminal
<1>2. UNCHANGED outages => s' = s /\ r' = r
  BY RestoredGrows, LimitAssumption DEF EngineInv
<1>3. status \in Terminal => status' \in Terminal
  BY StepEnds
<1>4. ASSUME NEW reason PROVE /\ Closing(reason).reason = reason
                              /\ \A p, a : Counting(p, a).reason = "none"
                              /\ NoAct.reason = "none"
  BY DEF Closing, Counting, NoAct
<1> HIDE DEF m, s, r
\* steps that leave the counter alone
<1>5. ASSUME UNCHANGED <<up, failures, streak, checkpoint, outages>>, pc # "closing",
             pc' = "closing" => act'.reason # "too_many_failures",
             stopReason' = "too_many_failures" => stopReason = "too_many_failures"
      PROVE  FailuresInv'
  BY <1>0, <1>1, <1>2, <1>3, <1>5 DEF m, s, r
<1>6. CASE OperatorCommand
  <2>1. stopReason' = "too_many_failures" => stopReason = "too_many_failures"
    BY <1>6 DEF OperatorCommand, Operator, UpdateScope, Confirm, Start, Pause, Resume,
       Move, Stop, End
  <2> QED BY <1>5, <1>6, <2>1 DEF OperatorCommand, engineVars
<1>7. CASE GuardStops \/ Finish
  <2>1. stopReason' # "too_many_failures"
    BY <1>7 DEF GuardStops, Finish, Complete, End
  <2> QED BY <1>5, <1>7, <2>1 DEF GuardStops, Finish, Ready, Called, engineVars
<1>8. CASE Defer \/ \E k \in Keys : Deny(k) \/ Reject(k) \/ Execute(k)
  BY <1>5, <1>8 DEF Defer, Deny, Reject, Execute, Ready, Called, Record
<1>9. CASE ActionCovered
  BY <1>5, <1>9 DEF ActionCovered, Record
<1>10. CASE Count
  BY <1>4, <1>5, <1>10 DEF Count, BumpIteration
\* steps that move it
<1>11. ASSUME UNCHANGED <<up, status, stopReason, checkpoint, outages>>, up,
              status = "RUNNING", pc # "closing",
              failures' = failures + 1, streak' = streak + 1,
              \/ failures' >= m /\ pc' = "closing"
              \/ failures' < m /\ pc' = "counting"
       PROVE  FailuresInv'
  BY <1>0, <1>1, <1>2, <1>11 DEF m, s, r
<1>12. ASSUME NEW k \in Keys, Unavailable(k) PROVE FailuresInv'
  <2>1. status = "RUNNING" /\ up /\ pc = "idle"
    BY <1>12 DEF Unavailable, Ready, Called
  <2>2. \/ failures' >= m /\ pc' = "closing"
        \/ ~(failures' >= m) /\ pc' = "counting"
    BY <1>12 DEF Unavailable, AfterFailure, m
  <2> QED BY <1>0, <1>11, <1>12, <2>1, <2>2 DEF Unavailable
<1>13. ASSUME NEW retryable \in BOOLEAN, ResultFailed(retryable) PROVE FailuresInv'
  <2>1. status = "RUNNING" /\ up /\ pc = "running"
    BY <1>1, <1>13 DEF ResultFailed
  <2>2. \/ failures' >= m /\ pc' = "closing"
        \/ ~(failures' >= m) /\ pc' = "counting"
    BY <1>13 DEF ResultFailed, AfterFailure, m
  <2> QED BY <1>0, <1>11, <1>13, <2>1, <2>2 DEF ResultFailed
<1>14. CASE ResultCompleted
  BY <1>0, <1>1, <1>2, <1>14 DEF ResultCompleted, m, s, r
<1>15. CASE ParseFailed
  BY <1>0, <1>1, <1>2, <1>15 DEF ParseFailed, m, s, r
<1>16. CASE EvidenceSaved \/ NothingFound
  <2>1. /\ UNCHANGED <<up, status, stopReason, failures, checkpoint, outages>>
        /\ up /\ pc = "result" /\ pc' = "applied" /\ streak' = 0
    BY <1>1, <1>16 DEF EvidenceSaved, NothingFound
  <2> QED BY <1>0, <1>1, <1>2, <2>1 DEF m, s, r
<1>17. CASE Close
  <2>1. status' \in Terminal /\ stopReason' = act.reason
    BY <1>17 DEF Close, Complete, End, Terminal
  <2> QED BY <1>0, <1>1, <1>2, <1>17, <2>1 DEF Close, m, s, r
<1>18. CASE Save
  <2>1. checkpoint'.failures = failures
    BY <1>18 DEF Save
  <2> QED BY <1>0, <1>1, <1>2, <1>18, <2>1 DEF Save, m, s, r
<1>19. CASE Crash
  <2>1. s' = s + r /\ r' = r
    BY <1>19, RestoredGrows, LimitAssumption DEF EngineInv, Crash, m, s, r
  <2> QED BY <1>0, <1>1, <1>19, <2>1 DEF Crash, m, s, r
<1>20. CASE Restart
  <2>1. s >= r
    BY <1>1, <1>20, RestoredGrows, LimitAssumption DEF EngineInv, Restart, m, s, r
  <2> QED BY <1>0, <1>1, <1>2, <1>20, <2>1 DEF Restart, m, s, r
<1>21. CASE Abort
  <2>1. s' >= s /\ s' \in Nat /\ r' = r + 1
    BY <1>21, RestoredGrows, LimitAssumption DEF EngineInv, Abort, m, s, r
  <2> QED BY <1>0, <1>1, <1>21, <2>1 DEF Abort, m, s, r
<1>22. CASE UNCHANGED vars
  <2>1. UNCHANGED <<up, failures, streak, checkpoint, outages, pc, act, status, stopReason>>
    BY <1>22 DEF vars, engineVars
  <2> QED BY <1>2, <2>1 DEF m, s, r
<1> QED BY <1>6, <1>7, <1>8, <1>9, <1>10, <1>12, <1>13, <1>14, <1>15, <1>16, <1>17, <1>18,
           <1>19, <1>20, <1>21, <1>22 DEF Next, Cycle, Decide, Continue

\* Cycles without progress are counted one by one, unless the revision moved
\* (engine/loop.py _note_progress).
LEMMA StepStalls ==
    ASSUME EngineInv, LocalsInv, StallsInv, [Next]_vars
    PROVE  StallsInv'
<1> DEFINE m == StallCycles
           s == Restored(StallCycles)
           r == Room(StallCycles)
<1> USE DEF StallsInv, lifecycleVars, memory, history
<1>0. /\ stalls \in Nat /\ dry \in Nat /\ checkpoint.stalls \in Nat /\ faults \in Nat
      /\ m \in Nat /\ m > 0 /\ s \in Nat /\ r \in Nat /\ r = m - 1 + faults
  BY RestoredGrows, LimitAssumption DEF EngineInv, TypeOK, Room
<1>1. /\ pc # "idle" => up
      /\ pc \notin {"idle", "saving"} => status = "RUNNING"
      /\ ~up => crashes > 0
      /\ status = "RUNNING" => status \notin Terminal
      /\ stopReason # "none" => status \in Terminal
  BY DEF EngineInv, CycleInv, LocalsInv, Terminal
<1>2. UNCHANGED outages => s' = s /\ r' = r /\ faults' = faults
  BY RestoredGrows, LimitAssumption DEF EngineInv, outages
<1>3. status \in Terminal => status' \in Terminal
  BY StepEnds
<1>4. /\ Closing("too_many_failures").reason = "too_many_failures"
      /\ NoAct.reason = "none" /\ moved \in BOOLEAN
  BY DEF Closing, NoAct, EngineInv, TypeOK
<1> HIDE DEF m, s, r
\* steps that leave the counter alone
<1>5. ASSUME UNCHANGED <<up, stalls, dry, checkpoint, outages>>, pc # "closing",
             pc' = "closing" => act'.reason # "stalled",
             moved => moved',
             stopReason' = "stalled" => stopReason = "stalled"
      PROVE  StallsInv'
  BY <1>0, <1>1, <1>2, <1>3, <1>5 DEF m, s, r
<1>6. CASE OperatorCommand
  <2>1. stopReason' = "stalled" => stopReason = "stalled"
    BY <1>6 DEF OperatorCommand, Operator, UpdateScope, Confirm, Start, Pause, Resume,
       Move, Stop, End
  <2> QED BY <1>5, <1>6, <2>1 DEF OperatorCommand, engineVars
<1>7. CASE GuardStops
  <2>1. stopReason' # "stalled"
    BY <1>7 DEF GuardStops, Complete, End
  <2> QED BY <1>5, <1>7, <2>1 DEF GuardStops, Called, engineVars
<1>8. CASE Finish
  <2>1. /\ UNCHANGED <<up, stalls, moved, dry, checkpoint, outages>>
        /\ status = "RUNNING" /\ pc = "idle" /\ pc' = "saving" /\ up
        /\ status' \in Terminal /\ (stopReason' = "stalled" => stalls >= m)
    BY <1>8 DEF Finish, Ready, Called, Complete, End, Terminal, m
  <2> QED BY <1>0, <1>1, <1>2, <2>1 DEF m, s, r
<1>9. CASE Defer \/ \E k \in Keys : Deny(k) \/ Reject(k) \/ Execute(k)
  <2>1. status \notin Terminal
    BY <1>1, <1>9 DEF Defer, Deny, Reject, Execute, Ready, Called
  <2> QED BY <1>4, <1>5, <1>9, <2>1 DEF Defer, Deny, Reject, Execute, Ready, Called, Record
<1>10. ASSUME NEW k \in Keys, Unavailable(k) PROVE StallsInv'
  <2>1. status \notin Terminal /\ (pc' = "closing" => act'.reason # "stalled")
    BY <1>1, <1>4, <1>10 DEF Unavailable, Ready, Called, AfterFailure
  <2> QED BY <1>5, <1>10, <2>1 DEF Unavailable, Ready, Called, Record
<1>11. ASSUME NEW retryable \in BOOLEAN, ResultFailed(retryable) PROVE StallsInv'
  <2>1. status \notin Terminal /\ (pc' = "closing" => act'.reason # "stalled")
    BY <1>1, <1>4, <1>11 DEF ResultFailed, AfterFailure
  <2> QED BY <1>5, <1>11, <2>1 DEF ResultFailed, Record
<1>12. CASE ResultCompleted \/ NothingFound
  BY <1>5, <1>12 DEF ResultCompleted, NothingFound
<1>13. CASE ParseFailed \/ ActionCovered
  <2>1. status \notin Terminal
    BY <1>1, <1>13 DEF ParseFailed, ActionCovered
  <2> QED BY <1>5, <1>13, <2>1 DEF ParseFailed, ActionCovered, Record
\* steps that move it
<1>14. CASE EvidenceSaved
  <2>1. /\ UNCHANGED <<up, status, stopReason, stalls, checkpoint, outages>>
        /\ pc = "result" /\ pc' = "applied" /\ dry' = 0 /\ moved' = TRUE
    BY <1>14 DEF EvidenceSaved
  <2> QED BY <1>0, <1>1, <1>2, <2>1 DEF m, s, r
<1>15. CASE Count
  <2>1. /\ UNCHANGED <<up, status, stopReason, checkpoint, outages>>
        /\ status = "RUNNING" /\ pc = "counting" /\ up
    BY <1>1, <1>15 DEF Count, BumpIteration
  <2>2. \/ pc' = "closing" /\ act.progress = "test" /\ stalls' >= m
        \/ pc' = "saving" /\ ~(act.progress = "test" /\ stalls' >= m)
    BY <1>15 DEF Count, m
  <2>3. stalls <= r /\ (moved \/ stalls <= dry + s)
    BY <1>1, <2>1 DEF r, s
  <2>4. CASE act.progress = "skip"
    <3>1. ~act.added /\ UNCHANGED <<stalls, moved>> /\ dry' = dry + 1
      BY <1>15, <2>1, <2>4 DEF Count, LocalsInv
    <3> QED BY <1>0, <1>1, <1>2, <2>1, <2>2, <2>3, <2>4, <3>1 DEF m, s, r
  <2>5. CASE act.progress # "skip"
    <3>1. moved' = FALSE /\ dry' \in Nat
      BY <1>0, <1>15, <2>5 DEF Count
    <3>2. CASE moved \/ act.added
      <4>1. stalls' = 0
        BY <1>15, <2>5, <3>2 DEF Count
      <4> QED BY <1>0, <1>1, <1>2, <2>1, <2>2, <3>1, <4>1 DEF m, s, r
    <3>3. CASE ~(moved \/ act.added)
      <4>1. stalls' = stalls + 1 /\ dry' = dry + 1
        BY <1>15, <2>5, <3>3 DEF Count
      <4>2. act.progress = "test"
        BY <2>1, <2>5, <3>3 DEF LocalsInv, EngineInv, TypeOK, Acts
      <4>3. stalls <= dry + s
        BY <2>3, <3>3
      <4>4. stalls' <= dry' + s /\ stalls' <= r + 1 /\ (stalls' < m => stalls' <= r)
        BY <1>0, <2>3, <4>1, <4>3
      <4>5. \/ pc' = "closing" /\ stalls' >= m
            \/ pc' = "saving" /\ stalls' <= r
        BY <1>0, <2>2, <4>1, <4>2, <4>4
      <4>6. ~moved'
        BY <3>1
      <4> QED BY <1>0, <1>1, <1>2, <2>1, <4>4, <4>5, <4>6 DEF m, s, r
    <3> QED BY <3>2, <3>3
  <2> QED BY <2>4, <2>5
<1>16. CASE Close
  <2>1. /\ UNCHANGED <<up, stalls, moved, dry, checkpoint, outages>>
        /\ pc = "closing" /\ pc' = "saving" /\ up
        /\ status' \in Terminal /\ stopReason' = act.reason
    BY <1>16 DEF Close, Complete, End, Terminal
  <2> QED BY <1>0, <1>1, <1>2, <2>1 DEF m, s, r
<1>17. CASE Save
  <2>1. /\ UNCHANGED <<up, stalls, moved, dry, outages, status, stopReason>>
        /\ pc = "saving" /\ pc' = "idle" /\ up /\ checkpoint'.stalls = stalls
    BY <1>17 DEF Save
  <2> QED BY <1>0, <1>1, <1>2, <2>1 DEF m, s, r
<1>18. CASE Crash
  <2>1. s' = s + r /\ r' = r
    BY <1>18, RestoredGrows, LimitAssumption DEF EngineInv, Crash, m, s, r
  <2> QED BY <1>0, <1>1, <1>18, <2>1 DEF Crash, m, s, r
<1>19. CASE Restart
  <2>1. s >= r
    BY <1>1, <1>19, RestoredGrows, LimitAssumption DEF EngineInv, Restart, m, s, r
  <2>2. /\ UNCHANGED <<dry, checkpoint, outages, status, stopReason, pc, act>>
        /\ stalls' = checkpoint.stalls /\ pc = "idle"
    BY <1>1, <1>19 DEF Restart
  <2> QED BY <1>0, <1>1, <1>2, <2>1, <2>2 DEF m, s, r
<1>20. CASE Abort
  <2>1. s' >= s /\ s' \in Nat /\ r' = r + 1 /\ faults' = faults + 1
    BY <1>20, RestoredGrows, LimitAssumption DEF EngineInv, Abort, m, s, r
  <2> QED BY <1>0, <1>1, <1>20, <2>1 DEF Abort, m, s, r
<1>21. CASE UNCHANGED vars
  <2>1. UNCHANGED <<up, stalls, moved, dry, checkpoint, outages, pc, act, status, stopReason>>
    BY <1>21 DEF vars, engineVars
  <2> QED BY <1>2, <2>1 DEF m, s, r
<1> QED BY <1>6, <1>7, <1>8, <1>9, <1>10, <1>11, <1>12, <1>13, <1>14, <1>15, <1>16, <1>17,
           <1>18, <1>19, <1>20, <1>21 DEF Next, Cycle, Decide, Continue

CountersInv == EngineInv /\ LocalsInv /\ FailuresInv /\ StallsInv

LEMMA CountersHold ==
    ASSUME MaxFailures > 1
    PROVE  Spec => []CountersInv
<1>1. Init => CountersInv
  <2> SUFFICES ASSUME Init PROVE LocalsInv /\ FailuresInv /\ StallsInv
    BY EngineInit DEF CountersInv
  <2>1. Restored(MaxFailures) \in Nat /\ Room(MaxFailures) \in Nat
    BY EngineInit, RestoredGrows, LimitAssumption DEF EngineInv
  <2>2. Restored(StallCycles) \in Nat /\ Room(StallCycles) \in Nat
    BY EngineInit, RestoredGrows, LimitAssumption DEF EngineInv
  <2> QED BY <2>1, <2>2, LimitAssumption DEF Init, LifecycleInit, LocalsInv, FailuresInv,
             StallsInv, NoAct, NoCheckpoint
<1>2. CountersInv /\ [Next]_vars => CountersInv'
  BY StepInv, StepLocals, StepFailures, StepStalls DEF CountersInv
<1> QED BY <1>1, <1>2, PTL DEF Spec

\* What ends a mission happened: the counters exceed the failures and the empty cycles in
\* a row by no more than the restarts can have brought back (engine/loop.py _load_world).
THEOREM CountersStayEarned ==
    ASSUME MaxFailures > 1
    PROVE  Spec => []CountersAreEarned
<1>1. CountersInv => CountersAreEarned
  BY DEF CountersInv, FailuresInv, StallsInv, CountersAreEarned
<1> QED BY <1>1, CountersHold, PTL

\* Without outages the limit of failures ends a mission, and only when it was reached by
\* results without a success between them (engine/loop.py _act, _unavailable).
THEOREM FailuresAreLimited ==
    ASSUME MaxFailures > 1, MaxCrashes = 0, MaxFaults = 0
    PROVE  Spec => []FailureLimit
<1>1. CountersInv => FailureLimit
  <2> SUFFICES ASSUME CountersInv PROVE FailureLimit
    OBVIOUS
  <2>1. crashes = 0 /\ faults = 0 /\ streak \in Nat /\ failures \in Nat /\ up
    BY DEF CountersInv, LocalsInv, EngineInv, TypeOK
  <2>2. Restored(MaxFailures) = 0 /\ Room(MaxFailures) = MaxFailures - 1
    BY <2>1, LimitAssumption DEF Restored, Room
  <2> QED BY <2>1, <2>2, LimitAssumption DEF CountersInv, FailuresInv, FailureLimit
<1> QED BY <1>1, CountersHold, PTL

\* Without outages a mission is completed as stalled only after that many counted cycles
\* in a row without evidence (engine/loop.py _note_progress).
THEOREM StallsAreEarned ==
    ASSUME MaxFailures > 1, MaxCrashes = 0, MaxFaults = 0
    PROVE  Spec => []StallIsEarned
<1>1. CountersInv => StallIsEarned
  <2> SUFFICES ASSUME CountersInv PROVE StallIsEarned
    OBVIOUS
  <2>1. crashes = 0 /\ faults = 0 /\ dry \in Nat
    BY DEF CountersInv, LocalsInv, EngineInv, TypeOK
  <2>2. Restored(StallCycles) = 0
    BY <2>1, LimitAssumption DEF Restored
  <2> QED BY <2>1, <2>2 DEF CountersInv, StallsInv, StallIsEarned
<1> QED BY <1>1, CountersHold, PTL

(***************************************************************************)
(* Objectives are met only when nothing the evidence raises is open.       *)
(***************************************************************************)

OfScope(K) == {k \in K : InScope(lists, SubjectOf[k])}

\* A world holds the roots and what the rows it has applied gave rise to, and nothing
\* else; what it marks out of scope is out of scope.
Knows(w, table) ==
    /\ w.applied \subseteq DOMAIN table
    /\ w.live \cup w.barred = Roots \cup Raised(table, w.applied)
    /\ OfScope(w.barred) = {}

\* Only a process that died has left rows behind.
WholeInv == crashes = 0 => world.applied = DOMAIN evidence

\* Before the freeze there is nothing but the roots.
UnfrozenInv ==
    /\ status = "CREATED" => ~frozen
    /\ status \notin {"CREATED", "STOPPED"} => frozen
    /\ ~frozen => /\ evidence = <<>> /\ pc \notin InFlight
                  /\ \A w \in {world, checkpoint.world} :
                        w.applied = {} /\ w.live = Roots /\ w.barred = {}

JustifiedInv ==
    /\ Knows(world, evidence)
    /\ Knows(checkpoint.world, evidence)
    /\ RowsInv
    /\ WholeInv
    /\ UnfrozenInv
    /\ CompletionIsJustified

\* What rows of two sets give rise to is what the rows of each do.
LEMMA RaisedUnion ==
    ASSUME NEW table, NEW R, NEW S
    PROVE  Raised(table, R \cup S) = Raised(table, R) \cup Raised(table, S)
BY DEF Raised

\* Applying rows keeps a world complete with respect to them.
LEMMA ProjectKnows ==
    ASSUME NEW w \in Worlds, NEW table \in Seq(Rows), NEW rows \in SUBSET (DOMAIN table),
           NEW gated \in BOOLEAN, Knows(w, table)
    PROVE  Knows(Project(w, table, rows, gated), table)
<1> DEFINE new == Raised(table, rows) \ (w.live \cup w.barred)
           out == {k \in new : MarkedOut(k, gated)}
           p == Project(w, table, rows, gated)
<1>1. /\ p.applied = w.applied \cup rows /\ p.live = w.live \cup (new \ out)
      /\ p.barred = w.barred \cup out
  BY DEF Project
<1>2. OfScope(out) = {}
  BY DEF MarkedOut, OfScope
<1>3. w.live \cup (new \ out) \cup w.barred \cup out
        = w.live \cup w.barred \cup Raised(table, rows)
  OBVIOUS
<1> HIDE DEF p, new, out
<1>4. OfScope(p.barred) = {}
  BY <1>1, <1>2 DEF OfScope, Knows
<1>5. p.live \cup p.barred = Roots \cup Raised(table, p.applied)
  BY <1>1, <1>3, RaisedUnion DEF Knows
<1>6. p.applied \subseteq DOMAIN table
  BY <1>1 DEF Knows
<1>7. Knows(p, table)
  BY <1>4, <1>5, <1>6 DEF Knows
<1> QED BY <1>7 DEF p

\* A row added at the end of the table changes nothing for the rows before it.
LEMMA KnowsMore ==
    ASSUME NEW w \in Worlds, NEW table \in Seq(Rows), NEW row \in Rows, Knows(w, table)
    PROVE  Knows(w, Append(table, row))
<1>1. /\ DOMAIN table \subseteq DOMAIN Append(table, row)
      /\ \A i \in DOMAIN table : Append(table, row)[i] = table[i]
  OBVIOUS
<1>2. Raised(Append(table, row), w.applied) = Raised(table, w.applied)
  BY <1>1 DEF Raised, Knows
<1> QED BY <1>1, <1>2 DEF Knows

\* Steps that leave alone what evidence and worlds hold.
Settled ==
    /\ UNCHANGED <<evidence, lists, frozen>>
    /\ world'.applied = world.applied /\ world'.live = world.live
    /\ world'.barred = world.barred
    /\ checkpoint'.world = checkpoint.world
    /\ pc' \in InFlight => pc \in InFlight /\ act'.key = act.key

Drafting ==
    /\ ~frozen /\ UNCHANGED <<evidence, world, checkpoint, pc, act>>
    /\ status = "CREATED"

\* Every step is one of these.
LEMMA StepKinds ==
    ASSUME EngineInv, UnfrozenInv, [Next]_vars
    PROVE  \/ Drafting \/ Settled \/ EvidenceSaved \/ Save \/ Crash \/ Restart
           \/ \E k \in Keys : Execute(k)
<1> USE DEF lifecycleVars, memory
<1>0. world \in Worlds
  BY DEF EngineInv, TypeOK
<1>1. ASSUME NEW k, NEW c, Record(k, c)
      PROVE  /\ world'.applied = world.applied /\ world'.live = world.live
             /\ world'.barred = world.barred
  BY <1>0, <1>1 DEF Record, Covered, Worlds
<1>2. CASE OperatorCommand
  <2>1. CASE (\E l \in Edits : UpdateScope(l)) \/ Confirm
    <3>1. ~frozen /\ status = "CREATED"
      BY <2>1 DEF UpdateScope, Confirm, EngineInv, TypeOK, UnfrozenInv
    <3> QED BY <1>2, <3>1 DEF OperatorCommand, engineVars, Drafting
  <2>2. CASE Start \/ Pause \/ Resume \/ Stop
    BY <1>2, <2>2 DEF OperatorCommand, engineVars, Start, Pause, Resume, Stop, Move, End,
       Settled, InFlight
  <2> QED BY <1>2, <2>1, <2>2 DEF OperatorCommand, Operator
<1>3. CASE GuardStops \/ Finish \/ Defer
  BY <1>3 DEF GuardStops, Finish, Defer, Complete, End, engineVars, Settled, InFlight,
     Ready, Called
<1>4. ASSUME NEW k \in Keys, Deny(k) \/ Reject(k) PROVE Settled
  BY <1>1, <1>4 DEF Deny, Reject, Settled, InFlight
<1>5. ASSUME NEW k \in Keys, Unavailable(k) PROVE Settled
  BY <1>1, <1>5 DEF Unavailable, AfterFailure, Settled, InFlight
<1>6. ASSUME NEW retryable \in BOOLEAN, ResultFailed(retryable) PROVE Settled
  BY <1>1, <1>6 DEF ResultFailed, AfterFailure, Settled, InFlight
<1>7. CASE ResultCompleted \/ NothingFound
  BY <1>7 DEF ResultCompleted, NothingFound, Settled, InFlight
<1>8. CASE ParseFailed \/ ActionCovered
  BY <1>1, <1>8 DEF ParseFailed, ActionCovered, Settled, InFlight
<1>9. CASE Count \/ Close
  BY <1>9 DEF Count, BumpIteration, Close, Complete, End, Settled, InFlight
<1>10. CASE Abort
  BY <1>10 DEF Abort, Settled, InFlight
<1>11. CASE UNCHANGED vars
  BY <1>11 DEF vars, engineVars, Settled
<1> QED BY <1>2, <1>3, <1>4, <1>5, <1>6, <1>7, <1>8, <1>9, <1>10, <1>11
        DEF Next, Cycle, Decide, Continue

\* Confirmation freezes, and nothing is learned before it (mission/service.py confirm).
LEMMA StepUnfrozen ==
    ASSUME EngineInv, UnfrozenInv, [Next]_vars
    PROVE  UnfrozenInv'
<1> USE DEF lifecycleVars
<1>0. /\ status' = "CREATED" => ~frozen'
      /\ status' \notin {"CREATED", "STOPPED"} => frozen'
      /\ frozen => frozen'
  <2>1. CASE OperatorCommand
    BY <2>1 DEF OperatorCommand, Operator, UpdateScope, Confirm, Start, Pause, Resume,
       Move, Stop, End, UnfrozenInv
  <2>2. CASE GuardStops \/ Finish \/ Close \/ Count
    BY <2>2 DEF GuardStops, Finish, Close, Count, BumpIteration, Complete, End, UnfrozenInv
  <2>3. CASE UNCHANGED <<status, frozen>>
    BY <2>3 DEF UnfrozenInv
  <2>4. CASE Defer \/ \E k \in Keys : Deny(k) \/ Reject(k) \/ Unavailable(k) \/ Execute(k)
    BY <2>3, <2>4 DEF Defer, Deny, Reject, Unavailable, Execute
  <2>5. CASE \/ \E retryable \in BOOLEAN : ResultFailed(retryable)
             \/ ResultCompleted \/ ParseFailed \/ EvidenceSaved \/ NothingFound
             \/ ActionCovered \/ Save
    BY <2>3, <2>5 DEF ResultFailed, ResultCompleted, ParseFailed, EvidenceSaved,
       NothingFound, ActionCovered, Save
  <2>6. CASE Crash \/ Restart \/ Abort \/ UNCHANGED vars
    BY <2>3, <2>6 DEF Crash, Restart, Abort, vars
  <2> QED BY <2>1, <2>2, <2>4, <2>5, <2>6 DEF Next, Cycle, Decide, Continue
<1>1. SUFFICES ASSUME ~frozen'
      PROVE  /\ evidence' = <<>> /\ pc' \notin InFlight
             /\ \A w \in {world', checkpoint'.world} :
                   w.applied = {} /\ w.live = Roots /\ w.barred = {}
  BY <1>0 DEF UnfrozenInv
<1>2. /\ ~frozen /\ status # "RUNNING" /\ evidence = <<>> /\ pc \notin InFlight
      /\ \A w \in {world, checkpoint.world} :
            w.applied = {} /\ w.live = Roots /\ w.barred = {}
  BY <1>0, <1>1 DEF UnfrozenInv
<1>3. CASE Drafting
  BY <1>2, <1>3 DEF Drafting
<1>4. CASE Settled
  BY <1>2, <1>4 DEF Settled
<1>5. ~EvidenceSaved /\ ~\E k \in Keys : Execute(k)
  BY <1>2 DEF EvidenceSaved, Execute, Ready, Called, InFlight
<1>6. CASE Save
  BY <1>2, <1>6 DEF Save, memory, InFlight
<1>7. CASE Crash
  BY <1>2, <1>7 DEF Crash, SeededWorld, InFlight
<1>8. CASE Restart
  <2>1. evidence' = <<>> /\ pc' \notin InFlight /\ checkpoint' = checkpoint
    BY <1>2, <1>8 DEF Restart
  <2>2. \A w, gated : Raised(evidence, {}) = {} /\ DOMAIN evidence = {}
    BY <1>2 DEF Raised
  <2>3. Pending(checkpoint.world) = {}
    BY <1>2 DEF Pending
  <2>4. /\ ResumedWorld.applied = {} /\ ResumedWorld.live = Roots
        /\ ResumedWorld.barred = {}
    BY <1>2, <2>2, <2>3 DEF ResumedWorld, Project, SeededWorld
  <2> QED BY <1>2, <1>8, <2>1, <2>4 DEF Restart
<1> QED BY <1>3, <1>4, <1>5, <1>6, <1>7, <1>8, StepKinds

\* What a world holds stays complete, whatever is stored, saved, lost and resumed.
LEMMA StepKnows ==
    ASSUME EngineInv, UnfrozenInv, Knows(world, evidence), Knows(checkpoint.world, evidence),
           [Next]_vars
    PROVE  Knows(world, evidence)' /\ Knows(checkpoint.world, evidence)'
<1> USE DEF lifecycleVars, memory
<1>0. /\ world \in Worlds /\ checkpoint.world \in Worlds /\ evidence \in Seq(Rows)
      /\ TypeOK /\ CheckpointInv
  BY DEF EngineInv, TypeOK
<1>1. lists' = lists =>
        /\ Knows(world', evidence') => Knows(world, evidence)'
        /\ Knows(checkpoint'.world, evidence') => Knows(checkpoint.world, evidence)'
  BY DEF Knows, OfScope, InScope, Allowed, Excluded
<1>2. CASE Drafting
  <2>1. \A w \in {world', checkpoint'.world} :
           w.applied = {} /\ w.live = Roots /\ w.barred = {}
    BY <1>2 DEF Drafting, UnfrozenInv
  <2> QED BY <2>1 DEF Knows, OfScope, Raised
<1>3. CASE Settled
  <2>1. Knows(world', evidence') /\ Knows(checkpoint'.world, evidence') /\ lists' = lists
    BY <1>3 DEF Settled, Knows, OfScope
  <2> QED BY <1>1, <2>1
<1>4. CASE EvidenceSaved
  <2>1. act.key \in Keys
    BY <1>4 DEF EvidenceSaved, EngineInv, CycleInv, InFlight
  <2>2. /\ lists' = lists /\ checkpoint' = checkpoint
        /\ world' = Project(world, evidence', {Len(evidence')}, TRUE)
    BY <1>4 DEF EvidenceSaved
  <2>3. PICK row \in Rows : evidence' = Append(evidence, row)
    BY <1>4, <2>1, KeyAssumption DEF EvidenceSaved, Rows
  <2>6. /\ evidence' \in Seq(Rows) /\ {Len(evidence')} \in SUBSET (DOMAIN evidence')
    BY <1>0, <2>3
  <2>4. Knows(world, evidence') /\ Knows(checkpoint.world, evidence')
    BY <1>0, <2>3, KnowsMore
  <2>5. Knows(world', evidence')
    BY <1>0, <2>2, <2>4, <2>6, ProjectKnows
  <2> QED BY <1>1, <2>2, <2>4, <2>5
<1>5. CASE Save
  BY <1>1, <1>5 DEF Save
<1>6. Knows(SeededWorld, evidence)
  BY DEF Knows, SeededWorld, OfScope, Raised
<1>7. CASE Crash
  BY <1>1, <1>6, <1>7 DEF Crash
<1>8. CASE Restart
  <2>1. Pending(checkpoint.world) \in SUBSET (DOMAIN evidence)
    BY DEF Pending
  <2>2. Knows(ResumedWorld, evidence)
    BY <1>0, <1>6, <2>1, SeededType, ProjectKnows DEF ResumedWorld
  <2> QED BY <1>1, <1>8, <2>2 DEF Restart
<1>9. CASE \E k \in Keys : Execute(k)
  BY <1>1, <1>9 DEF Execute
<1> QED BY <1>2, <1>3, <1>4, <1>5, <1>7, <1>8, <1>9, StepKinds

\* Rows are left behind only in a crash: while there was none, the world applies what is
\* stored as it is stored.
LEMMA StepWhole ==
    ASSUME EngineInv, LocalsInv, UnfrozenInv, WholeInv, [Next]_vars
    PROVE  WholeInv'
<1> USE DEF lifecycleVars, memory, outages, history
<1>0. crashes \in Nat /\ world \in Worlds /\ evidence \in Seq(Rows)
  BY DEF EngineInv, TypeOK
<1>1. CASE Crash
  BY <1>0, <1>1 DEF Crash, WholeInv
<1>2. CASE Restart
  BY <1>0, <1>2 DEF Restart, LocalsInv, WholeInv
<1>3. CASE EvidenceSaved
  <2>1. /\ evidence' = Append(evidence, evidence'[Len(evidence')]) /\ crashes' = crashes
        /\ world'.applied = world.applied \cup {Len(evidence')}
    BY <1>0, <1>3 DEF EvidenceSaved, Project
  <2> QED BY <1>0, <2>1 DEF WholeInv
<1>4. CASE OperatorCommand \/ GuardStops \/ Finish \/ Defer
  BY <1>4 DEF OperatorCommand, GuardStops, Finish, Defer, engineVars, WholeInv
<1>5. ASSUME NEW k, NEW c, Record(k, c) PROVE world'.applied = world.applied
  BY <1>0, <1>5 DEF Record, Covered, Worlds
<1>6. CASE \E k \in Keys : Deny(k) \/ Reject(k) \/ Unavailable(k) \/ Execute(k)
  BY <1>5, <1>6 DEF Deny, Reject, Unavailable, Execute, WholeInv
<1>7. CASE \/ \E retryable \in BOOLEAN : ResultFailed(retryable)
           \/ ParseFailed \/ ActionCovered
  BY <1>5, <1>7 DEF ResultFailed, ParseFailed, ActionCovered, WholeInv
<1>8. CASE ResultCompleted \/ NothingFound \/ Count \/ Close \/ Save \/ Abort
  BY <1>8 DEF ResultCompleted, NothingFound, Count, Close, Save, Abort, WholeInv
<1>9. CASE UNCHANGED vars
  BY <1>9 DEF vars, engineVars, WholeInv
<1> QED BY <1>1, <1>2, <1>3, <1>4, <1>6, <1>7, <1>8, <1>9 DEF Next, Cycle, Decide, Continue

\* The rows a world has applied are those after some row of the table.
LEMMA AppliedFrom ==
    ASSUME TypeOK, RowsInv, up
    PROVE  \E n \in 0..Len(evidence) : world.applied = (n + 1)..Len(evidence)
<1>1. /\ Len(evidence) \in Nat /\ world.applied \subseteq 1..Len(evidence)
      /\ \A i \in world.applied : i..Len(evidence) \subseteq world.applied
  BY DEF TypeOK, RowsInv
<1>2. CASE world.applied = {}
  <2>1. Len(evidence) \in 0..Len(evidence) /\ (Len(evidence) + 1)..Len(evidence) = {}
    BY <1>1
  <2> QED BY <1>2, <2>1
<1>3. CASE world.applied # {}
  <2>1. PICK m \in world.applied : \A i \in world.applied : m <= i
    BY <1>1, <1>3, LeastElement
  <2>2. m \in 1..Len(evidence) /\ world.applied = m..Len(evidence)
    <3>1. m \in 1..Len(evidence) /\ m..Len(evidence) \subseteq world.applied
      BY <1>1, <2>1
    <3>2. \A i \in world.applied : i \in m..Len(evidence)
      BY <1>1, <2>1, <3>1
    <3> QED BY <3>1, <3>2
  <2>3. m - 1 \in 0..Len(evidence) /\ (m - 1) + 1 = m
    BY <1>1, <2>2
  <2> QED BY <2>2, <2>3
<1> QED BY <1>2, <1>3

\* In a world without open gaps every key in scope that its rows raise is answered by
\* one of them.
LEMMA FinishIsJustified ==
    ASSUME EngineInv, RowsInv, WholeInv, Knows(world, evidence), up, OpenGaps(world) = {}
    PROVE  \E n \in 0..Len(evidence) : (crashes = 0 => n = 0) /\ AnsweredSince(n)
<1>1. PICK n \in 0..Len(evidence) : world.applied = (n + 1)..Len(evidence)
  BY AppliedFrom DEF EngineInv
<1>2. AnsweredSince(n)
  <2> SUFFICES ASSUME NEW k \in (Roots \cup Raised(evidence, world.applied)) \ Gapless,
                      InScope(lists, SubjectOf[k])
               PROVE  \E i \in world.applied : evidence[i].key = k
    BY <1>1 DEF AnsweredSince
  <2>1. k \in world.live
    BY DEF Knows, OfScope
  <2> QED BY <2>1 DEF OpenGaps, Answered
<1>3. CASE crashes = 0
  <2>1. Len(evidence) \in Nat /\ (n + 1)..Len(evidence) = 1..Len(evidence)
    BY <1>1, <1>3 DEF WholeInv, EngineInv, TypeOK
  <2>2. 0 \in 0..Len(evidence) /\ (0 + 1)..Len(evidence) = (n + 1)..Len(evidence)
    BY <2>1
  <2>3. AnsweredSince(0)
    BY <1>2, <2>2 DEF AnsweredSince
  <2> QED BY <2>2, <2>3
<1> QED BY <1>1, <1>2, <1>3

\* A crash is not undone.
LEMMA CrashesStay ==
    ASSUME TypeOK, [Next]_vars
    PROVE  crashes' = 0 => crashes = 0
<1> USE DEF outages
<1>0. crashes \in Nat
  BY DEF TypeOK
<1>1. CASE OperatorCommand \/ Crash \/ Restart \/ Abort \/ UNCHANGED vars
  BY <1>0, <1>1 DEF OperatorCommand, Crash, Restart, Abort, vars, engineVars
<1>2. CASE Decide
  BY <1>2 DEF Decide, GuardStops, Finish, Defer, Deny, Reject, Unavailable, Execute, engineVars
<1>3. CASE Continue
  BY <1>3 DEF Continue, ResultFailed, ResultCompleted, ParseFailed, EvidenceSaved,
     NothingFound, ActionCovered, Count, Close, Save, history
<1> QED BY <1>1, <1>2, <1>3 DEF Next, Cycle

\* Only a cycle that found nothing open reports its objectives met, and what is stored
\* after the end is nothing.
LEMMA StepCompletion ==
    ASSUME EngineInv, LocalsInv, JustifiedInv, [Next]_vars
    PROVE  CompletionIsJustified'
<1> USE DEF lifecycleVars
<1> SUFFICES ASSUME stopReason' = "objectives_met" PROVE CompletionIsJustified'
  BY DEF CompletionIsJustified
<1>0. /\ pc \notin {"idle", "saving"} => status = "RUNNING"
      /\ "RUNNING" \notin Terminal /\ "CREATED" \notin Terminal
      /\ pc = "closing" => act.reason # "objectives_met"
      /\ stopReason = "objectives_met" => status \in Terminal
  BY DEF EngineInv, CycleInv, LocalsInv, Terminal
<1>1. UNCHANGED <<evidence, lists>> =>
        ((\E n \in 0..Len(evidence) : (crashes = 0 => n = 0) /\ AnsweredSince(n))
            => CompletionIsJustified')
  BY CrashesStay DEF EngineInv, CompletionIsJustified, AnsweredSince, Raised, InScope,
     Allowed, Excluded
<1>2. CASE stopReason = "objectives_met"
  <2>1. ~Drafting /\ ~EvidenceSaved
    BY <1>0, <1>2 DEF Drafting, EvidenceSaved
  <2>2. UNCHANGED <<evidence, lists>>
    BY <2>1, StepKinds DEF JustifiedInv, Settled, Save, Crash, Restart, Execute
  <2> QED BY <1>1, <1>2, <2>2 DEF JustifiedInv, CompletionIsJustified
<1>3. CASE stopReason # "objectives_met"
  <2>1. CASE OperatorCommand
    BY <1>3, <2>1 DEF OperatorCommand, Operator, UpdateScope, Confirm, Start, Pause,
       Resume, Move, Stop, End
  <2>2. ~GuardStops /\ ~Close /\ ~Count
    BY <1>0, <1>3 DEF GuardStops, Close, Count, BumpIteration, Complete, End
  <2>3. CASE Finish
    <3>1. UNCHANGED <<evidence, lists>> /\ OpenGaps(world) = {} /\ up
      BY <2>3 DEF Finish, Ready, Called, Complete, End
    <3> QED BY <1>1, <3>1, FinishIsJustified DEF JustifiedInv
  <2>4. CASE UNCHANGED stopReason
    BY <1>3, <2>4
  <2>5. CASE Defer \/ \E k \in Keys : Deny(k) \/ Reject(k) \/ Unavailable(k) \/ Execute(k)
    BY <2>4, <2>5 DEF Defer, Deny, Reject, Unavailable, Execute
  <2>6. CASE \/ \E retryable \in BOOLEAN : ResultFailed(retryable)
             \/ ResultCompleted \/ ParseFailed \/ EvidenceSaved \/ NothingFound
             \/ ActionCovered \/ Save
    BY <2>4, <2>6 DEF ResultFailed, ResultCompleted, ParseFailed, EvidenceSaved,
       NothingFound, ActionCovered, Save
  <2>7. CASE Crash \/ Restart \/ Abort \/ UNCHANGED vars
    BY <2>4, <2>7 DEF Crash, Restart, Abort, vars
  <2> QED BY <2>1, <2>2, <2>3, <2>5, <2>6, <2>7 DEF Next, Cycle, Decide, Continue
<1> QED BY <1>2, <1>3

\* A mission that reports its objectives met has stored evidence for every gap in scope
\* that its target and its stored evidence raise; after a crash, for those of the rows a
\* resumed World Model has not left behind (brain/decision.py select).
THEOREM CompletionStaysJustified == Spec => []CompletionIsJustified
<1> DEFINE Inv == EngineInv /\ LocalsInv /\ JustifiedInv
<1>1. Init => Inv
  <2> SUFFICES ASSUME Init PROVE LocalsInv /\ JustifiedInv
    BY EngineInit
  <2>1. LocalsInv
    BY LimitAssumption DEF Init, LifecycleInit, LocalsInv, NoAct
  <2>2. /\ evidence = <<>> /\ world = SeededWorld /\ checkpoint.world = SeededWorld
        /\ pc = "idle" /\ status = "CREATED" /\ ~frozen /\ stopReason = "none"
    BY DEF Init, LifecycleInit, NoCheckpoint
  <2>3. Knows(world, evidence) /\ Knows(checkpoint.world, evidence)
    BY <2>2 DEF Knows, SeededWorld, OfScope, Raised
  <2>4. RowsInv /\ WholeInv
    BY <2>2 DEF RowsInv, WholeInv, SeededWorld
  <2> QED BY <2>1, <2>2, <2>3, <2>4 DEF JustifiedInv, UnfrozenInv, CompletionIsJustified,
             SeededWorld, InFlight
<1>2. Inv /\ [Next]_vars => Inv'
  BY StepInv, StepLocals, StepKnows, StepRows, StepWhole, StepUnfrozen, StepCompletion
     DEF JustifiedInv, EngineInv
<1>3. Inv => CompletionIsJustified
  BY DEF JustifiedInv
<1> QED BY <1>1, <1>2, <1>3, PTL DEF Spec
=============================================================================
