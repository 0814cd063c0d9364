---------------------------- MODULE MissionEngine ----------------------------
(***************************************************************************)
(* The autonomous loop of cyberx (engine/loop.py) with what it commits     *)
(* through storage/sqlite.py.  One mission, one process, one thread.  A    *)
(* cycle decides, authorizes, runs one adapter, stores what it found and   *)
(* checkpoints the World Model.  It is cut here where the code commits:    *)
(* between two commits the process may die (Crash) or a commit may raise   *)
(* StorageError, which ends the cycle and leaves the process up (Abort).   *)
(*                                                                         *)
(* A key stands for one action of the catalogue aimed at one subject, that *)
(* is for one coverage_key, and for the knowledge gap this action closes.  *)
(* Scoring, hypotheses and network state are left open: any unblocked key  *)
(* may be chosen and any cycle may find nothing worth doing.               *)
(***************************************************************************)
EXTENDS MissionLifecycle, Sequences

CONSTANTS
    Keys,         \* coverage keys
    SubjectOf,    \* SubjectOf[k]: what the action of k is aimed at
    Roots,        \* keys the seed assets give rise to
    Opens,        \* Opens[k]: keys the evidence of k may give rise to
    Gapless,      \* keys proposed without a knowledge gap (network_discovery)
    MaxFailures,  \* MAX_CONSECUTIVE_FAILURES
    StallCycles,  \* PROGRESS_STALL_CYCLES
    MaxCrashes,   \* exploration bound: process deaths
    MaxFaults     \* exploration bound: commits that raise StorageError

ASSUME KeyAssumption ==
    /\ SubjectOf \in [Keys -> Subjects]
    /\ Roots \subseteq Keys
    /\ \A k \in Roots : SubjectOf[k] = Target
    /\ Opens \in [Keys -> SUBSET Keys]
    /\ Gapless \subseteq Keys

ASSUME LimitAssumption ==
    /\ MaxFailures \in Nat \ {0}
    /\ StallCycles \in Nat \ {0}
    /\ MaxCrashes \in Nat
    /\ MaxFaults \in Nat

VARIABLES
    evidence,    \* durable: the evidence table, what each row answers and raises
    checkpoint,  \* durable: latest world snapshot and runtime counters
    up,          \* the process is alive
    pc,          \* where the process is in a cycle
    act,         \* what the cycle in progress is about
    world,       \* the in-memory World Model
    failures,    \* MissionEngine._failures
    stalls,      \* MissionEngine._stalls
    moved,       \* world.revision differs from _last_progress
    attempts,    \* history: adapter executions per key
    runs,        \* history: adapter executions
    streak,      \* history: results without success in a row
    dry,         \* history: counted cycles since evidence was last stored
    crashes, faults

memory == <<world, failures, stalls, moved>>
history == <<attempts, runs, streak, dry>>
outages == <<crashes, faults>>
engineVars == <<evidence, checkpoint, up, pc, act, memory, history, outages>>
vars == <<lifecycleVars, engineVars>>

\* Coverage that keeps a key from being proposed again (actions/coverage.py);
\* "attempted" leaves one retry.
Blocking == {"completed", "denied", "rejected", "failed", "unavailable"}
Coverage == Blocking \cup {"none", "attempted"}
MaxAttempts == 2

\* A row of the evidence table: the key whose action found it, and the keys
\* it gives rise to.  A second run of the same action may answer differently.
Rows == [key : Keys, brings : SUBSET Keys]

Points == {"idle", "running", "result", "applied", "counting", "closing", "saving"}

Worlds ==
    [ applied : SUBSET Nat,             \* rows projected into the world
      live    : SUBSET Keys,            \* keys whose subject is in the world
      barred  : SUBSET Keys,            \* ... and is marked out_of_scope there
      cover   : [Keys -> Coverage] ]

\* progress: whether the cycle calls _note_progress, and tests for a stall;
\* reason: why the mission is being completed.
Acts == [key : Keys \cup {"none"}, progress : {"skip", "note", "test"},
         added : BOOLEAN, reason : Reasons]

NoAct == [key |-> "none", progress |-> "skip", added |-> FALSE, reason |-> "none"]
Counting(progress, added) == [NoAct EXCEPT !.progress = progress, !.added = added]
Closing(reason) == [NoAct EXCEPT !.reason = reason]

SeededWorld ==
    [applied |-> {}, live |-> Roots, barred |-> {},
     cover |-> [k \in Keys |-> "none"]]

NoCheckpoint == [taken |-> FALSE, world |-> SeededWorld, failures |-> 0, stalls |-> 0]

-----------------------------------------------------------------------------
(* The World Model: what evidence rows project to, and what is open.       *)

\* The keys that rows of the evidence table give rise to.
Raised(table, rows) == UNION {table[i].brings : i \in rows}

\* The scope gate, where the world has one, marks a subject out of scope.
MarkedOut(k, gated) == gated /\ ~InScope(lists, SubjectOf[k])

\* Apply rows of the evidence table to world w.  An asset the world already
\* has keeps the mark it was given when it came in.
Project(w, table, rows, gated) ==
    LET new == Raised(table, rows) \ (w.live \cup w.barred)
        out == {k \in new : MarkedOut(k, gated)}
    IN  [applied |-> w.applied \cup rows, live |-> w.live \cup (new \ out),
         barred |-> w.barred \cup out, cover |-> w.cover]

Covered(w, k, c) == [w EXCEPT !.cover[k] = c]

Answered(w) == {evidence[i].key : i \in w.applied}

\* Faulty variant: a gap counts as closed when its action is.
OpenGapsUncovered(w) ==
    {k \in w.live \ (Answered(w) \cup Gapless) : w.cover[k] \notin Blocking}

OpenGaps(w) == w.live \ (Answered(w) \cup Gapless)

\* Faulty variant: coverage is recorded and not looked at.
CandidatesUncovered(w) == w.live \ Answered(w)

Candidates(w) == {k \in w.live \ Answered(w) : w.cover[k] \notin Blocking}

\* Faulty variant: the tail begins one row late.
PendingLate(w) ==
    {i \in DOMAIN evidence : w.applied # {} /\ \A j \in w.applied : j + 1 < i}

\* SqliteStore.resume_world.  Without a snapshot every row is applied.  With
\* one, the rows after the last row it names are; but a snapshot that names
\* no row registers every row as applied already.  The scope gate is attached
\* only when all this is done.
Pending(w) == {i \in DOMAIN evidence : w.applied # {} /\ \A j \in w.applied : j < i}

ResumedWorld ==
    IF checkpoint.taken
    THEN Project(checkpoint.world, evidence, Pending(checkpoint.world), FALSE)
    ELSE Project(SeededWorld, evidence, DOMAIN evidence, FALSE)

\* Faulty variant: a retry leaves a status nobody knows.
FailureCoverageUnknown(c, retryable) ==
    IF retryable /\ c \notin {"attempted", "failed"} THEN "retry" ELSE "failed"

\* coverage.next_failure_coverage: one retry for a retryable error.
FailureCoverage(c, retryable) ==
    IF retryable /\ c \notin {"attempted", "failed"} THEN "attempted" ELSE "failed"

-----------------------------------------------------------------------------
Init ==
    /\ LifecycleInit
    /\ evidence = <<>>
    /\ checkpoint = NoCheckpoint
    /\ up = TRUE
    /\ pc = "idle"
    /\ act = NoAct
    /\ world = SeededWorld
    /\ failures = 0
    /\ stalls = 0
    /\ moved = TRUE
    /\ attempts = [k \in Keys |-> 0]
    /\ runs = 0
    /\ streak = 0
    /\ dry = 0
    /\ crashes = 0
    /\ faults = 0

\* The operator's keys are read between cycles only.
OperatorCommand ==
    /\ up /\ pc = "idle"
    /\ Operator
    /\ UNCHANGED engineVars

-----------------------------------------------------------------------------
(* A cycle: the guard, then one of Finish, Defer, Deny, Reject, Unavailable *)
(* and Execute.                                                             *)

Called == up /\ pc = "idle" /\ status = "RUNNING" /\ ~pauseRequested

GuardStops ==
    /\ Called
    /\ \/ iteration >= MaxIterations /\ Complete("max_iterations")
       \/ iteration < MaxIterations /\ started /\ Complete("max_runtime")
    /\ UNCHANGED engineVars

\* Faulty variant: the guard forgets the limit of iterations.
ReadyUnlimited == Called

Ready == Called /\ iteration < MaxIterations

\* Faulty variant: the cycle that completes the mission is counted afterwards.
FinishThenCount ==
    /\ Ready
    /\ OpenGaps(world) = {}
    /\ Candidates(world) = {}
    /\ Complete("objectives_met")
    /\ pc' = "counting"
    /\ act' = Counting("skip", FALSE)
    /\ UNCHANGED <<evidence, checkpoint, up, memory, history, outages>>

\* Nothing eligible and no gap open in the World Model.  The reason is
\* no_actions when the network gap, which is not in the model, is open: a
\* blocked network leaves it open and makes every candidate ineligible.  A
\* candidate that is left, without a gap of its own, is eligible otherwise.
Finish ==
    /\ Ready
    /\ OpenGaps(world) = {}
    /\ \E reason \in {"objectives_met", "no_actions"} :
           /\ reason = "objectives_met" => Candidates(world) = {}
           /\ Complete(IF stalls >= StallCycles THEN "stalled" ELSE reason)
    /\ pc' = "saving"
    /\ UNCHANGED <<evidence, checkpoint, up, act, memory, history, outages>>

\* Faulty variant: a cycle without an action is not counted.
DeferUncounted ==
    /\ Ready
    /\ OpenGaps(world) # {}
    /\ pc' = "saving"
    /\ UNCHANGED <<lifecycleVars, evidence, checkpoint, up, act, memory, history,
                   outages>>

\* Nothing eligible while gaps are open.  Revising hypotheses may have moved
\* the world revision.
Defer ==
    /\ Ready
    /\ OpenGaps(world) # {}
    /\ pc' = "counting"
    /\ act' = Counting("test", FALSE)
    /\ moved' \in {moved, TRUE}
    /\ UNCHANGED <<lifecycleVars, evidence, checkpoint, up, world, failures,
                   stalls, history, outages>>

\* Record a coverage status: it bumps the world revision.
Record(k, c) ==
    /\ world' = Covered(world, k, c)
    /\ moved' = TRUE

\* The policy denies what is outside the frozen scope, and may deny more
\* (ports, protocols, time window, mode).
Deny(k) ==
    /\ Ready
    /\ k \in Candidates(world)
    /\ Record(k, "denied")
    /\ pc' = "counting"
    /\ act' = Counting("note", FALSE)
    /\ UNCHANGED <<lifecycleVars, evidence, checkpoint, up, failures, stalls,
                   history, outages>>

\* The validator rejects a malformed request before the policy sees it.
Reject(k) ==
    /\ Ready
    /\ k \in Candidates(world)
    /\ Record(k, "rejected")
    /\ pc' = "counting"
    /\ act' = Counting("skip", FALSE)
    /\ UNCHANGED <<lifecycleVars, evidence, checkpoint, up, failures, stalls,
                   history, outages>>

\* Faulty variant: the lists are not asked.
AuthorizedAnywhere(k) == frozen /\ status = "RUNNING"

Authorized(k) == frozen /\ status = "RUNNING" /\ InScope(lists, SubjectOf[k])

\* Faulty variant: one failure more than the limit.
AfterFailureLate(count, otherwise) ==
    IF count > MaxFailures
    THEN pc' = "closing" /\ act' = Closing("too_many_failures")
    ELSE pc' = "counting" /\ act' = otherwise

\* Where a cycle goes after a failed result.
AfterFailure(count, otherwise) ==
    IF count >= MaxFailures
    THEN pc' = "closing" /\ act' = Closing("too_many_failures")
    ELSE pc' = "counting" /\ act' = otherwise

Unavailable(k) ==
    /\ Ready
    /\ k \in Candidates(world)
    /\ Authorized(k)
    /\ Record(k, "unavailable")
    /\ failures' = failures + 1
    /\ streak' = streak + 1
    /\ AfterFailure(failures', Counting("skip", FALSE))
    /\ UNCHANGED <<lifecycleVars, evidence, checkpoint, up, stalls, attempts,
                   runs, dry, outages>>

Execute(k) ==
    /\ Ready
    /\ k \in Candidates(world)
    /\ Authorized(k)
    /\ pc' = "running"
    /\ act' = [NoAct EXCEPT !.key = k]
    /\ attempts' = [attempts EXCEPT ![k] = @ + 1]
    /\ runs' = runs + 1
    /\ UNCHANGED <<lifecycleVars, evidence, checkpoint, up, memory, streak, dry,
                   outages>>

-----------------------------------------------------------------------------
(* After the adapter returned.                                             *)

\* save_execution committed a failed result.
ResultFailed(retryable) ==
    /\ up /\ pc = "running"
    /\ Record(act.key, FailureCoverage(world.cover[act.key], retryable))
    /\ failures' = failures + 1
    /\ streak' = streak + 1
    /\ AfterFailure(failures', Counting("test", FALSE))
    /\ UNCHANGED <<lifecycleVars, evidence, checkpoint, up, stalls, attempts,
                   runs, dry, outages>>

\* Faulty variant: success does not clear the counter.
ResultKeepsCount ==
    /\ up /\ pc = "running"
    /\ pc' = "result"
    /\ UNCHANGED <<lifecycleVars, evidence, checkpoint, up, act, memory, history, outages>>

\* save_execution committed a completed result: the artifact comes next.
ResultCompleted ==
    /\ up /\ pc = "running"
    /\ failures' = 0
    /\ pc' = "result"
    /\ UNCHANGED <<lifecycleVars, evidence, checkpoint, up, act, world, stalls,
                   moved, history, outages>>

\* The parser rejects the artifact: a failure counted on the cleared counter,
\* without the test against the limit.
ParseFailed ==
    /\ up /\ pc = "result"
    /\ Record(act.key, "failed")
    /\ failures' = failures + 1
    /\ streak' = streak + 1
    /\ pc' = "counting"
    /\ act' = Counting("test", FALSE)
    /\ UNCHANGED <<lifecycleVars, evidence, checkpoint, up, stalls, attempts,
                   runs, dry, outages>>

\* save_evidence commits the rows, then the world applies them.
EvidenceSaved ==
    /\ up /\ pc = "result"
    /\ \E found \in SUBSET Opens[act.key] :
           evidence' = Append(evidence, [key |-> act.key, brings |-> found])
    /\ world' = Project(world, evidence', {Len(evidence')}, TRUE)
    /\ moved' = TRUE
    /\ act' = [act EXCEPT !.added = TRUE]
    /\ pc' = "applied"
    /\ streak' = 0
    /\ dry' = 0
    /\ UNCHANGED <<lifecycleVars, checkpoint, up, failures, stalls, attempts,
                   runs, outages>>

\* The artifact was sound and held nothing.
NothingFound ==
    /\ up /\ pc = "result"
    /\ pc' = "applied"
    /\ streak' = 0
    /\ UNCHANGED <<lifecycleVars, evidence, checkpoint, up, act, memory,
                   attempts, runs, dry, outages>>

ActionCovered ==
    /\ up /\ pc = "applied"
    /\ Record(act.key, "completed")
    /\ pc' = "counting"
    /\ act' = Counting("test", act.added)
    /\ UNCHANGED <<lifecycleVars, evidence, checkpoint, up, failures, stalls,
                   history, outages>>

\* Faulty variant: progress does not clear the counter.
CountWithoutReset ==
    /\ up /\ pc = "counting"
    /\ BumpIteration
    /\ dry' = IF act.added THEN 0 ELSE dry + 1
    /\ IF act.progress = "skip"
       THEN UNCHANGED <<stalls, moved>>
       ELSE /\ stalls' = IF moved \/ act.added THEN stalls ELSE stalls + 1
            /\ moved' = FALSE
    /\ IF act.progress = "test" /\ stalls' >= StallCycles
       THEN pc' = "closing" /\ act' = Closing("stalled")
       ELSE pc' = "saving" /\ act' = NoAct
    /\ UNCHANGED <<evidence, checkpoint, up, world, failures, attempts, runs,
                   streak, outages>>

\* bump_iteration commits; _note_progress counts cycles in which neither the
\* world revision nor the evidence moved.
Count ==
    /\ up /\ pc = "counting"
    /\ BumpIteration
    /\ dry' = IF act.added THEN 0 ELSE dry + 1
    /\ IF act.progress = "skip"
       THEN UNCHANGED <<stalls, moved>>
       ELSE /\ stalls' = IF moved \/ act.added THEN 0 ELSE stalls + 1
            /\ moved' = FALSE
    /\ IF act.progress = "test" /\ stalls' >= StallCycles
       THEN pc' = "closing" /\ act' = Closing("stalled")
       ELSE pc' = "saving" /\ act' = NoAct
    /\ UNCHANGED <<evidence, checkpoint, up, world, failures, attempts, runs,
                   streak, outages>>

Close ==
    /\ up /\ pc = "closing"
    /\ Complete(act.reason)
    /\ pc' = "saving"
    /\ act' = NoAct
    /\ UNCHANGED <<evidence, checkpoint, up, memory, history, outages>>

\* Faulty variant: the checkpoint leaves the coverage out.
SaveWithoutCoverage ==
    /\ up /\ pc = "saving"
    /\ checkpoint' = [taken |-> TRUE,
                      world |-> [world EXCEPT !.cover = SeededWorld.cover],
                      failures |-> failures, stalls |-> stalls]
    /\ pc' = "idle"
    /\ UNCHANGED <<lifecycleVars, evidence, up, act, memory, history, outages>>

\* persist_cycle: world, coverage, snapshot and counters in one transaction.
Save ==
    /\ up /\ pc = "saving"
    /\ checkpoint' = [taken |-> TRUE, world |-> world, failures |-> failures,
                      stalls |-> stalls]
    /\ pc' = "idle"
    /\ UNCHANGED <<lifecycleVars, evidence, up, act, memory, history, outages>>

-----------------------------------------------------------------------------
(* Outages.                                                                *)

Crash ==
    /\ up
    /\ crashes < MaxCrashes
    /\ crashes' = crashes + 1
    /\ up' = FALSE
    /\ pc' = "idle"
    /\ act' = NoAct
    /\ world' = SeededWorld
    /\ failures' = 0
    /\ stalls' = 0
    /\ moved' = TRUE
    /\ UNCHANGED <<lifecycleVars, evidence, checkpoint, history, faults>>

\* MissionEngine._load_world: _last_progress is the revision of the snapshot.
Restart ==
    /\ ~up
    /\ up' = TRUE
    /\ world' = ResumedWorld
    /\ failures' = checkpoint.failures
    /\ stalls' = checkpoint.stalls
    /\ moved' = (~checkpoint.taken \/ Pending(checkpoint.world) # {})
    /\ UNCHANGED <<lifecycleVars, evidence, checkpoint, pc, act, history, outages>>

\* The next commit raises StorageError: the cycle ends, the memory stays.
Abort ==
    /\ up /\ pc # "idle"
    /\ faults < MaxFaults
    /\ faults' = faults + 1
    /\ pc' = "idle"
    /\ act' = NoAct
    /\ UNCHANGED <<lifecycleVars, evidence, checkpoint, up, memory, history, crashes>>

-----------------------------------------------------------------------------
Decide ==
    \/ GuardStops
    \/ Finish
    \/ Defer
    \/ \E k \in Keys : Deny(k) \/ Reject(k) \/ Unavailable(k) \/ Execute(k)

Continue ==
    \/ \E retryable \in BOOLEAN : ResultFailed(retryable)
    \/ ResultCompleted
    \/ ParseFailed
    \/ EvidenceSaved
    \/ NothingFound
    \/ ActionCovered
    \/ Count
    \/ Close
    \/ Save

Cycle == Decide \/ Continue

Next == OperatorCommand \/ Cycle \/ Crash \/ Restart \/ Abort

Spec == Init /\ [][Next]_vars

\* run_forever and the dashboard's auto mode call the next cycle as soon as
\* one has returned, and a cycle that has begun runs on.
FairSpec == Spec /\ WF_vars(Cycle)

-----------------------------------------------------------------------------
(* Correctness.                                                            *)

TypeOK ==
    /\ LifecycleTypeOK
    /\ evidence \in Seq(Rows)
    /\ checkpoint \in [taken : BOOLEAN, world : Worlds, failures : Nat, stalls : Nat]
    /\ up \in BOOLEAN
    /\ pc \in Points
    /\ act \in Acts
    /\ world \in Worlds
    /\ failures \in Nat
    /\ stalls \in Nat
    /\ moved \in BOOLEAN
    /\ attempts \in [Keys -> Nat]
    /\ runs \in Nat
    /\ streak \in Nat
    /\ dry \in Nat
    /\ crashes \in Nat
    /\ faults \in Nat

Interruptions == crashes + faults

\* One coverage key is attempted at most twice, and each interruption, which
\* can lose the coverage of the cycle it hits, costs at most one attempt more
\* (actions/coverage.py next_failure_coverage; engine/loop.py _act executes
\* first and records coverage later; _persist_cycle saves it last).
AttemptBudget ==
    \A k \in Keys : attempts[k] <= MaxAttempts + Interruptions

\* A mission never runs more adapters than max_iterations, each interruption
\* again costing at most one, although the iteration is counted after the
\* adapter ran (engine/loop.py _guard and _act).
ExecutionBudget ==
    /\ iteration <= MaxIterations
    /\ runs <= MaxIterations + Interruptions

\* Whatever is lost when the process dies, it is never evidence that came in
\* after the World Model had applied some: applied rows are the last rows of
\* the table (storage/sqlite.py resume_world; engine/apply.py).
NoEvidenceLostLater ==
    up => \A i \in world.applied : i..Len(evidence) \subseteq world.applied

\* The counters that end a mission count what happened: they exceed the failures in a
\* row, and the cycles without evidence in a row, by no more than each restart could
\* bring back from a checkpoint.  Only the stall counter may lag behind, and then the next
\* comparison clears it (engine/loop.py _load_world restores both counters, _act and
\* _note_progress clear them).
Restored(limit) == crashes * (limit - 1 + faults)

CountersAreEarned ==
    up => /\ failures <= streak + Restored(MaxFailures)
          /\ moved \/ stalls <= dry + Restored(StallCycles)

\* When a mission has ended the engine runs no adapter, counts no cycle and
\* stores no evidence any more, whether the end came from the operator, the
\* guard or the middle of a cycle, and whatever is still to be saved
\* (engine/loop.py: complete, then _persist_cycle).
EndIsQuiet ==
    [][(status \in Terminal) =>
          UNCHANGED <<status, stopReason, iteration, evidence, attempts>>]_vars

\* While the process lives, a key whose coverage blocks it keeps a blocking
\* status and is not executed again, even when cycles are cut short
\* (brain/planner.py propose; actions/coverage.py).
CoverageIsFinal ==
    [][up /\ up' =>
         \A k \in Keys : world.cover[k] \in Blocking =>
            world'.cover[k] \in Blocking /\ attempts'[k] = attempts[k]]_vars

\* A mission claims its objectives met only when every gap that the target and the
\* stored evidence give rise to within scope has been answered by that evidence.  Only a
\* resumed process may have forgotten rows, and what it forgot is the beginning of the
\* table: the rest raises no gap that the rest does not answer, whatever a question asked
\* a second time has brought (brain/decision.py select; world/gaps.py;
\* storage/sqlite.py resume_world).
AnsweredSince(n) ==
    \A k \in (Roots \cup Raised(evidence, (n + 1)..Len(evidence))) \ Gapless :
        InScope(lists, SubjectOf[k]) =>
            \E i \in (n + 1)..Len(evidence) : evidence[i].key = k

CompletionIsJustified ==
    stopReason = "objectives_met" =>
        \E n \in 0..Len(evidence) : (crashes = 0 => n = 0) /\ AnsweredSince(n)

-----------------------------------------------------------------------------
(* Correctness while nothing interrupts a cycle.                           *)

\* The failure counter never rests at its limit while the mission goes on,
\* and a mission is completed for too many failures only after that many
\* results without a success between them (engine/loop.py _act, _unavailable).
FailureLimit ==
    /\ pc = "idle" /\ failures >= MaxFailures => status \in Terminal
    /\ stopReason = "too_many_failures" => streak >= MaxFailures

\* A mission is completed as stalled only after that many counted cycles in
\* a row that stored no evidence (engine/loop.py _note_progress, whose counter
\* some cycles leave alone and a moved revision clears).
StallIsEarned == stopReason = "stalled" => dry >= StallCycles

\* A running mission does not run for ever: each cycle it begins ends, and the
\* guard, the limits or the operator stop it (engine/loop.py run_forever).
RunEnds == (status = "RUNNING") ~> (status # "RUNNING")

-----------------------------------------------------------------------------
(* What docs/SPEC.md says and the code does not do.                        *)

\* "Resume: load latest snapshot row, replay Evidence with id > snapshot.
\* last_evidence_id" (section 3.12): the resumed world has applied every row.
ResumeReplaysEvidence == up => world.applied = DOMAIN evidence

\* Out-of-scope observations "must not generate follow-up Actions" (section
\* 4.8): what the engine may propose lies within the frozen scope.
FollowupsInScope ==
    up /\ frozen => \A k \in Candidates(world) : InScope(lists, SubjectOf[k])

\* Five consecutive action failures complete the mission (section 9.2): no
\* running mission has that many failed results behind it between cycles.
FailuresEndMission ==
    status = "RUNNING" /\ pc = "idle" => streak < MaxFailures

\* objectives_met needs, beside closed gaps, something learned: "a port Claim
\* exists, or mission intent satisfied" (section 4.5).
ObjectivesNeedEvidence == stopReason = "objectives_met" => evidence # <<>>

-----------------------------------------------------------------------------
(* The engine implements the contract of module MissionContract.           *)

Phase ==
    IF status = "CREATED" THEN "draft"
    ELSE IF status = "RUNNING" THEN "live"
    ELSE IF status \in Terminal THEN "closed" ELSE "held"

Contract == INSTANCE MissionContract WITH
    phase    <- Phase,
    boundary <- {s \in Subjects : InScope(lists, s)},
    touched  <- {s \in Subjects : \E k \in Keys : SubjectOf[k] = s /\ attempts[k] > 0}

\* Every behaviour of the engine, outages included, is one the contract allows:
\* no adapter runs outside the authorized boundary, before the mission is live
\* or after it has ended (engine/loop.py, policy/engine.py, mission/service.py).
ContractKept == Contract!ContractSpec
=============================================================================
