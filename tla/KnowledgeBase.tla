----------------------------- MODULE KnowledgeBase -----------------------------
(***************************************************************************)
(* The knowledge of one mission over its life: cycle by cycle it is        *)
(* deliberated upon (engine/loop.py run_one_cycle), rows of evidence are   *)
(* committed and applied one by one (engine/apply.py), and the world is    *)
(* saved (engine/persist.py); a process that dies leaves the rows and the  *)
(* last saved world, and the next one resumes from these                   *)
(* (storage/sqlite.py resume_world).                                       *)
(***************************************************************************)
EXTENDS Inquiry

CONSTANTS
    Batch,              \* for each key the rows of its first, second, ... execution
    MaxCalls, MaxCycleCalls,    \* the call budget of a provider
    MaxCycles, MaxCrashes, MaxFaults

ASSUME BudgetAssumption == MaxCalls \in Nat /\ MaxCycleCalls \in Nat
ASSUME BatchAssumption ==
    /\ MaxCrashes \in Nat /\ MaxFaults \in Nat /\ MaxCycles \in Nat
    /\ \A k \in Keys : Batch[k] \in Seq(Seq(Facts))

\* evidence/factory.py draws a new identity for every row, and schema.py keeps them unique
ASSUME RowAssumption ==
    \A k, l \in Keys : \A i \in DOMAIN Batch[k], j \in DOMAIN Batch[l] :
        \A m \in DOMAIN Batch[k][i], n \in DOMAIN Batch[l][j] :
            Batch[k][i][m] = Batch[l][j][n] => k = l /\ i = j /\ m = n

VARIABLES
    stored,     \* table evidence, in the order of its rows
    saved,      \* table world_snapshots, the latest: a world and last_evidence_id
    world,      \* the world model of this process
    queue,      \* committed rows not yet applied
    doing,      \* the coverage key in execution
    phase,      \* where run_one_cycle stands
    blind,      \* this process failed to resume an older snapshot
    runs,       \* how often each key has been executed
    calls, cycleCalls,  \* GuardedProvider._mission_calls, _cycle_calls
    spent,      \* the calls all processes have made
    cycle, crashes, faults

durable == <<stored, saved, runs, spent>>
memory  == <<world, queue, doing, phase, blind, calls, cycleCalls>>
bounds  == <<cycle, crashes, faults>>
vars    == <<durable, memory, bounds>>

NoKey  == "nothing"
NoSave == [world |-> BlankWorld, last |-> 0, exists |-> FALSE]
Phases == {"deliberate", "act", "apply", "save", "replay", "down"}

\* Faulty variant: as many rows as were applied, wherever they are
AppliedRows == Cardinality({i \in DOMAIN stored : stored[i] \in world.applied})

\* last_evidence_id: the position of the last row applied, 0 if there is none
LastApplied ==
    Cardinality({i \in DOMAIN stored : \E j \in i..Len(stored) : stored[j] \in world.applied})

Init ==
    /\ stored = <<>>
    /\ saved = NoSave
    /\ world = SeededWorld
    /\ queue = <<>>
    /\ doing = NoKey
    /\ phase = "deliberate"
    /\ blind = FALSE
    /\ runs = [k \in Keys |-> 0]
    /\ calls = 0
    /\ cycleCalls = 0
    /\ spent = 0
    /\ cycle = 0
    /\ crashes = 0
    /\ faults = 0

--------------------------------------------------------------------------------
(***************************************************************************)
(* A cycle                                                                 *)
(***************************************************************************)
\* GuardedProvider._prepare and _call: a call counts whether or not it succeeds
MayCall(n) == calls < MaxCalls /\ n < MaxCycleCalls
\* Faulty variant: the calls of a mission are not added up
CalledFreely(n) ==
    /\ calls' = n
    /\ spent' = spent + n
    /\ cycleCalls' = n

Called(n) ==
    /\ calls' = calls + n
    /\ spent' = spent + n
    /\ cycleCalls' = n

\* ValidationEngine, HypothesisEngine, AiAdvisor.enhance_hypotheses; a new iteration
\* starts its call budget afresh
Deliberate ==
    /\ phase = "deliberate"
    /\ cycle < MaxCycles
    /\ \E f \in Choices(world) :
         \/ /\ Called(0)
            /\ world' = Deliberated(world, f, {})
         \/ /\ WorthAsking(world) /\ MayCall(0)
            /\ Called(1)
            /\ \E D \in {{}, Drafts} : world' = Deliberated(world, f, D)
    /\ phase' = "act"
    /\ UNCHANGED <<stored, saved, runs, queue, doing, blind, bounds>>

\* AiAdvisor.enhance_scores: advice touches the ranking only, not the world
Advise ==
    /\ phase = "act"
    /\ WorthAsking(world) /\ MayCall(cycleCalls)
    /\ cycleCalls < 2
    /\ calls' = calls + 1
    /\ spent' = spent + 1
    /\ cycleCalls' = cycleCalls + 1
    /\ UNCHANGED <<stored, saved, runs, world, queue, doing, phase, blind, bounds>>

\* the action completes: its rows are committed in one transaction
Execute(k) ==
    /\ phase = "act"
    /\ world.coverage[k] # "completed"
    /\ runs[k] < Len(Batch[k])
    /\ LET rows == Batch[k][runs[k] + 1]
       IN  /\ stored' = stored \o rows
           /\ queue' = rows
    /\ runs' = [runs EXCEPT ![k] = @ + 1]
    /\ doing' = k
    /\ phase' = "apply"
    /\ UNCHANGED <<saved, spent, world, blind, calls, cycleCalls, bounds>>

\* denied, failed, or its output cannot be parsed
Fail(k) ==
    /\ phase = "act"
    /\ world.coverage[k] = "none"
    /\ world' = Covered(world, k, "failed")
    /\ phase' = "save"
    /\ UNCHANGED <<durable, queue, doing, blind, calls, cycleCalls, bounds>>

\* nothing to do this time
Defer ==
    /\ phase = "act"
    /\ phase' = "save"
    /\ UNCHANGED <<durable, world, queue, doing, blind, calls, cycleCalls, bounds>>

\* apply_completed_artifact applies row after row, resume_world the tail
ApplyRow ==
    /\ phase \in {"apply", "replay"}
    /\ queue # <<>>
    /\ world' = Learn(world, Head(queue), phase = "apply")
    /\ queue' = Tail(queue)
    /\ UNCHANGED <<durable, doing, phase, blind, calls, cycleCalls, bounds>>

Record ==
    /\ phase = "apply"
    /\ queue = <<>>
    /\ world' = Covered(world, doing, "completed")
    /\ doing' = NoKey
    /\ phase' = "save"
    /\ UNCHANGED <<durable, queue, blind, calls, cycleCalls, bounds>>

\* observe_locator fails to store what the rows say of the target: the exception leaves
\* the cycle before its coverage is recorded and its world saved
Interrupted ==
    /\ phase = "apply"
    /\ queue = <<>>
    /\ faults < MaxFaults
    /\ faults' = faults + 1
    /\ doing' = NoKey
    /\ phase' = "deliberate"
    /\ cycle' = cycle + 1
    /\ UNCHANGED <<durable, world, queue, blind, calls, cycleCalls, crashes>>

\* persist_cycle.  latest_snapshot takes the highest revision; that of a world which began
\* anew may be below that of the snapshot it failed to resume.
Save ==
    /\ phase = "save"
    /\ \/ saved' = [world |-> world, last |-> LastApplied, exists |-> TRUE]
       \/ blind /\ saved' = saved
    /\ phase' = "deliberate"
    /\ cycle' = cycle + 1
    /\ UNCHANGED <<stored, runs, spent, world, queue, doing, blind, calls, cycleCalls, crashes, faults>>

\* a StorageError rolls the transaction back and leaves the cycle
SaveFails ==
    /\ phase = "save"
    /\ faults < MaxFaults
    /\ faults' = faults + 1
    /\ phase' = "deliberate"
    /\ cycle' = cycle + 1
    /\ UNCHANGED <<durable, world, queue, doing, blind, calls, cycleCalls, crashes>>

(***************************************************************************)
(* The end of a process, and the next one                                  *)
(***************************************************************************)
Crash ==
    /\ phase # "down"
    /\ crashes < MaxCrashes
    /\ crashes' = crashes + 1
    /\ world' = BlankWorld
    /\ queue' = <<>>
    /\ doing' = NoKey
    /\ phase' = "down"
    /\ blind' = FALSE
    /\ calls' = 0
    /\ cycleCalls' = 0
    /\ UNCHANGED <<durable, cycle, faults>>

\* rebuild_from_evidence: no snapshot, so no coverage and no hypotheses either
Rebuild ==
    /\ ~saved.exists
    /\ world' = SeededWorld
    /\ queue' = stored

\* Faulty variant: the tail comes back in any order but that of the table
HydrateBackwards ==
    /\ saved.exists
    /\ LET known == IF saved.last = 0 THEN Len(stored) ELSE saved.last
       IN  /\ world' = [saved.world EXCEPT !.applied = {stored[i] : i \in 1..known}]
           /\ queue' = [i \in 1..(Len(stored) - known) |-> stored[Len(stored) + 1 - i]]

\* Faulty variant: the rows of the snapshot are not registered and are applied again
HydrateAfresh ==
    /\ saved.exists
    /\ world' = [saved.world EXCEPT !.applied = {}]
    /\ queue' = stored

\* hydrate_from_snapshot registers the rows up to the last one of the snapshot, and all
\* rows if the snapshot has none
Hydrate ==
    /\ saved.exists
    /\ LET known == IF saved.last = 0 THEN Len(stored) ELSE saved.last
       IN  /\ world' = [saved.world EXCEPT !.applied = {stored[i] : i \in 1..known}]
           /\ queue' = SubSeq(stored, known + 1, Len(stored))

Restart ==
    /\ phase = "down"
    /\ Rebuild \/ Hydrate
    /\ phase' = "replay"
    /\ UNCHANGED <<durable, doing, blind, calls, cycleCalls, bounds>>

\* resume_world raises, engine/persist.py returns None and engine/loop.py seeds a new world
ResumeFails ==
    /\ phase = "down"
    /\ faults < MaxFaults
    /\ faults' = faults + 1
    /\ world' = SeededWorld
    /\ blind' = saved.exists
    /\ phase' = "deliberate"
    /\ UNCHANGED <<durable, queue, doing, calls, cycleCalls, cycle, crashes>>

\* the scope gate is attached when the replay is over
Resumed ==
    /\ phase = "replay"
    /\ queue = <<>>
    /\ phase' = "deliberate"
    /\ UNCHANGED <<durable, world, queue, doing, blind, calls, cycleCalls, bounds>>

Next ==
    \/ Deliberate \/ Advise
    \/ \E k \in Keys : Execute(k) \/ Fail(k)
    \/ Defer \/ ApplyRow \/ Record \/ Interrupted \/ Save \/ SaveFails
    \/ Crash \/ Restart \/ ResumeFails \/ Resumed

Spec == Init /\ [][Next]_vars

--------------------------------------------------------------------------------
(***************************************************************************)
(* Properties                                                              *)
(***************************************************************************)
\* Every variable keeps its type.
KnowledgeTypeOK ==
    /\ stored \in Seq(Facts) /\ queue \in Seq(Facts)
    /\ saved \in [world : Worlds, last : Nat, exists : BOOLEAN]
    /\ world \in Worlds
    /\ doing \in Keys \cup {NoKey} /\ phase \in Phases /\ blind \in BOOLEAN
    /\ runs \in [Keys -> Nat]
    /\ calls \in Nat /\ cycleCalls \in Nat /\ spent \in Nat
    /\ cycle \in Nat /\ crashes \in Nat /\ faults \in Nat

\* Two claims that say different things of the same subject know of each other: each
\* lists evidence of the other as contrary (world/model.py _merge_claim), in whatever
\* order rows arrived and worlds were saved and resumed.
RivalsAreLinked ==
    \A t \in Triples : \A u \in Rivals(t) :
        (Exists(world.claims[t]) /\ Exists(world.claims[u]))
            => world.claims[t].contra \cap world.claims[u].evidence # {}

\* A process that is up never works from a stale list of questions: the open ones are
\* those its beliefs leave open (world/gaps.py, recomputed by _finalize_revision), also
\* between two rows of a batch and while a saved world catches up.
GapsAreCurrent ==
    phase # "down" => {q \in Questions : world.gaps[q] = "open"} = Desired(world)

\* An open finding always rests on evidence of a claim not invalidated, and whatever the
\* world gives reason to report is reported, unless its finding has no room and all the
\* rows it holds were overruled since: that one is invalidated first (world/findings.py).
FindingsAreGrounded ==
    phase # "down" =>
        /\ \A l \in Leads : world.leads[l].status = "open" =>
               world.leads[l].evidence \cap LiveEvidence(world) # {}
        /\ \A l \in Reported(world) :
               \/ world.leads[l].status = "open"
               \/ /\ ~HasRoom(world.leads[l].evidence)
                  /\ world.leads[l].evidence \cap LiveEvidence(world) = {}

\* A hypothesis of an AI provider never gains more than the cap, however often findings
\* support it and however often it is retired and taken up again (engine/hypotheses.py).
AdviceStaysAdvisory ==
    \A s \in Statements : world.ideas[s].source = "ai" => world.ideas[s].confidence <= Cap

\* No process makes more calls than a mission may make, no cycle more than its share, and
\* failed calls count (ai/budget.py).  A restart forgets the calls made before.
CallBudget ==
    /\ calls <= MaxCalls /\ cycleCalls <= MaxCycleCalls
    /\ spent <= MaxCalls * (1 + crashes)

\* What a process believes is what the rows it has learned say in the order they were
\* stored, whatever crashes, failed saves and resumed snapshots lie between
\* (storage/sqlite.py list_evidence, resume_world).
LearnedBy(w) == {e \in Facts : \E t \in Triples : e \in w.claims[t].evidence}
Learned == LearnedBy(world)
Nothing == [claims |-> BlankWorld.claims, value |-> BlankWorld.value]
Told(b, e) == [claims |-> MergedClaims(b, e), value |-> Shown(b, e)]
Replay(rows, L) ==
    LET after[n \in 0..Len(rows)] ==
            IF n = 0 THEN Nothing
            ELSE IF rows[n] \in L THEN Told(after[n - 1], rows[n]) ELSE after[n - 1]
    IN  after
ReplayAgrees ==
    phase # "down" =>
        LET told == Replay(stored, Learned)[Len(stored)]
        IN  world.claims = told.claims /\ world.value = told.value

\* A snapshot is what the rows up to the last one it names say, and no row behind that one
\* is in it, so that nothing is applied twice or out of turn when a process goes on from
\* it (storage/sqlite.py persist_world, resume_world).
SnapshotsNameTheirRows ==
    LET known == LearnedBy(saved.world)
        told == Replay(stored, known)[saved.last]
    IN  /\ known \subseteq {stored[i] : i \in 1..saved.last}
        /\ saved.world.claims = told.claims /\ saved.world.value = told.value

\* A question about the ports of a host is closed only by a row about something on that
\* host, or on a host whose key extends its key, or by the host becoming an alias; that
\* of probing a service only by a row about a URL served there, or by the service turning
\* out to be another (world/gaps.py).
QuestionsAreAnswered ==
    phase # "down" =>
        /\ \A h \in OfKind(world, "host") \ (world.barred \cup world.alias) :
               world.gaps[<<"host.ports_unknown", h>>] = "closed" =>
                   \E e \in Learned : \E g \in Line(Fact[e].subject) :
                       g # Fact[e].subject /\ (g = h \/ <<h, g>> \in Spelled)
        /\ \A s \in AskedServices(world) :
               world.gaps[<<"service.http_unprobed", s>>] = "closed" =>
                   \E e \in Learned : /\ KindOf[Fact[e].subject] = "url"
                                      /\ SiteOf[Fact[e].subject] = ParentOf[s]

\* While a process runs a claim changes only by the row in hand, and only if the row is
\* about it or contradicts it: no hypothesis, finding, advice, coverage or save touches one.
Working == phase # "down" /\ phase' # "down"
BeliefsFollowEvidence ==
    [][Working => \A t \in Triples : world'.claims[t] # world.claims[t] =>
          /\ queue # <<>>
          /\ t \in {Triple(Head(queue))} \cup Rivals(Triple(Head(queue)))]_vars

\* Support never lowers confidence: a claim loses some only to a rival first heard of at
\* that step, and what was overruled stays so while the process runs.
DoubtNeedsARival ==
    [][Working => \A t \in Triples :
          /\ world'.claims[t].confidence < world.claims[t].confidence =>
                 \E u \in Rivals(t) : ~Exists(world.claims[u]) /\ Exists(world'.claims[u])
          /\ world.claims[t].status = "invalidated" => world'.claims[t].status = "invalidated"]_vars

(***************************************************************************)
(* The knowledge base implements the log of module EvidenceLog.            *)
(***************************************************************************)
\* What a world has made of the rows: where those it has learned lie, and what it believes
Mind(w) == [known  |-> {i \in DOMAIN stored : stored[i] \in LearnedBy(w)},
            belief |-> [claims |-> w.claims, value |-> w.value]]

Log == INSTANCE EvidenceLog WITH
           log  <- stored,
           mind <- Mind(world),
           kept <- Mind(saved.world),
           up   <- (phase # "down")

\* Snapshots, tails, interrupted batches and failed saves amount to a reader that takes
\* rows in their order, none of them twice, and goes on from what was kept last.
LogIsRead == Log!LogSpec
================================================================================
