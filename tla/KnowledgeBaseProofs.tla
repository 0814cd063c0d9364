--------------------------- MODULE KnowledgeBaseProofs ---------------------------
(***************************************************************************)
(* Theorems about KnowledgeBase: what holds of a mission's knowledge in    *)
(* every process, for every set of assets, facts, questions and drafts,    *)
(* and however rows, failures and restarts are interleaved.                *)
(***************************************************************************)
EXTENDS KnowledgeBase, InquiryProofs, SequenceTheorems

(***************************************************************************)
(* The inductive invariant.  A saved world must itself be a good one, for  *)
(* a restart takes it over, and the last row it names must be one of the   *)
(* rows stored, for the rows up to it are taken as applied.                *)
(***************************************************************************)
RowsInv == stored \in Seq(Facts) /\ queue \in Seq(Facts)

SavedInv ==
    /\ saved \in [world : Worlds, last : Nat, exists : BOOLEAN]
    /\ saved.last \in 0..Len(stored)
    /\ WorldInv(saved.world)
    /\ saved.exists => Revised(saved.world)

MemoryInv == WorldInv(world) /\ (phase # "down" => Revised(world))

PhaseInv ==
    /\ doing \in Keys \cup {NoKey}
    /\ phase \in Phases
    /\ blind \in BOOLEAN
    /\ phase = "apply" => doing \in Keys
    /\ runs \in [Keys -> Nat]

CallInv ==
    /\ calls \in 0..MaxCalls
    /\ cycleCalls \in 0..MaxCycleCalls
    /\ spent \in Nat
    /\ spent <= MaxCalls * crashes + calls

CountInv == cycle \in Nat /\ crashes \in Nat /\ faults \in Nat

KnowledgeInv == RowsInv /\ SavedInv /\ MemoryInv /\ PhaseInv /\ CallInv /\ CountInv

--------------------------------------------------------------------------------
(***************************************************************************)
(* The last row applied, and the rows a restart has still to apply         *)
(***************************************************************************)
LEMMA LastAppliedType ==
    ASSUME stored \in Seq(Facts)
    PROVE  LastApplied \in 0..Len(stored)
<1> DEFINE P == {i \in DOMAIN stored : \E j \in i..Len(stored) : stored[j] \in world.applied}
<1>1. P \subseteq 1..Len(stored) /\ Len(stored) \in Nat
  BY LenProperties
<1>2. IsFiniteSet(1..Len(stored)) /\ Cardinality(1..Len(stored)) = Len(stored)
  BY <1>1, FS_Interval
<1> HIDE DEF P
<1>3. IsFiniteSet(P) /\ Cardinality(P) <= Cardinality(1..Len(stored))
  BY <1>1, <1>2, FS_Subset
<1>4. Cardinality(P) \in Nat
  BY <1>3, FS_CardinalityType
<1> QED
  BY <1>1, <1>2, <1>3, <1>4 DEF LastApplied, P

\* A snapshot whose positions are registered instead of its rows is the same knowledge
\* (storage/sqlite.py hydrate_from_snapshot).
LEMMA HydratedInv ==
    ASSUME NEW w \in Worlds, WorldInv(w), Revised(w), NEW S \in SUBSET Facts
    PROVE  /\ WorldInv([w EXCEPT !.applied = S])
           /\ Revised([w EXCEPT !.applied = S])
<1> DEFINE v == [w EXCEPT !.applied = S]
<1>1. v \in Worlds /\ v.claims = w.claims /\ v.ideas = w.ideas
  BY DEF Worlds
<1>2. SameBeliefs(w, v) /\ v.gaps = w.gaps /\ v.leads = w.leads
  BY DEF Worlds, SameBeliefs
<1> HIDE DEF v
<1>3. WorldInv(v)
  BY <1>1, SameClaimsInv
<1>4. GapsCurrent(v)
  BY <1>2, SameQuestions DEF Revised, GapsCurrent
<1>5. Grounded(v)
  BY <1>2, SameReports DEF Revised, Grounded
<1> QED
  BY <1>3, <1>4, <1>5 DEF Revised, v

LEMMA HydratedRows ==
    ASSUME stored \in Seq(Facts), NEW n \in 0..Len(stored)
    PROVE  /\ {stored[i] : i \in 1..n} \subseteq Facts
           /\ SubSeq(stored, n + 1, Len(stored)) \in Seq(Facts)
<1>1. Len(stored) \in Nat
  BY LenProperties
<1>2. \A i \in 1..Len(stored) : stored[i] \in Facts
  BY ElementOfSeq
<1>3. \A i \in (n + 1)..Len(stored) : stored[i] \in Facts
  BY <1>1, <1>2
<1>4. SubSeq(stored, n + 1, Len(stored)) \in Seq(Facts)
  BY <1>1, <1>3, SubSeqProperties
<1> QED
  BY <1>1, <1>2, <1>4

--------------------------------------------------------------------------------
(***************************************************************************)
(* The invariant is inductive                                              *)
(***************************************************************************)
LEMMA InitInv == Init => KnowledgeInv
<1> SUFFICES ASSUME Init PROVE KnowledgeInv
  OBVIOUS
<1>1. RowsInv /\ Len(stored) = 0
  BY EmptySeq DEF Init, RowsInv
<1>2. SavedInv
  <2>1. saved = [world |-> BlankWorld, last |-> 0, exists |-> FALSE]
    BY DEF Init, NoSave
  <2> QED
    BY <1>1, <2>1, BlankInv DEF SavedInv
<1>3. MemoryInv
  BY SeededInv DEF Init, MemoryInv
<1>4. PhaseInv
  BY DEF Init, PhaseInv, Phases
<1>5. CallInv /\ CountInv
  BY BudgetAssumption DEF Init, CallInv, CountInv
<1> QED
  BY <1>1, <1>2, <1>3, <1>4, <1>5 DEF KnowledgeInv

\* What an action leaves alone keeps its part of the invariant.
LEMMA SameRows ==
    ASSUME KnowledgeInv, UNCHANGED <<stored, saved>>
    PROVE  stored' \in Seq(Facts) /\ SavedInv'
BY DEF KnowledgeInv, RowsInv, SavedInv

LEMMA SameCalls ==
    ASSUME KnowledgeInv, UNCHANGED <<calls, cycleCalls, spent, cycle, crashes, faults>>
    PROVE  CallInv' /\ CountInv'
BY DEF KnowledgeInv, CallInv, CountInv

LEMMA DeliberateInv ==
    ASSUME KnowledgeInv, Deliberate
    PROVE  KnowledgeInv' /\ world'.claims = world.claims
<1>0. WorldInv(world) /\ Revised(world) /\ world \in Worlds
  BY DEF Deliberate, KnowledgeInv, MemoryInv, WorldInv
<1>1. PICK f \in Choices(world) :
        \/ Called(0) /\ world' = Deliberated(world, f, {})
        \/ /\ WorthAsking(world) /\ MayCall(0)
           /\ Called(1)
           /\ \E D \in {{}, Drafts} : world' = Deliberated(world, f, D)
  BY DEF Deliberate
<1>2. PICK D \in SUBSET Drafts : world' = Deliberated(world, f, D)
  BY <1>1
<1>3. WorldInv(world') /\ Revised(world') /\ world'.claims = world.claims
  BY <1>0, <1>2, DeliberatedInv
<1>4. CallInv'
  <2>1. CASE Called(0)
    BY <2>1, BudgetAssumption DEF Called, Deliberate, bounds, KnowledgeInv, CallInv, CountInv
  <2>2. CASE MayCall(0) /\ Called(1)
    <3>1. spent + 1 <= MaxCalls * crashes + (calls + 1) /\ calls + 1 \in 0..MaxCalls
      <4>1. MaxCalls * crashes \in Nat
        BY BudgetAssumption DEF KnowledgeInv, CountInv
      <4> QED
        BY <2>2, <4>1, BudgetAssumption DEF MayCall, KnowledgeInv, CallInv
    <3> QED
      BY <2>2, <3>1, BudgetAssumption DEF MayCall, Called, Deliberate, bounds, KnowledgeInv, CallInv
  <2> QED
    BY <1>1, <2>1, <2>2
<1>5. SavedInv' /\ RowsInv'
  BY SameRows DEF Deliberate, KnowledgeInv, RowsInv
<1>6. MemoryInv'
  BY <1>3 DEF MemoryInv
<1>7. PhaseInv'
  BY DEF Deliberate, KnowledgeInv, PhaseInv, Phases
<1>8. CountInv'
  BY DEF Deliberate, bounds, KnowledgeInv, CountInv
<1> QED
  BY <1>3, <1>4, <1>5, <1>6, <1>7, <1>8 DEF KnowledgeInv

LEMMA AdviseInv ==
    ASSUME KnowledgeInv, Advise
    PROVE  KnowledgeInv' /\ world' = world
<1>1. CallInv'
  <2>1. MaxCalls * crashes \in Nat
    BY BudgetAssumption DEF KnowledgeInv, CountInv
  <2>2. spent + 1 <= MaxCalls * crashes + (calls + 1) /\ calls + 1 \in 0..MaxCalls
    BY <2>1, BudgetAssumption DEF Advise, MayCall, KnowledgeInv, CallInv
  <2> QED
    BY <2>2, BudgetAssumption DEF Advise, bounds, MayCall, KnowledgeInv, CallInv
<1>2. SavedInv' /\ RowsInv'
  BY SameRows DEF Advise, KnowledgeInv, RowsInv
<1>3. MemoryInv' /\ PhaseInv' /\ CountInv'
  BY DEF Advise, bounds, KnowledgeInv, MemoryInv, PhaseInv, CountInv
<1> QED
  BY <1>1, <1>2, <1>3 DEF KnowledgeInv, Advise

\* A snapshot names a row that is still there when more rows have been stored.
LEMMA ExecuteInv ==
    ASSUME KnowledgeInv, NEW k \in Keys, Execute(k)
    PROVE  KnowledgeInv' /\ world' = world
<1> DEFINE rows == Batch[k][runs[k] + 1]
<1>1. rows \in Seq(Facts)
  <2>1. runs[k] \in Nat /\ Batch[k] \in Seq(Seq(Facts))
    BY BatchAssumption DEF KnowledgeInv, PhaseInv
  <2>2. runs[k] + 1 \in 1..Len(Batch[k])
    <3>1. Len(Batch[k]) \in Nat
      BY <2>1, LenProperties
    <3> QED
      BY <2>1, <3>1 DEF Execute
  <2> QED
    BY <2>1, <2>2, ElementOfSeq
<1> HIDE DEF rows
<1>2. stored' = stored \o rows /\ queue' = rows
  BY DEF Execute, rows
<1>3. stored' \in Seq(Facts) /\ Len(stored) \in Nat /\ Len(stored') = Len(stored) + Len(rows)
      /\ Len(rows) \in Nat
  BY <1>1, <1>2, ConcatProperties, LenProperties DEF KnowledgeInv, RowsInv
<1>4. RowsInv'
  BY <1>1, <1>2, <1>3 DEF RowsInv
<1>5. SavedInv'
  <2>1. saved' = saved /\ saved.last \in 0..Len(stored)
    BY DEF Execute, KnowledgeInv, SavedInv
  <2>2. saved'.last \in 0..Len(stored')
    BY <1>3, <2>1
  <2> QED
    BY <2>1, <2>2 DEF KnowledgeInv, SavedInv
<1>6. MemoryInv'
  BY DEF Execute, KnowledgeInv, MemoryInv
<1>7. PhaseInv'
  <2>1. runs' \in [Keys -> Nat]
    BY DEF Execute, KnowledgeInv, PhaseInv
  <2>2. doing' \in Keys /\ blind' \in BOOLEAN
    BY DEF Execute, KnowledgeInv, PhaseInv
  <2> QED
    BY <2>1, <2>2 DEF Execute, PhaseInv, Phases
<1>8. CallInv' /\ CountInv'
  BY SameCalls DEF Execute, bounds
<1> QED
  BY <1>4, <1>5, <1>6, <1>7, <1>8 DEF KnowledgeInv, Execute

LEMMA FailInv ==
    ASSUME KnowledgeInv, NEW k \in Keys, Fail(k)
    PROVE  KnowledgeInv' /\ world'.claims = world.claims
<1>1. WorldInv(world') /\ Revised(world') /\ world'.claims = world.claims
  BY CoveredInv DEF Fail, KnowledgeInv, MemoryInv, WorldInv
<1>2. RowsInv' /\ SavedInv'
  BY SameRows DEF Fail, durable, KnowledgeInv, RowsInv
<1>3. PhaseInv'
  BY DEF Fail, durable, KnowledgeInv, PhaseInv, Phases
<1>4. CallInv' /\ CountInv'
  BY SameCalls DEF Fail, durable, bounds
<1> QED
  BY <1>1, <1>2, <1>3, <1>4 DEF KnowledgeInv, MemoryInv

LEMMA DeferInv ==
    ASSUME KnowledgeInv, Defer
    PROVE  KnowledgeInv' /\ world' = world
<1>1. RowsInv' /\ SavedInv'
  BY SameRows DEF Defer, durable, KnowledgeInv, RowsInv
<1>2. PhaseInv' /\ MemoryInv'
  BY DEF Defer, durable, KnowledgeInv, PhaseInv, Phases, MemoryInv
<1>3. CallInv' /\ CountInv'
  BY SameCalls DEF Defer, durable, bounds
<1> QED
  BY <1>1, <1>2, <1>3 DEF KnowledgeInv, Defer

LEMMA ApplyRowInv ==
    ASSUME KnowledgeInv, ApplyRow
    PROVE  /\ KnowledgeInv'
           /\ Head(queue) \in Facts
           /\ \/ world'.claims = world.claims
              \/ world'.claims = MergedClaims(world, Head(queue))
<1>1. Head(queue) \in Facts /\ Tail(queue) \in Seq(Facts)
  BY HeadTailProperties DEF ApplyRow, KnowledgeInv, RowsInv
<1>2. WorldInv(world) /\ world \in Worlds /\ Revised(world)
  BY DEF ApplyRow, KnowledgeInv, MemoryInv, WorldInv
<1>3. PICK gated \in BOOLEAN : world' = Learn(world, Head(queue), gated)
  BY DEF ApplyRow
<1>4. /\ WorldInv(world') /\ Revised(world')
      /\ \/ world'.claims = world.claims
         \/ world'.claims = MergedClaims(world, Head(queue))
  BY <1>1, <1>2, <1>3, LearnInv
<1>5. RowsInv' /\ SavedInv'
  BY <1>1, SameRows DEF ApplyRow, durable, RowsInv
<1>6. PhaseInv'
  BY DEF ApplyRow, durable, KnowledgeInv, PhaseInv
<1>7. CallInv' /\ CountInv'
  BY SameCalls DEF ApplyRow, durable, bounds
<1> QED
  BY <1>1, <1>4, <1>5, <1>6, <1>7 DEF KnowledgeInv, MemoryInv

LEMMA RecordInv ==
    ASSUME KnowledgeInv, Record
    PROVE  KnowledgeInv' /\ world'.claims = world.claims
<1>1. WorldInv(world') /\ Revised(world') /\ world'.claims = world.claims
  BY CoveredInv DEF Record, KnowledgeInv, MemoryInv, PhaseInv, WorldInv
<1>2. RowsInv' /\ SavedInv'
  BY SameRows DEF Record, durable, KnowledgeInv, RowsInv
<1>3. PhaseInv'
  BY DEF Record, durable, KnowledgeInv, PhaseInv, Phases
<1>4. CallInv' /\ CountInv'
  BY SameCalls DEF Record, durable, bounds
<1> QED
  BY <1>1, <1>2, <1>3, <1>4 DEF KnowledgeInv, MemoryInv

\* Neither an exception that leaves a cycle nor a save that fails changes what is known.
LEMMA LeftInv ==
    ASSUME KnowledgeInv, Interrupted \/ SaveFails
    PROVE  KnowledgeInv' /\ world' = world
<1>0. UNCHANGED <<durable, world, queue, blind, calls, cycleCalls, crashes>>
      /\ doing' \in {doing, NoKey} /\ phase' = "deliberate" /\ phase # "down"
      /\ cycle' = cycle + 1 /\ faults' = faults + 1
  BY DEF Interrupted, SaveFails
<1>1. RowsInv' /\ SavedInv'
  BY <1>0, SameRows DEF durable, KnowledgeInv, RowsInv
<1>2. PhaseInv' /\ MemoryInv'
  BY <1>0 DEF durable, KnowledgeInv, PhaseInv, Phases, MemoryInv
<1>3. CallInv' /\ CountInv'
  BY <1>0 DEF durable, KnowledgeInv, CallInv, CountInv
<1> QED
  BY <1>0, <1>1, <1>2, <1>3 DEF KnowledgeInv

LEMMA SaveInv ==
    ASSUME KnowledgeInv, Save
    PROVE  KnowledgeInv' /\ world' = world
<1>1. RowsInv'
  BY DEF Save, KnowledgeInv, RowsInv
<1>2. SavedInv'
  <2>1. LastApplied \in 0..Len(stored) /\ Len(stored) \in Nat
    BY LastAppliedType, LenProperties DEF KnowledgeInv, RowsInv
  <2>2. WorldInv(world) /\ world \in Worlds /\ Revised(world)
    BY DEF Save, KnowledgeInv, MemoryInv, WorldInv
  <2>3. stored' = stored
    BY DEF Save
  <2>4. CASE saved' = [world |-> world, last |-> LastApplied, exists |-> TRUE]
    BY <2>1, <2>2, <2>3, <2>4 DEF SavedInv
  <2>5. CASE saved' = saved
    BY <2>3, <2>5 DEF KnowledgeInv, SavedInv
  <2> QED
    BY <2>4, <2>5 DEF Save
<1>3. PhaseInv' /\ MemoryInv'
  BY DEF Save, KnowledgeInv, PhaseInv, Phases, MemoryInv
<1>4. CallInv' /\ CountInv'
  BY DEF Save, KnowledgeInv, CallInv, CountInv
<1> QED
  BY <1>1, <1>2, <1>3, <1>4 DEF KnowledgeInv, Save

\* A process that dies takes its count of calls with it, so the next one has a budget of
\* its own.
LEMMA CrashInv ==
    ASSUME KnowledgeInv, Crash
    PROVE  KnowledgeInv'
<1>1. SavedInv' /\ RowsInv'
  BY SameRows, EmptySeq DEF Crash, durable, KnowledgeInv, RowsInv
<1>2. MemoryInv'
  BY BlankInv DEF Crash, MemoryInv
<1>3. PhaseInv'
  BY DEF Crash, durable, KnowledgeInv, PhaseInv, Phases
<1>4. CallInv'
  <2>1. spent <= MaxCalls * crashes + calls /\ calls <= MaxCalls /\ calls \in Nat /\ spent \in Nat
    BY BudgetAssumption DEF KnowledgeInv, CallInv
  <2>2. MaxCalls * (crashes + 1) = MaxCalls * crashes + MaxCalls /\ MaxCalls * crashes \in Nat
    BY BudgetAssumption DEF KnowledgeInv, CountInv
  <2>3. spent <= MaxCalls * (crashes + 1) + 0
    BY <2>1, <2>2, BudgetAssumption
  <2> QED
    BY <2>1, <2>3, BudgetAssumption DEF Crash, durable, CallInv
<1>5. CountInv'
  BY DEF Crash, KnowledgeInv, CountInv
<1> QED
  BY <1>1, <1>2, <1>3, <1>4, <1>5 DEF KnowledgeInv

LEMMA RestartInv ==
    ASSUME KnowledgeInv, Restart
    PROVE  KnowledgeInv'
<1>1. WorldInv(world') /\ Revised(world') /\ queue' \in Seq(Facts)
  <2>1. CASE Rebuild
    BY <2>1, SeededInv DEF Rebuild, KnowledgeInv, RowsInv
  <2>2. CASE Hydrate
    <3> DEFINE known == IF saved.last = 0 THEN Len(stored) ELSE saved.last
    <3>1. known \in 0..Len(stored) /\ stored \in Seq(Facts)
      BY LenProperties DEF KnowledgeInv, RowsInv, SavedInv
    <3>2. /\ world' = [saved.world EXCEPT !.applied = {stored[i] : i \in 1..known}]
          /\ queue' = SubSeq(stored, known + 1, Len(stored))
      BY <2>2 DEF Hydrate
    <3>3. WorldInv(saved.world) /\ saved.world \in Worlds /\ Revised(saved.world)
      BY <2>2 DEF Hydrate, KnowledgeInv, SavedInv, WorldInv
    <3> HIDE DEF known
    <3>4. {stored[i] : i \in 1..known} \in SUBSET Facts
          /\ SubSeq(stored, known + 1, Len(stored)) \in Seq(Facts)
      BY <3>1, HydratedRows
    <3> QED
      BY <3>2, <3>3, <3>4, HydratedInv
  <2> QED
    BY <2>1, <2>2 DEF Restart
<1>2. RowsInv' /\ SavedInv'
  BY <1>1, SameRows DEF Restart, durable, RowsInv
<1>3. PhaseInv'
  BY DEF Restart, durable, KnowledgeInv, PhaseInv, Phases
<1>4. CallInv' /\ CountInv'
  BY SameCalls DEF Restart, durable, bounds
<1> QED
  BY <1>1, <1>2, <1>3, <1>4 DEF KnowledgeInv, MemoryInv

LEMMA ResumeFailsInv ==
    ASSUME KnowledgeInv, ResumeFails
    PROVE  KnowledgeInv'
<1>1. RowsInv' /\ SavedInv'
  BY SameRows DEF ResumeFails, durable, KnowledgeInv, RowsInv
<1>2. MemoryInv'
  BY SeededInv DEF ResumeFails, MemoryInv
<1>3. PhaseInv'
  BY DEF ResumeFails, durable, KnowledgeInv, PhaseInv, Phases, SavedInv
<1>4. CallInv' /\ CountInv'
  BY DEF ResumeFails, durable, KnowledgeInv, CallInv, CountInv
<1> QED
  BY <1>1, <1>2, <1>3, <1>4 DEF KnowledgeInv

LEMMA ResumedInv ==
    ASSUME KnowledgeInv, Resumed
    PROVE  KnowledgeInv' /\ world' = world
<1>1. RowsInv' /\ SavedInv'
  BY SameRows DEF Resumed, durable, KnowledgeInv, RowsInv
<1>2. PhaseInv' /\ MemoryInv'
  BY DEF Resumed, durable, KnowledgeInv, PhaseInv, Phases, MemoryInv
<1>3. CallInv' /\ CountInv'
  BY SameCalls DEF Resumed, durable, bounds
<1> QED
  BY <1>1, <1>2, <1>3 DEF KnowledgeInv, Resumed

LEMMA NextInv == KnowledgeInv /\ [Next]_vars => KnowledgeInv'
<1> SUFFICES ASSUME KnowledgeInv, [Next]_vars PROVE KnowledgeInv'
  OBVIOUS
<1>1. CASE Next
  BY <1>1, DeliberateInv, AdviseInv, ExecuteInv, FailInv, DeferInv, ApplyRowInv, RecordInv,
     LeftInv, SaveInv, CrashInv, RestartInv, ResumeFailsInv, ResumedInv DEF Next
<1>2. CASE UNCHANGED vars
  BY <1>2 DEF vars, durable, memory, bounds, KnowledgeInv, RowsInv, SavedInv, MemoryInv,
     PhaseInv, CallInv, CountInv
<1> QED
  BY <1>1, <1>2

\* The invariant holds in every state, before and after every crash, failed save and
\* restart.
THEOREM InvHolds == Spec => []KnowledgeInv
BY InitInv, NextInv, PTL DEF Spec

--------------------------------------------------------------------------------
(***************************************************************************)
(* What the invariant gives                                                *)
(***************************************************************************)
\* Every variable keeps its type.
THEOREM TypesHold == Spec => []KnowledgeTypeOK
<1>1. KnowledgeInv => KnowledgeTypeOK
  BY BudgetAssumption DEF KnowledgeInv, RowsInv, SavedInv, MemoryInv, PhaseInv, CallInv, CountInv,
     WorldInv, KnowledgeTypeOK
<1> QED
  BY <1>1, InvHolds, PTL

\* However many rows say whatever of whichever subject, two claims that contradict each
\* other list evidence of each other (world/model.py _merge_claim).
THEOREM RivalsLinkedAlways == Spec => []RivalsAreLinked
<1>1. KnowledgeInv => RivalsAreLinked
  BY DEF KnowledgeInv, MemoryInv, WorldInv, RivalsLinked, RivalsAreLinked
<1> QED
  BY <1>1, InvHolds, PTL

\* The open questions are those the beliefs leave open in every state of a process that
\* is up (world/model.py _finalize_revision).
THEOREM GapsCurrentAlways == Spec => []GapsAreCurrent
<1>1. KnowledgeInv => GapsAreCurrent
  BY DEF KnowledgeInv, MemoryInv, Revised, GapsCurrent, GapsAreCurrent
<1> QED
  BY <1>1, InvHolds, PTL

\* No finding outlives the last claim it rests on, and what the beliefs call for is reported
\* unless the finding is full of rows that were overruled (world/findings.py).
THEOREM FindingsGroundedAlways == Spec => []FindingsAreGrounded
<1>1. KnowledgeInv => FindingsAreGrounded
  BY DEF KnowledgeInv, MemoryInv, Revised, Grounded, FindingsAreGrounded
<1> QED
  BY <1>1, InvHolds, PTL

\* No run of findings and revivals lifts a hypothesis of a provider over its cap
\* (engine/hypotheses.py).
THEOREM AdviceCapped == Spec => []AdviceStaysAdvisory
<1>1. KnowledgeInv => AdviceStaysAdvisory
  BY DEF KnowledgeInv, MemoryInv, WorldInv, Capped, AdviceStaysAdvisory
<1> QED
  BY <1>1, InvHolds, PTL

\* The calls of all processes together are bounded by the budget of one times the number
\* of processes (ai/budget.py).
THEOREM BudgetKept == Spec => []CallBudget
<1>1. KnowledgeInv => CallBudget
  <2> SUFFICES ASSUME KnowledgeInv PROVE CallBudget
    OBVIOUS
  <2>1. calls <= MaxCalls /\ cycleCalls <= MaxCycleCalls /\ calls \in Nat /\ spent \in Nat
    BY BudgetAssumption DEF KnowledgeInv, CallInv
  <2>2. spent <= MaxCalls * crashes + calls
    BY DEF KnowledgeInv, CallInv
  <2>3. MaxCalls * (1 + crashes) = MaxCalls * crashes + MaxCalls /\ MaxCalls * crashes \in Nat
    BY BudgetAssumption DEF KnowledgeInv, CountInv
  <2>4. spent <= MaxCalls * (1 + crashes)
    BY <2>1, <2>2, <2>3, BudgetAssumption
  <2> QED
    BY <2>1, <2>4 DEF CallBudget
<1> QED
  BY <1>1, InvHolds, PTL

(***************************************************************************)
(* What a step may do to a claim                                           *)
(***************************************************************************)
\* Only a row touches claims, and only by merging.
LEMMA ClaimsChange ==
    ASSUME KnowledgeInv, Next, Working
    PROVE  \/ world'.claims = world.claims
           \/ /\ ApplyRow
              /\ Head(queue) \in Facts
              /\ world'.claims = MergedClaims(world, Head(queue))
<1>1. CASE ApplyRow
  BY <1>1, ApplyRowInv
<1>2. CASE Crash
  BY <1>2 DEF Crash, Working
<1>3. CASE Restart
  BY <1>3 DEF Restart, Working
<1>4. CASE ResumeFails
  BY <1>4 DEF ResumeFails, Working
<1> QED
  BY <1>1, <1>2, <1>3, <1>4, DeliberateInv, AdviseInv, ExecuteInv, FailInv, DeferInv, RecordInv,
     LeftInv, SaveInv, ResumedInv DEF Next

\* A claim that changes is the one the row is about or one the row contradicts.
LEMMA MergedClaimsReach ==
    ASSUME NEW w \in Worlds, NEW e \in Facts, NEW t \in Triples,
           MergedClaims(w, e)[t] # w.claims[t]
    PROVE  t \in {Triple(e)} \cup Rivals(Triple(e))
BY DEF MergedClaims

\* Confidence is lost to a new rival only, and what was overruled stays so.
LEMMA MergedClaimsDoubt ==
    ASSUME NEW w \in Worlds, NEW e \in Facts, NEW t \in Triples, Unclaimed(w)
    PROVE  LET D == MergedClaims(w, e)
           IN  /\ D[t].confidence < w.claims[t].confidence =>
                     \E u \in Rivals(t) : ~Exists(w.claims[u]) /\ Exists(D[u])
               /\ w.claims[t].status = "invalidated" => D[t].status = "invalidated"
<1> DEFINE D == MergedClaims(w, e)
           o == Triple(e)
           c == w.claims[t]
           r == Fact[e].reliability
<1>1. o \in Triples /\ r \in 0..Full /\ c \in ClaimSet /\ e \in D[o].evidence
  BY TripleType, FactAssumption, MergedClaimsGrow DEF Worlds
<1>2. D[t] = IF t = o
            THEN IF Exists(w.claims[o]) THEN SupportedClaim(w, e) ELSE NewClaim(w, e)
            ELSE IF t \in Rivals(o) /\ ~Exists(w.claims[o]) /\ Exists(c)
            THEN ContradictedClaim(c, e)
            ELSE c
  BY DEF MergedClaims
<1> HIDE DEF D
<1>3. CASE t = o /\ Exists(w.claims[o])
  <2>1. /\ D[t].confidence = Raised(c.confidence, r)
        /\ c.status = "invalidated" => D[t].status = "invalidated"
    <3>1. /\ SupportedClaim(w, e).confidence = Raised(w.claims[o].confidence, r)
          /\ w.claims[o].status = "invalidated" => SupportedClaim(w, e).status = "invalidated"
      BY DEF SupportedClaim
    <3>2. D[t] = SupportedClaim(w, e) /\ c = w.claims[o]
      BY <1>2, <1>3
    <3> QED
      BY <3>1, <3>2
  <2>2. Raised(c.confidence, r) >= c.confidence /\ Raised(c.confidence, r) \in 0..Full
        /\ c.confidence \in 0..Full
    BY <1>1, RaisedRange DEF ClaimSet
  <2>3. ~(D[t].confidence < c.confidence)
    BY <2>1, <2>2
  <2> QED
    BY <2>1, <2>3 DEF D
<1>4. CASE t = o /\ ~Exists(w.claims[o])
  <2>1. c = NoClaim /\ D[t] = NewClaim(w, e)
    BY <1>2, <1>4 DEF Unclaimed
  <2>2. c.confidence = 0 /\ c.status = "unknown" /\ D[t].confidence = r
    BY <2>1 DEF NoClaim, NewClaim
  <2>3. ~(D[t].confidence < c.confidence)
    BY <1>1, <2>2
  <2> QED
    BY <2>2, <2>3 DEF D
<1>5. CASE t # o /\ t \in Rivals(o) /\ ~Exists(w.claims[o]) /\ Exists(c)
  <2>1. o \in Rivals(t)
    BY <1>1, <1>5, RivalsAreMutual
  <2>2. Exists(D[o])
    BY <1>1 DEF Exists
  <2>3. c.status = "invalidated" => D[t].status = "invalidated"
    BY <1>1, <1>2, <1>5 DEF ContradictedClaim, ClaimSet
  <2> QED
    BY <1>5, <2>1, <2>2, <2>3 DEF D
<1>6. CASE D[t] = c
  <2>1. ~(c.confidence < c.confidence)
    BY <1>1 DEF ClaimSet
  <2> QED
    BY <1>6, <2>1 DEF D
<1> QED
  BY <1>2, <1>3, <1>4, <1>5, <1>6

\* No deliberation, advice, outcome or save touches what is believed: claims change by a
\* row of evidence (engine/hypotheses.py, ai/, world/model.py).
THEOREM BeliefsOnlyFromRows == Spec => BeliefsFollowEvidence
<1> DEFINE Follow == Working => \A t \in Triples : world'.claims[t] # world.claims[t] =>
                         /\ queue # <<>>
                         /\ t \in {Triple(Head(queue))} \cup Rivals(Triple(Head(queue)))
<1>1. KnowledgeInv /\ [Next]_vars => [Follow]_vars
  <2> SUFFICES ASSUME KnowledgeInv, Next, Working, NEW t \in Triples,
                      world'.claims[t] # world.claims[t]
               PROVE  /\ queue # <<>>
                      /\ t \in {Triple(Head(queue))} \cup Rivals(Triple(Head(queue)))
    OBVIOUS
  <2>1. ApplyRow /\ Head(queue) \in Facts /\ world'.claims = MergedClaims(world, Head(queue))
    BY ClaimsChange
  <2>2. world \in Worlds
    BY DEF KnowledgeInv, MemoryInv, WorldInv
  <2> QED
    BY <2>1, <2>2, MergedClaimsReach DEF ApplyRow
<1> QED
  BY <1>1, InvHolds, PTL DEF Spec, BeliefsFollowEvidence

\* Evidence that agrees never lowers confidence, and nothing takes up again what a
\* stronger rival overruled (domain/confidence.py, world/status.py).
THEOREM DoubtOnlyFromRivals == Spec => DoubtNeedsARival
<1> DEFINE Doubt == Working => \A t \in Triples :
          /\ world'.claims[t].confidence < world.claims[t].confidence =>
                 \E u \in Rivals(t) : ~Exists(world.claims[u]) /\ Exists(world'.claims[u])
          /\ world.claims[t].status = "invalidated" => world'.claims[t].status = "invalidated"
<1>1. KnowledgeInv /\ [Next]_vars => [Doubt]_vars
  <2> SUFFICES ASSUME KnowledgeInv, Next, Working, NEW t \in Triples
               PROVE  /\ world'.claims[t].confidence < world.claims[t].confidence =>
                             \E u \in Rivals(t) : ~Exists(world.claims[u]) /\ Exists(world'.claims[u])
                      /\ world.claims[t].status = "invalidated" => world'.claims[t].status = "invalidated"
    OBVIOUS
  <2>1. world \in Worlds /\ Unclaimed(world)
    BY DEF KnowledgeInv, MemoryInv, WorldInv
  <2>2. CASE world'.claims = world.claims
    <3>1. world.claims[t].confidence \in 0..Full
      BY <2>1 DEF Worlds, ClaimSet
    <3>2. ~(world.claims[t].confidence < world.claims[t].confidence)
      BY <3>1
    <3> QED
      BY <2>2, <3>2
  <2>3. CASE Head(queue) \in Facts /\ world'.claims = MergedClaims(world, Head(queue))
    BY <2>1, <2>3, MergedClaimsDoubt
  <2> QED
    BY <2>2, <2>3, ClaimsChange
<1> QED
  BY <1>1, InvHolds, PTL DEF Spec, DoubtNeedsARival
================================================================================
