--------------------------- MODULE KnowledgeHistoryProofs ---------------------------
(***************************************************************************)
(* Theorems about KnowledgeBase that look back at the rows: what is        *)
(* believed is what the rows say in their order, and a question is closed  *)
(* by a row that answers it.  They hold for every sequence of rows, and    *)
(* for every interleaving of cycles, failed saves, crashes and restarts.   *)
(***************************************************************************)
EXTENDS KnowledgeBaseProofs, WellOrder

(***************************************************************************)
(* Replaying rows                                                          *)
(***************************************************************************)
\* The recursion that defines Replay has a solution, built row by row.
LEMMA ReplayUnfolds ==
    ASSUME NEW rows \in Seq(Facts), NEW L
    PROVE  \A n \in 0..Len(rows) :
               Replay(rows, L)[n] = IF n = 0 THEN Nothing
                   ELSE IF rows[n] \in L THEN Told(Replay(rows, L)[n - 1], rows[n])
                   ELSE Replay(rows, L)[n - 1]
<1> DEFINE Step(b, n) == IF n = 0 THEN Nothing ELSE IF rows[n] \in L THEN Told(b, rows[n]) ELSE b
           Good(k) == \E f : f = [n \in 0..k |-> Step(f[n - 1], n)]
<1>0. Len(rows) \in Nat
  BY LenProperties
<1>1. Good(Len(rows))
  <2> SUFFICES ASSUME ~Good(Len(rows)) PROVE FALSE
    OBVIOUS
  <2> DEFINE S == {k \in Nat : ~Good(k)}
  <2>1. PICK k \in S : \A m \in S : k <= m
    <3> HIDE DEF Good
    <3>1. Len(rows) \in S
      BY <1>0
    <3> QED BY <3>1, LeastElement
  <2>2. k # 0
    <3> DEFINE g == [n \in 0..0 |-> Nothing]
    <3>1. \A n \in 0..0 : g[n] = Step(g[n - 1], n)
      OBVIOUS
    <3>2. Good(0)
      <4> HIDE DEF Step
      <4> QED BY <3>1
    <3> QED BY <2>1, <3>2
  <2>3. Good(k - 1)
    <3> HIDE DEF Good
    <3> QED BY <2>1, <2>2
  <2>4. PICK f : f = [n \in 0..(k - 1) |-> Step(f[n - 1], n)]
    BY <2>3
  <2> DEFINE g == [n \in 0..k |-> IF n = k THEN Step(f[k - 1], k) ELSE f[n]]
  <2>5. g = [n \in 0..k |-> Step(g[n - 1], n)]
    <3>1. ASSUME NEW n \in 0..k PROVE g[n] = Step(g[n - 1], n)
      <4>1. CASE n = 0
        <5>1. g[n] = Step(f[n - 1], n)
          BY <2>1, <2>2, <2>4, <4>1
        <5> QED BY <4>1, <5>1
      <4>2. CASE n = k
        <5> HIDE DEF Step
        <5> QED BY <2>1, <2>2, <4>2
      <4>3. CASE n # 0 /\ n # k
        <5> HIDE DEF Step
        <5>1. g[n] = f[n] /\ g[n - 1] = f[n - 1] /\ n \in 0..(k - 1)
          BY <2>1, <4>3
        <5> QED BY <2>4, <5>1
      <4> QED BY <4>1, <4>2, <4>3
    <3> HIDE DEF Step
    <3> QED BY <3>1
  <2> QED BY <2>1, <2>5
<1>2. Replay(rows, L) = CHOOSE f : f = [n \in 0..Len(rows) |-> Step(f[n - 1], n)]
  BY DEF Replay
<1>3. Replay(rows, L) = [n \in 0..Len(rows) |-> Step(Replay(rows, L)[n - 1], n)]
  <2> HIDE DEF Step
  <2> QED BY <1>1, <1>2
<1>4. \A n \in 0..Len(rows) : Replay(rows, L)[n] = Step(Replay(rows, L)[n - 1], n)
  <2> HIDE DEF Step
  <2> QED BY <1>3
<1> QED BY <1>4

\* The outcome depends on nothing but the rows taken and their order.
LEMMA SameRowsSameOutcome ==
    ASSUME NEW rows \in Seq(Facts), NEW more \in Seq(Facts), NEW L, NEW K,
           NEW n \in 0..Len(rows), n \in 0..Len(more),
           \A i \in 1..n : rows[i] = more[i] /\ (rows[i] \in L <=> rows[i] \in K)
    PROVE  Replay(rows, L)[n] = Replay(more, K)[n]
<1> DEFINE S == {m \in 0..n : Replay(rows, L)[m] # Replay(more, K)[m]}
<1>0. Len(rows) \in Nat /\ Len(more) \in Nat
  BY LenProperties
<1> SUFFICES ASSUME S # {} PROVE FALSE
  BY <1>0
<1>1. PICK m \in S : \A i \in S : m <= i
  <2>1. S \subseteq Nat
    BY <1>0
  <2> HIDE DEF S
  <2> QED BY <2>1, LeastElement
<1>2. m \in 0..Len(rows) /\ m \in 0..Len(more) /\ m \in 0..n
  BY <1>0
<1>3. m # 0
  <2>1. 0 \in 0..Len(rows) /\ 0 \in 0..Len(more)
    BY <1>0
  <2>2. Replay(rows, L)[0] = Nothing /\ Replay(more, K)[0] = Nothing
    BY <2>1, ReplayUnfolds
  <2> QED BY <1>1, <2>2
<1>4. Replay(rows, L)[m - 1] = Replay(more, K)[m - 1] /\ m \in 1..n
  BY <1>1, <1>2, <1>3
<1>5. Replay(rows, L)[m] = Replay(more, K)[m]
  BY <1>2, <1>3, <1>4, ReplayUnfolds
<1> QED BY <1>1, <1>5

\* Rows that were not learned change nothing.
LEMMA IdleRows ==
    ASSUME NEW rows \in Seq(Facts), NEW L, NEW n \in 0..Len(rows), NEW k \in 0..n,
           \A i \in (k + 1)..n : rows[i] \notin L
    PROVE  Replay(rows, L)[n] = Replay(rows, L)[k]
<1> DEFINE S == {m \in k..n : Replay(rows, L)[m] # Replay(rows, L)[k]}
<1>0. Len(rows) \in Nat
  BY LenProperties
<1> SUFFICES ASSUME S # {} PROVE FALSE
  BY <1>0
<1>1. PICK m \in S : \A i \in S : m <= i
  <2>1. S \subseteq Nat
    BY <1>0
  <2> HIDE DEF S
  <2> QED BY <2>1, LeastElement
<1>2. m \in 0..Len(rows) /\ m \in (k + 1)..n
  BY <1>0
<1>3. Replay(rows, L)[m - 1] = Replay(rows, L)[k]
  BY <1>1, <1>2
<1>4. Replay(rows, L)[m] = Replay(rows, L)[m - 1]
  BY <1>2, ReplayUnfolds
<1> QED BY <1>1, <1>3, <1>4

--------------------------------------------------------------------------------
(***************************************************************************)
(* What a row does to a world                                              *)
(***************************************************************************)
\* Of all claims only the one the row is about holds more evidence than before, and that
\* is the row (world/model.py _merge_claim).
LEMMA MergedEvidence ==
    ASSUME NEW w \in Worlds, NEW e \in Facts, Unclaimed(w), NEW t \in Triples
    PROVE  MergedClaims(w, e)[t].evidence =
               IF t = Triple(e) THEN w.claims[t].evidence \cup {e} ELSE w.claims[t].evidence
<1> DEFINE o == Triple(e)
<1>1. CASE t # o
  BY <1>1, MergedClaimsGrow
<1>2. CASE t = o /\ Exists(w.claims[o])
  <2>1. MergedClaims(w, e)[t] = SupportedClaim(w, e)
    BY <1>2 DEF MergedClaims
  <2>2. SupportedClaim(w, e).evidence = w.claims[o].evidence \cup {e}
    BY DEF SupportedClaim
  <2> QED BY <1>2, <2>1, <2>2
<1>3. CASE t = o /\ ~Exists(w.claims[o])
  <2>1. MergedClaims(w, e)[t] = NewClaim(w, e)
    BY <1>3 DEF MergedClaims
  <2>2. NewClaim(w, e).evidence = {e}
    BY DEF NewClaim
  <2>3. w.claims[o].evidence = {}
    BY <1>3 DEF Exists
  <2> QED BY <1>3, <2>1, <2>2, <2>3
<1> QED BY <1>1, <1>2, <1>3

LEMMA LearnedAfterMerging ==
    ASSUME NEW w \in Worlds, NEW e \in Facts, Unclaimed(w), NEW v, v.claims = MergedClaims(w, e)
    PROVE  LearnedBy(v) = LearnedBy(w) \cup {e}
<1>1. Triple(e) \in Triples
  BY TripleType
<1>2. \A t \in Triples : v.claims[t].evidence =
          IF t = Triple(e) THEN w.claims[t].evidence \cup {e} ELSE w.claims[t].evidence
  BY MergedEvidence
<1> QED BY <1>1, <1>2 DEF LearnedBy

LEMMA LearnedType ==
    ASSUME NEW w
    PROVE  LearnedBy(w) \subseteq Facts
BY DEF LearnedBy

\* Two worlds that believe and know the same.
SameMemory(w, v) == v.claims = w.claims /\ v.value = w.value /\ v.status = w.status

LEMMA SameMemoryRevised ==
    ASSUME NEW w \in Worlds
    PROVE  SameMemory(w, Finalized(w))
BY FinalizedType DEF SameBeliefs, SameMemory

LEMMA SameMemoryCovered ==
    ASSUME NEW w \in Worlds, NEW k \in Keys, NEW st \in {"failed", "completed"}
    PROVE  SameMemory(w, Covered(w, k, st)) /\ Covered(w, k, st).applied = w.applied
<1> DEFINE v == [w EXCEPT !.coverage = [@ EXCEPT ![k] = st]]
<1>1. v \in Worlds /\ SameMemory(w, v) /\ v.applied = w.applied
  BY DEF Worlds, SameMemory
<1>2. Covered(w, k, st) = Finalized(v)
  BY DEF Covered
<1> HIDE DEF v
<1>3. SameMemory(v, Finalized(v)) /\ Finalized(v).applied = v.applied
  BY <1>1, SameMemoryRevised, FinalizedType
<1> QED BY <1>1, <1>2, <1>3 DEF SameMemory

LEMMA SameMemoryDeliberated ==
    ASSUME NEW w \in Worlds, NEW f, NEW D
    PROVE  SameMemory(w, Deliberated(w, f, D)) /\ Deliberated(w, f, D).applied = w.applied
<1> DEFINE ideas == [s \in Statements |-> IdeaAfter(w, f, D, s)]
           leads == [l \in Leads |->
        IF Verdict(w, l) \in {"supported", "inconclusive"} /\ w.leads[l].checked < w.leads[l].seen
        THEN [w.leads[l] EXCEPT !.checked = w.leads[l].seen] ELSE w.leads[l]]
<1>1. Deliberated(w, f, D) = [[w EXCEPT !.leads = leads] EXCEPT !.ideas = ideas]
  BY DEF Deliberated, Synced
<1> HIDE DEF ideas, leads
<1> QED BY <1>1 DEF Worlds, SameMemory

\* What applying a row leaves behind: nothing, if it was applied before; the note that it
\* was, if no predicate is known for it; and otherwise what it tells, of assets that were
\* there or that it names (world/model.py _apply_evidence_unlocked).
LEMMA LearnEffect ==
    ASSUME NEW w \in Worlds, WorldInv(w), NEW e \in Facts, NEW gated \in BOOLEAN,
           NEW v, v = Learn(w, e, gated)
    PROVE  \/ v = w
           \/ /\ e \notin w.applied
              /\ v.applied = w.applied \cup {e}
              /\ \/ SameMemory(w, v)
                 \/ /\ v.claims = MergedClaims(w, e)
                    /\ v.value = Shown(w, e)
                    /\ Present(v) \subseteq Present(w) \cup Chain(e)
<1> DEFINE seen == [w EXCEPT !.applied = @ \cup {e}]
           there == Correlate(seen, e, gated)
           told == MergeClaim(there, e)
<1>1. CASE e \in w.applied
  BY <1>1 DEF Learn
<1>2. CASE e \notin w.applied
  <2>1. seen \in Worlds /\ SameMemory(w, seen) /\ seen.applied = w.applied \cup {e}
    BY DEF Worlds, SameMemory
  <2>2. CASE ~Fact[e].mapped
    <3>1. v = Finalized(seen)
      BY <1>2, <2>2 DEF Learn
    <3> HIDE DEF seen
    <3>2. SameMemory(seen, v) /\ v.applied = seen.applied
      BY <2>1, <3>1, SameMemoryRevised, FinalizedType
    <3> QED BY <1>2, <2>1, <3>2 DEF SameMemory
  <2>3. CASE Fact[e].mapped
    <3>1. v = Finalized(told)
      BY <1>2, <2>3 DEF Learn
    <3> HIDE DEF seen
    <3>2. there \in Worlds /\ there.claims = w.claims
      BY <2>1, CorrelateType DEF SameMemory
    <3>3. there.value = w.value /\ there.applied = seen.applied
          /\ there.status = [a \in Assets |-> IF a \in Missing(seen, e) THEN CreatedStatus(seen, a)
                                              ELSE seen.status[a]]
      BY <2>1 DEF Correlate, Worlds, SameMemory
    <3> HIDE DEF there
    <3>4. told \in Worlds
      BY <3>2, MergeClaimType
    <3>5. told.claims = MergedClaims(w, e)
      <4>1. MergedClaims(there, e) = MergedClaims(w, e)
        BY <3>2 DEF MergedClaims, SupportedClaim, NewClaim
      <4> QED BY <3>2, <4>1, MergeClaimType
    <3>6. told.value = Shown(w, e) /\ told.applied = there.applied
      <4>1. Shown(there, e) = Shown(w, e)
        BY <3>3 DEF Shown
      <4> QED BY <3>2, <4>1 DEF MergeClaim, Worlds
    <3>7. Present(told) \subseteq Present(w) \cup Chain(e)
      <4>1. Fact[e].subject \in Chain(e)
        BY DEF Chain, Line, Parents
      <4>2. \A a \in Assets \ {Fact[e].subject} : told.status[a] = there.status[a]
        BY <3>2 DEF MergeClaim, Worlds
      <4>3. \A a \in Assets \ Chain(e) : there.status[a] = w.status[a]
        BY <2>1, <3>3 DEF Missing, SameMemory
      <4> QED BY <4>1, <4>2, <4>3 DEF Present
    <3> HIDE DEF told
    <3>8. SameMemory(told, v) /\ v.applied = told.applied
      BY <3>1, <3>4, SameMemoryRevised, FinalizedType
    <3>9. Present(v) = Present(told)
      BY <3>8 DEF SameMemory, Present
    <3> QED BY <1>2, <2>1, <3>3, <3>5, <3>6, <3>7, <3>8, <3>9 DEF SameMemory
  <2> QED BY <2>2, <2>3
<1> QED BY <1>1, <1>2

--------------------------------------------------------------------------------
(***************************************************************************)
(* The invariant.  A saved world must be what the rows up to the last it   *)
(* has applied make of it, for a restart goes on from there; and a process *)
(* must hold the rows to come in the order of the table, for what is       *)
(* believed depends on their order.                                        *)
(***************************************************************************)
\* A claim holds the rows about it, and an asset that is no seed is named by a row learned.
Sourced(w) ==
    /\ \A t \in Triples : \A e \in w.claims[t].evidence : Triple(e) = t
    /\ \A a \in Present(w) \ Seeds : \E e \in LearnedBy(w) : a \in Chain(e)

\* The first n rows hold all that a world has learned, and it believes what they say.
Recalled(rows, w, n) ==
    /\ LearnedBy(w) \subseteq {rows[i] : i \in 1..n}
    /\ w.claims = Replay(rows, LearnedBy(w))[n].claims
    /\ w.value = Replay(rows, LearnedBy(w))[n].value

\* Row r comes from one of the executions so far, run of them for each key
Brought(r, run) ==
    \E k \in Keys : \E j \in DOMAIN Batch[k] :
        j <= run[k] /\ \E m \in DOMAIN Batch[k][j] : r = Batch[k][j][m]
Distinct(rows) == \A i, j \in DOMAIN rows : rows[i] = rows[j] => i = j
StoredInv == Distinct(stored) /\ \A i \in DOMAIN stored : Brought(stored[i], runs)

\* How many rows a process has behind it; the rest is queued in the order of the table
Behind == Len(stored) - Len(queue)
QueueInv ==
    /\ Behind \in Nat
    /\ \A i \in 1..Len(queue) : queue[i] = stored[Behind + i]
    /\ phase \notin {"apply", "replay"} => queue = <<>>

HistoryInv ==
    /\ StoredInv
    /\ QueueInv
    /\ Sourced(world) /\ Sourced(saved.world)
    /\ LearnedBy(world) \subseteq world.applied
    /\ Recalled(stored, world, Behind)
    /\ Recalled(stored, saved.world, saved.last)

LEMMA SameMemoryKeeps ==
    ASSUME NEW w, NEW v, SameMemory(w, v)
    PROVE  /\ LearnedBy(v) = LearnedBy(w)
           /\ Sourced(w) => Sourced(v)
           /\ \A rows, n : Recalled(rows, w, n) => Recalled(rows, v, n)
<1>1. LearnedBy(v) = LearnedBy(w) /\ Present(v) = Present(w)
  BY DEF SameMemory, LearnedBy, Present
<1> QED BY <1>1 DEF SameMemory, Sourced, Recalled

\* Of a table that grows, only the rows learned decide.
LEMMA RecalledElsewhere ==
    ASSUME NEW rows \in Seq(Facts), Distinct(rows), NEW w,
           NEW n \in 0..Len(rows), NEW k \in 0..Len(rows),
           LearnedBy(w) \subseteq {rows[i] : i \in 1..n},
           LearnedBy(w) \subseteq {rows[i] : i \in 1..k},
           Recalled(rows, w, n)
    PROVE  Recalled(rows, w, k)
<1> DEFINE L == LearnedBy(w)
<1>0. Len(rows) \in Nat /\ DOMAIN rows = 1..Len(rows)
  BY LenProperties
<1>1. \A i \in 1..Len(rows) : (i > n \/ i > k) => rows[i] \notin L
  BY <1>0 DEF Distinct
<1>2. Replay(rows, L)[n] = Replay(rows, L)[k]
  <2> HIDE DEF L
  <2>1. CASE n <= k
    <3>1. n \in 0..k /\ \A i \in (n + 1)..k : rows[i] \notin L
      BY <1>0, <1>1, <2>1
    <3> QED BY <3>1, IdleRows
  <2>2. CASE k <= n
    <3>1. k \in 0..n /\ \A i \in (k + 1)..n : rows[i] \notin L
      BY <1>0, <1>1, <2>2
    <3> QED BY <3>1, IdleRows
  <2> QED BY <1>0, <2>1, <2>2
<1> QED BY <1>2 DEF Recalled

LEMMA RecalledLonger ==
    ASSUME NEW rows \in Seq(Facts), Distinct(rows), NEW w,
           NEW n \in 0..Len(rows), NEW k \in n..Len(rows), Recalled(rows, w, n)
    PROVE  Recalled(rows, w, k)
<1>0. Len(rows) \in Nat
  BY LenProperties
<1>1. LearnedBy(w) \subseteq {rows[i] : i \in 1..n}
  BY DEF Recalled
<1>2. 1..n \subseteq 1..k /\ k \in 0..Len(rows)
  BY <1>0
<1>3. LearnedBy(w) \subseteq {rows[i] : i \in 1..k}
  BY <1>1, <1>2
<1> QED BY <1>1, <1>2, <1>3, RecalledElsewhere

\* Rows stored later do not change what the earlier ones said.
LEMMA RecalledAppended ==
    ASSUME NEW rows \in Seq(Facts), NEW more \in Seq(Facts), NEW w,
           NEW n \in 0..Len(rows), Recalled(rows, w, n)
    PROVE  Recalled(rows \o more, w, n)
<1> DEFINE all == rows \o more
<1>1. /\ all \in Seq(Facts) /\ Len(all) = Len(rows) + Len(more)
      /\ \A i \in 1..Len(rows) : all[i] = rows[i]
      /\ Len(rows) \in Nat /\ Len(more) \in Nat
  BY ConcatProperties, LenProperties
<1> HIDE DEF all
<1>2. n \in 0..Len(all) /\ \A i \in 1..n : all[i] = rows[i]
  BY <1>1
<1>3. ASSUME NEW L PROVE Replay(rows, L)[n] = Replay(all, L)[n]
  <2>1. \A i \in 1..n : rows[i] = all[i] /\ (rows[i] \in L <=> rows[i] \in L)
    BY <1>2
  <2>2. all \in Seq(Facts) /\ n \in 0..Len(all)
    BY <1>1, <1>2
  <2> QED BY <2>1, <2>2, SameRowsSameOutcome
<1>4. {rows[i] : i \in 1..n} = {all[i] : i \in 1..n}
  BY <1>2
<1> QED BY <1>3, <1>4 DEF Recalled, all

\* A world that has learned nothing recalls any number of rows.
LEMMA RecalledNothing ==
    ASSUME NEW rows \in Seq(Facts), NEW w, NEW n \in 0..Len(rows),
           w.claims = BlankWorld.claims, w.value = BlankWorld.value
    PROVE  LearnedBy(w) = {} /\ Recalled(rows, w, n)
<1>0. Len(rows) \in Nat
  BY LenProperties
<1>1. \A t \in Triples : w.claims[t].evidence = {}
  BY DEF BlankWorld, NoClaim
<1>2. LearnedBy(w) = {}
  BY <1>1 DEF LearnedBy
<1>3. Replay(rows, {})[n] = Replay(rows, {})[0]
  BY <1>0, IdleRows
<1>4. Replay(rows, {})[0] = Nothing
  <2>1. 0 \in 0..Len(rows)
    BY <1>0
  <2> QED BY <2>1, ReplayUnfolds
<1> QED BY <1>2, <1>3, <1>4 DEF Recalled, Nothing

\* The next row of the table, merged, is the next row recalled.
LEMMA RecalledNext ==
    ASSUME NEW rows \in Seq(Facts), Distinct(rows), NEW w \in Worlds, Unclaimed(w),
           NEW n \in 0..Len(rows), n + 1 \in 1..Len(rows), Recalled(rows, w, n),
           NEW v, v.claims = MergedClaims(w, rows[n + 1]), v.value = Shown(w, rows[n + 1])
    PROVE  Recalled(rows, v, n + 1)
<1> DEFINE e == rows[n + 1]
           L == LearnedBy(w)
           M == L \cup {e}
<1>0. Len(rows) \in Nat /\ DOMAIN rows = 1..Len(rows) /\ e \in Facts
  BY LenProperties, ElementOfSeq
<1>1. LearnedBy(v) = L \cup {e}
  BY <1>0, LearnedAfterMerging
<1>2. L \subseteq {rows[i] : i \in 1..n}
  BY DEF Recalled
<1>3. L \cup {e} \subseteq {rows[i] : i \in 1..(n + 1)}
  BY <1>0, <1>2
<1>4. \A i \in 1..n : rows[i] # e
  BY <1>0 DEF Distinct
<1>5. Replay(rows, L)[n] = Replay(rows, M)[n]
  <2>1. \A i \in 1..n : rows[i] = rows[i] /\ (rows[i] \in L <=> rows[i] \in M)
    BY <1>4
  <2> HIDE DEF L, M, e
  <2> QED BY <2>1, SameRowsSameOutcome
<1>6. Replay(rows, M)[n + 1] = Told(Replay(rows, L)[n], e)
  <2>1. n + 1 \in 0..Len(rows) /\ n + 1 # 0 /\ (n + 1) - 1 = n /\ rows[n + 1] \in M
    BY <1>0
  <2> HIDE DEF L, M
  <2>2. Replay(rows, M)[n + 1] = Told(Replay(rows, M)[(n + 1) - 1], rows[n + 1])
    <3> HIDE DEF e
    <3> QED BY <2>1, ReplayUnfolds
  <2> QED BY <1>5, <2>1, <2>2
<1>7. Told(Replay(rows, L)[n], e) = [claims |-> MergedClaims(w, e), value |-> Shown(w, e)]
  <2> DEFINE b == Replay(rows, L)[n]
  <2>1. w.claims = b.claims /\ w.value = b.value
    BY DEF Recalled
  <2> HIDE DEF b
  <2>2. MergedClaims(w, e) = MergedClaims(b, e) /\ Shown(w, e) = Shown(b, e)
    BY <2>1 DEF MergedClaims, SupportedClaim, NewClaim, Shown
  <2> QED BY <2>2 DEF Told, b
<1>8. v.claims = Replay(rows, LearnedBy(v))[n + 1].claims
      /\ v.value = Replay(rows, LearnedBy(v))[n + 1].value
  BY <1>1, <1>6, <1>7
<1> QED BY <1>1, <1>3, <1>8 DEF Recalled

\* What a row tells is about itself: claims hold rows about them, and assets appear
\* because a row names them (world/correlation.py).
LEMMA SourcedNext ==
    ASSUME NEW w \in Worlds, Unclaimed(w), Sourced(w), NEW e \in Facts,
           NEW v, v.claims = MergedClaims(w, e), Present(v) \subseteq Present(w) \cup Chain(e)
    PROVE  Sourced(v)
<1>1. \A t \in Triples : v.claims[t].evidence =
          IF t = Triple(e) THEN w.claims[t].evidence \cup {e} ELSE w.claims[t].evidence
  BY MergedEvidence
<1>2. LearnedBy(v) = LearnedBy(w) \cup {e}
  BY LearnedAfterMerging
<1> QED BY <1>1, <1>2 DEF Sourced

LEMMA BlankSourced ==
    /\ Sourced(BlankWorld)
    /\ Sourced(SeededWorld)
    /\ SeededWorld.claims = BlankWorld.claims /\ SeededWorld.value = BlankWorld.value
    /\ SeededWorld.applied = {}
<1> DEFINE st == [a \in Assets |-> IF a \in Seeds THEN "known" ELSE "absent"]
           v == [BlankWorld EXCEPT !.status = st]
<1>1. st \in [Assets -> Statuses \cup {"absent"}]
  BY DEF Statuses
<1>2. v \in Worlds /\ v.claims = BlankWorld.claims /\ v.value = BlankWorld.value
      /\ v.applied = {} /\ v.status = st
  BY <1>1, BlankInv DEF Worlds, BlankWorld
<1>3. SeededWorld = Finalized(v)
  BY DEF SeededWorld
<1> HIDE DEF v
<1>4. SameMemory(v, SeededWorld) /\ SeededWorld.applied = v.applied
  BY <1>2, <1>3, SameMemoryRevised, FinalizedType
<1>5. \A t \in Triples : BlankWorld.claims[t].evidence = {}
  BY DEF BlankWorld, NoClaim
<1>6. Present(v) \subseteq Seeds /\ Present(BlankWorld) = {}
  BY <1>2 DEF Present, BlankWorld
<1>7. Sourced(v) /\ Sourced(BlankWorld)
  BY <1>2, <1>5, <1>6 DEF Sourced
<1> QED BY <1>2, <1>4, <1>7, SameMemoryKeeps DEF SameMemory

--------------------------------------------------------------------------------
(***************************************************************************)
(* The invariant is inductive                                              *)
(***************************************************************************)
LEMMA RowFacts ==
    ASSUME KnowledgeInv
    PROVE  /\ stored \in Seq(Facts) /\ queue \in Seq(Facts)
           /\ Len(stored) \in Nat /\ Len(queue) \in Nat
           /\ saved.last \in 0..Len(stored)
           /\ WorldInv(world) /\ world \in Worlds /\ Unclaimed(world)
           /\ WorldInv(saved.world) /\ saved.world \in Worlds
BY LenProperties DEF KnowledgeInv, RowsInv, SavedInv, MemoryInv, WorldInv

LEMMA HistoryInit == Init => HistoryInv
<1> SUFFICES ASSUME Init PROVE HistoryInv
  OBVIOUS
<1>1. stored = <<>> /\ queue = <<>> /\ Len(stored) = 0 /\ Len(queue) = 0 /\ Behind = 0
      /\ stored \in Seq(Facts) /\ 0 \in 0..Len(stored)
  BY EmptySeq DEF Init, Behind
<1>2. StoredInv /\ QueueInv
  BY <1>1 DEF StoredInv, Distinct, QueueInv
<1>3. world = SeededWorld /\ saved.world = BlankWorld /\ saved.last = 0
  BY DEF Init, NoSave
<1>4. Sourced(world) /\ Sourced(saved.world)
  BY <1>3, BlankSourced
<1>5. LearnedBy(world) = {} /\ Recalled(stored, world, Behind)
  <2>1. world.claims = BlankWorld.claims /\ world.value = BlankWorld.value
    BY <1>3, BlankSourced
  <2>2. LearnedBy(world) = {} /\ Recalled(stored, world, 0)
    BY <1>1, <2>1, RecalledNothing
  <2> QED
    BY <1>1, <2>2
<1>6. Recalled(stored, saved.world, saved.last)
  <2>1. Recalled(stored, saved.world, 0)
    BY <1>1, <1>3, RecalledNothing
  <2> QED
    BY <1>3, <2>1
<1> QED
  BY <1>2, <1>4, <1>5, <1>6 DEF HistoryInv

\* What leaves the rows and the beliefs alone leaves their agreement alone.
LEMMA QuietHistory ==
    ASSUME HistoryInv, UNCHANGED <<stored, saved, runs, queue>>,
           SameMemory(world, world'), world'.applied = world.applied,
           phase' \notin {"apply", "replay"} => queue = <<>>
    PROVE  HistoryInv'
<1>1. StoredInv'
  BY DEF HistoryInv, StoredInv
<1>2. QueueInv' /\ Behind' = Behind
  BY DEF HistoryInv, QueueInv, Behind
<1>3. /\ LearnedBy(world') = LearnedBy(world)
      /\ Sourced(world')
      /\ Recalled(stored, world', Behind)
  BY SameMemoryKeeps DEF HistoryInv
<1> QED
  BY <1>1, <1>2, <1>3 DEF HistoryInv

LEMMA DeliberateHistory ==
    ASSUME KnowledgeInv, HistoryInv, Deliberate
    PROVE  HistoryInv'
<1>1. PICK f, D : world' = Deliberated(world, f, D)
  BY DEF Deliberate
<1>2. SameMemory(world, world') /\ world'.applied = world.applied
  BY <1>1, RowFacts, SameMemoryDeliberated
<1>3. queue = <<>> /\ UNCHANGED <<stored, saved, runs, queue>>
  BY DEF Deliberate, HistoryInv, QueueInv
<1> QED
  BY <1>2, <1>3, QuietHistory

LEMMA CoverageHistory ==
    ASSUME KnowledgeInv, HistoryInv, Record \/ \E k \in Keys : Fail(k)
    PROVE  HistoryInv'
<1>1. PICK k \in Keys, st \in {"failed", "completed"} : world' = Covered(world, k, st)
  BY DEF Record, Fail, KnowledgeInv, PhaseInv
<1>2. SameMemory(world, world') /\ world'.applied = world.applied
  BY <1>1, RowFacts, SameMemoryCovered
<1>3. queue = <<>> /\ UNCHANGED <<stored, saved, runs, queue>>
  BY DEF Record, Fail, durable, HistoryInv, QueueInv
<1> QED
  BY <1>2, <1>3, QuietHistory

LEMMA IdleHistory ==
    ASSUME HistoryInv, Advise \/ Defer \/ Interrupted \/ SaveFails \/ Resumed
    PROVE  HistoryInv'
<1>1. queue = <<>> /\ UNCHANGED <<stored, saved, runs, queue, world>>
  BY DEF Advise, Defer, Interrupted, SaveFails, Resumed, durable, HistoryInv, QueueInv
<1> QED
  BY <1>1, QuietHistory DEF SameMemory

\* An execution brings rows that are not in the table yet, and queues them all.
LEMMA ExecuteHistory ==
    ASSUME KnowledgeInv, HistoryInv, NEW k \in Keys, Execute(k)
    PROVE  HistoryInv'
<1> DEFINE next == runs[k] + 1
           rows == Batch[k][next]
<1>1. /\ next \in DOMAIN Batch[k] /\ rows \in Seq(Facts)
      /\ runs \in [Keys -> Nat] /\ runs' = [runs EXCEPT ![k] = next]
  <2>1. runs \in [Keys -> Nat] /\ Batch[k] \in Seq(Seq(Facts))
    BY BatchAssumption DEF KnowledgeInv, PhaseInv
  <2>2. next \in 1..Len(Batch[k])
    <3>1. Len(Batch[k]) \in Nat
      BY <2>1, LenProperties
    <3> QED
      BY <2>1, <3>1 DEF Execute
  <2> QED
    BY <2>1, <2>2, ElementOfSeq, LenProperties DEF Execute
<1>2. stored' = stored \o rows /\ queue' = rows /\ queue = <<>> /\ UNCHANGED <<saved, world>>
      /\ phase' = "apply"
  BY DEF Execute, HistoryInv, QueueInv
<1> HIDE DEF rows
<1>3. /\ Len(stored) \in Nat /\ Len(rows) \in Nat
      /\ stored \in Seq(Facts)
      /\ Len(stored') = Len(stored) + Len(rows)
      /\ DOMAIN stored = 1..Len(stored) /\ DOMAIN rows = 1..Len(rows)
      /\ DOMAIN stored' = 1..(Len(stored) + Len(rows))
      /\ \A i \in 1..Len(stored) : stored'[i] = stored[i]
      /\ \A i \in 1..Len(rows) : stored'[Len(stored) + i] = rows[i]
  BY <1>1, <1>2, RowFacts, ConcatProperties, LenProperties
<1>4. ASSUME NEW i \in DOMAIN stored'
      PROVE  \/ i \in DOMAIN stored /\ stored'[i] = stored[i]
             \/ \E m \in DOMAIN rows : i = Len(stored) + m /\ stored'[i] = rows[m]
  <2>1. CASE i <= Len(stored)
    BY <1>3, <2>1
  <2>2. CASE i > Len(stored)
    <3>1. i - Len(stored) \in 1..Len(rows) /\ i = Len(stored) + (i - Len(stored))
      BY <1>3, <2>2
    <3> QED
      BY <1>3, <3>1
  <2> QED
    BY <1>3, <2>1, <2>2
<1>5. ASSUME NEW i \in DOMAIN stored, NEW m \in DOMAIN rows
      PROVE  stored[i] # rows[m]
  <2>0. PICK l \in Keys : \E j \in DOMAIN Batch[l] :
          j <= runs[l] /\ \E n \in DOMAIN Batch[l][j] : stored[i] = Batch[l][j][n]
    BY DEF HistoryInv, StoredInv, Brought
  <2>1. PICK j \in DOMAIN Batch[l] :
          j <= runs[l] /\ \E n \in DOMAIN Batch[l][j] : stored[i] = Batch[l][j][n]
    BY <2>0
  <2>2. CASE l = k
    <3>1. j # next
      BY <1>1, <2>1, <2>2
    <3> QED
      BY <1>1, <2>1, <2>2, <3>1, RowAssumption DEF rows
  <2>3. CASE l # k
    BY <1>1, <2>1, <2>3, RowAssumption DEF rows
  <2> QED
    BY <2>2, <2>3
<1>6. Distinct(stored')
  <2> SUFFICES ASSUME NEW i \in DOMAIN stored', NEW j \in DOMAIN stored', stored'[i] = stored'[j]
               PROVE  i = j
    BY DEF Distinct
  <2>1. CASE i \in DOMAIN stored /\ j \in DOMAIN stored
    BY <1>3, <2>1 DEF HistoryInv, StoredInv, Distinct
  <2>2. CASE i \notin DOMAIN stored /\ j \notin DOMAIN stored
    <3>1. PICK m \in DOMAIN rows : i = Len(stored) + m /\ stored'[i] = rows[m]
      BY <1>4, <2>2
    <3>2. PICK n \in DOMAIN rows : j = Len(stored) + n /\ stored'[j] = rows[n]
      BY <1>4, <2>2
    <3>3. m = n
      BY <1>1, <3>1, <3>2, RowAssumption DEF rows
    <3> QED
      BY <3>1, <3>2, <3>3
  <2> QED
    BY <1>4, <1>5, <2>1, <2>2
<1>7. \A i \in DOMAIN stored' : Brought(stored'[i], runs')
  <2> TAKE i \in DOMAIN stored'
  <2>1. CASE i \in DOMAIN stored /\ stored'[i] = stored[i]
    <3>0. PICK l \in Keys : \E j \in DOMAIN Batch[l] :
            j <= runs[l] /\ \E n \in DOMAIN Batch[l][j] : stored[i] = Batch[l][j][n]
      BY <2>1 DEF HistoryInv, StoredInv, Brought
    <3>1. PICK j \in DOMAIN Batch[l] :
            j <= runs[l] /\ \E n \in DOMAIN Batch[l][j] : stored[i] = Batch[l][j][n]
      BY <3>0
    <3>2. j <= runs'[l]
      <4>1. j \in Nat
        BY BatchAssumption, LenProperties
      <4> QED
        BY <1>1, <3>1, <4>1
    <3> QED
      BY <2>1, <3>1, <3>2 DEF Brought
  <2>2. CASE \E m \in DOMAIN rows : stored'[i] = rows[m]
    <3>1. next <= runs'[k]
      BY <1>1
    <3> QED
      BY <1>1, <2>2, <3>1 DEF Brought, rows
  <2> QED
    BY <1>4, <2>1, <2>2
<1>8. StoredInv'
  BY <1>6, <1>7 DEF StoredInv
<1>9. Behind = Len(stored) /\ Behind' = Len(stored)
  BY <1>2, <1>3, EmptySeq DEF Behind
<1>10. QueueInv'
  BY <1>2, <1>3, <1>9 DEF QueueInv
<1>11. Recalled(stored', world', Behind') /\ Recalled(stored', saved'.world, saved'.last)
  <2>1. saved.last \in 0..Len(stored) /\ Len(stored) \in 0..Len(stored)
    BY <1>3, RowFacts
  <2>2. Recalled(stored, world, Len(stored)) /\ Recalled(stored, saved.world, saved.last)
    BY <1>9 DEF HistoryInv
  <2>3. Recalled(stored \o rows, world, Len(stored)) /\ Recalled(stored \o rows, saved.world, saved.last)
    BY <1>1, <1>3, <2>1, <2>2, RecalledAppended
  <2> QED
    BY <1>2, <1>9, <2>3
<1> QED
  BY <1>2, <1>8, <1>10, <1>11 DEF HistoryInv

\* A row takes its turn: the process has it behind it, whether or not it told anything.
LEMMA ApplyRowHistory ==
    ASSUME KnowledgeInv, HistoryInv, ApplyRow
    PROVE  HistoryInv'
<1> DEFINE e == Head(queue)
           n == Behind
<1>1. /\ e \in Facts /\ e = queue[1] /\ Len(queue) >= 1
      /\ queue' = Tail(queue) /\ queue' \in Seq(Facts) /\ Len(queue') = Len(queue) - 1
      /\ \A i \in 1..Len(queue') : queue'[i] = queue[i + 1]
      /\ UNCHANGED <<stored, saved, runs, phase>>
      /\ phase \in {"apply", "replay"}
  <2>1. queue \in Seq(Facts) /\ queue # <<>>
    BY RowFacts DEF ApplyRow
  <2>2. Len(queue) \in Nat /\ Len(queue) # 0
    BY <2>1, EmptySeq, LenProperties
  <2>3. Len(queue) >= 1
    BY <2>2
  <2> QED
    BY <2>1, <2>3, HeadTailProperties, ElementOfSeq DEF ApplyRow, durable
<1>2. Len(stored) \in Nat /\ Len(queue) \in Nat /\ n = Len(stored) - Len(queue) /\ n \in Nat
  BY RowFacts DEF HistoryInv, QueueInv, Behind
<1>3. /\ Behind' = n + 1 /\ n + 1 \in 1..Len(stored) /\ n \in 0..Len(stored)
      /\ e = stored[n + 1]
  <2>1. Behind' = Len(stored) - (Len(queue) - 1)
    BY <1>1 DEF Behind
  <2>2. queue[1] = stored[n + 1]
    BY <1>1, <1>2 DEF HistoryInv, QueueInv
  <2> HIDE DEF e, n
  <2> QED
    BY <1>1, <1>2, <2>1, <2>2
<1> HIDE DEF e, n
<1>4. QueueInv'
  <2>1. ASSUME NEW i \in 1..Len(queue') PROVE queue'[i] = stored'[Behind' + i]
    <3>1. i + 1 \in 1..Len(queue) /\ n + (i + 1) = (n + 1) + i
      BY <1>1, <1>2
    <3>2. queue[i + 1] = stored[n + (i + 1)]
      BY <3>1 DEF HistoryInv, QueueInv, n
    <3> QED
      BY <1>1, <1>3, <3>1, <3>2
  <2> QED
    BY <1>1, <1>2, <1>3, <2>1 DEF QueueInv
<1>5. StoredInv'
  BY <1>1 DEF HistoryInv, StoredInv
<1>6. /\ Sourced(world') /\ LearnedBy(world') \subseteq world'.applied
      /\ Recalled(stored, world', n + 1)
  <2>1. stored \in Seq(Facts) /\ Distinct(stored) /\ world \in Worlds /\ WorldInv(world) /\ Unclaimed(world)
    BY RowFacts DEF HistoryInv, StoredInv
  <2>2. /\ Recalled(stored, world, n) /\ Sourced(world)
        /\ LearnedBy(world) \subseteq world.applied
    BY DEF HistoryInv, n
  <2>3. Recalled(stored, world, n + 1)
    <3>1. n + 1 \in n..Len(stored)
      BY <1>2, <1>3
    <3> QED
      BY <1>3, <2>1, <2>2, <3>1, RecalledLonger
  <2>4. PICK gated \in BOOLEAN : world' = Learn(world, e, gated)
    BY DEF ApplyRow, e
  <2>5. CASE world' = world
    BY <2>2, <2>3, <2>5
  <2>6. CASE SameMemory(world, world') /\ world'.applied = world.applied \cup {e}
    BY <2>2, <2>3, <2>6, SameMemoryKeeps
  <2>7. CASE /\ world'.claims = MergedClaims(world, e)
             /\ world'.value = Shown(world, e)
             /\ Present(world') \subseteq Present(world) \cup Chain(e)
             /\ world'.applied = world.applied \cup {e}
    <3>1. LearnedBy(world') = LearnedBy(world) \cup {e}
      BY <1>1, <2>1, <2>7, LearnedAfterMerging
    <3>2. Sourced(world')
      BY <1>1, <2>1, <2>2, <2>7, SourcedNext
    <3>3. Recalled(stored, world', n + 1)
      BY <1>3, <2>1, <2>2, <2>7, RecalledNext
    <3> QED
      BY <2>2, <2>7, <3>1, <3>2, <3>3
  <2> QED
    BY <1>1, <2>1, <2>4, <2>5, <2>6, <2>7, LearnEffect
<1> QED
  BY <1>1, <1>3, <1>4, <1>5, <1>6 DEF HistoryInv

\* The last row applied lies at or behind every row the world has learned, so a snapshot
\* names all it holds.
LEMMA LastAppliedCovers ==
    ASSUME stored \in Seq(Facts), NEW j \in DOMAIN stored, stored[j] \in world.applied
    PROVE  j <= LastApplied
<1> DEFINE P == {i \in DOMAIN stored : \E m \in i..Len(stored) : stored[m] \in world.applied}
<1>1. DOMAIN stored = 1..Len(stored) /\ Len(stored) \in Nat
  BY LenProperties
<1>2. 1..j \subseteq P
  <2>1. \A i \in 1..j : i \in DOMAIN stored /\ j \in i..Len(stored)
    BY <1>1
  <2> QED
    BY <2>1
<1>3. P \subseteq 1..Len(stored)
  BY <1>1
<1> HIDE DEF P
<1>4. IsFiniteSet(P)
  <2>1. IsFiniteSet(1..Len(stored))
    BY <1>1, FS_Interval
  <2> QED
    BY <1>3, <2>1, FS_Subset
<1>5. Cardinality(1..j) <= Cardinality(P)
  BY <1>2, <1>4, FS_Subset
<1>6. Cardinality(1..j) = j
  BY <1>1, FS_Interval
<1>7. Cardinality(P) = LastApplied
  BY DEF P, LastApplied
<1> QED
  BY <1>5, <1>6, <1>7

LEMMA SaveHistory ==
    ASSUME KnowledgeInv, HistoryInv, Save
    PROVE  HistoryInv'
<1>1. /\ queue = <<>> /\ UNCHANGED <<stored, runs, queue, world>>
      /\ \/ saved' = [world |-> world, last |-> LastApplied, exists |-> TRUE]
         \/ saved' = saved
  BY DEF Save, HistoryInv, QueueInv
<1>2. StoredInv' /\ QueueInv' /\ Behind' = Behind /\ Behind = Len(stored)
  BY <1>1, RowFacts, EmptySeq DEF HistoryInv, StoredInv, QueueInv, Behind
<1>3. stored \in Seq(Facts) /\ Distinct(stored) /\ Len(stored) \in Nat /\ LastApplied \in 0..Len(stored)
      /\ DOMAIN stored = 1..Len(stored)
  BY RowFacts, LastAppliedType, LenProperties DEF HistoryInv, StoredInv
<1>4. Recalled(stored, world, Len(stored)) /\ LearnedBy(world) \subseteq world.applied
  BY <1>2 DEF HistoryInv
<1>5. LearnedBy(world) \subseteq {stored[i] : i \in 1..LastApplied}
  <2> SUFFICES ASSUME NEW e \in LearnedBy(world)
               PROVE  e \in {stored[i] : i \in 1..LastApplied}
    OBVIOUS
  <2>1. PICK i \in 1..Len(stored) : e = stored[i]
    BY <1>4 DEF Recalled
  <2>2. i <= LastApplied
    BY <1>3, <1>4, <2>1, LastAppliedCovers
  <2> QED
    BY <1>3, <2>1, <2>2
<1>6. Recalled(stored, world, LastApplied)
  <2>1. Len(stored) \in 0..Len(stored) /\ LearnedBy(world) \subseteq {stored[i] : i \in 1..Len(stored)}
    BY <1>3, <1>4 DEF Recalled
  <2> QED
    BY <1>3, <1>4, <1>5, <2>1, RecalledElsewhere
<1>7. Sourced(saved'.world) /\ Recalled(stored, saved'.world, saved'.last)
  BY <1>1, <1>6 DEF HistoryInv
<1> QED
  BY <1>1, <1>2, <1>7 DEF HistoryInv

LEMMA CrashHistory ==
    ASSUME KnowledgeInv, HistoryInv, Crash
    PROVE  HistoryInv'
<1>1. queue' = <<>> /\ world' = BlankWorld /\ UNCHANGED <<stored, saved, runs>>
  BY DEF Crash, durable
<1>2. StoredInv' /\ QueueInv' /\ Behind' = Len(stored)
  BY <1>1, RowFacts, EmptySeq DEF HistoryInv, StoredInv, QueueInv, Behind
<1>3. LearnedBy(BlankWorld) = {} /\ Recalled(stored, BlankWorld, Len(stored))
  <2>1. stored \in Seq(Facts) /\ Len(stored) \in 0..Len(stored)
    BY RowFacts
  <2> QED
    BY <2>1, RecalledNothing
<1> QED
  BY <1>1, <1>2, <1>3, BlankSourced DEF HistoryInv

\* A process goes on from the last snapshot, or from the first row.
LEMMA RestartHistory ==
    ASSUME KnowledgeInv, HistoryInv, Restart
    PROVE  HistoryInv'
<1>1. UNCHANGED <<stored, saved, runs>> /\ phase' = "replay"
  BY DEF Restart, durable
<1>2. StoredInv'
  BY <1>1 DEF HistoryInv, StoredInv
<1>3. stored \in Seq(Facts) /\ Len(stored) \in Nat /\ saved.last \in 0..Len(stored) /\ Distinct(stored)
  BY RowFacts DEF HistoryInv, StoredInv
<1>4. CASE Rebuild
  <2>1. world' = SeededWorld /\ queue' = stored
    BY <1>4 DEF Rebuild
  <2>2. Behind' = 0
    BY <1>1, <1>3, <2>1 DEF Behind
  <2>3. QueueInv'
    <3>1. \A i \in 1..Len(stored) : 0 + i = i
      BY <1>3
    <3> QED
      BY <1>1, <2>1, <2>2, <3>1 DEF QueueInv
  <2>4. LearnedBy(SeededWorld) = {} /\ Recalled(stored, SeededWorld, 0)
    <3>1. 0 \in 0..Len(stored)
      BY <1>3
    <3> QED
      BY <1>3, <3>1, BlankSourced, RecalledNothing
  <2> QED
    BY <1>1, <1>2, <2>1, <2>2, <2>3, <2>4, BlankSourced DEF HistoryInv
<1>5. CASE Hydrate
  <2> DEFINE known == IF saved.last = 0 THEN Len(stored) ELSE saved.last
             rows == {stored[i] : i \in 1..known}
  <2>1. world' = [saved.world EXCEPT !.applied = rows] /\ queue' = SubSeq(stored, known + 1, Len(stored))
    BY <1>5 DEF Hydrate
  <2>2. known \in 0..Len(stored) /\ known \in saved.last..Len(stored)
    BY <1>3
  <2> HIDE DEF known
  <2>3. Len(queue') = Len(stored) - known
        /\ \A i \in 1..Len(queue') : queue'[i] = stored[known + i]
    <3>1. \A i \in (known + 1)..Len(stored) : stored[i] \in Facts
      BY <1>3, <2>2, ElementOfSeq
    <3>2. /\ Len(queue') = IF known + 1 <= Len(stored) THEN Len(stored) - (known + 1) + 1 ELSE 0
          /\ \A i \in 1..(Len(stored) - (known + 1) + 1) : queue'[i] = stored[(known + 1) + i - 1]
      BY <1>3, <2>1, <2>2, <3>1, SubSeqProperties
    <3>3. Len(queue') = Len(stored) - known
      BY <1>3, <2>2, <3>2
    <3>4. ASSUME NEW i \in 1..Len(queue') PROVE queue'[i] = stored[known + i]
      <4>1. i \in 1..(Len(stored) - (known + 1) + 1) /\ (known + 1) + i - 1 = known + i
        BY <1>3, <2>2, <3>3
      <4> QED
        BY <3>2, <4>1
    <3> QED
      BY <3>3, <3>4
  <2>4. Behind' = known
    BY <1>1, <1>3, <2>2, <2>3 DEF Behind
  <2>5. QueueInv'
    BY <1>1, <2>2, <2>3, <2>4 DEF QueueInv
  <2>6. SameMemory(saved.world, world') /\ world'.applied = rows
    <3>1. saved.world \in Worlds
      BY RowFacts
    <3> HIDE DEF rows
    <3> QED
      BY <2>1, <3>1 DEF Worlds, SameMemory
  <2>7. Recalled(stored, saved.world, known)
    BY <1>3, <2>2, RecalledLonger DEF HistoryInv
  <2>8. Recalled(stored, world', known) /\ Sourced(world') /\ LearnedBy(world') = LearnedBy(saved.world)
    BY <2>6, <2>7, SameMemoryKeeps DEF HistoryInv
  <2>9. LearnedBy(world') \subseteq world'.applied
    BY <2>6, <2>8 DEF Recalled
  <2> QED
    BY <1>1, <1>2, <2>4, <2>5, <2>8, <2>9 DEF HistoryInv
<1> QED
  BY <1>4, <1>5 DEF Restart

\* A process whose resume fails has every row behind it and learned none.
LEMMA ResumeFailsHistory ==
    ASSUME KnowledgeInv, HistoryInv, ResumeFails
    PROVE  HistoryInv'
<1>1. queue = <<>> /\ world' = SeededWorld /\ UNCHANGED <<stored, saved, runs, queue>>
  BY DEF ResumeFails, durable, HistoryInv, QueueInv
<1>2. StoredInv' /\ QueueInv' /\ Behind' = Len(stored)
  BY <1>1, RowFacts, EmptySeq DEF HistoryInv, StoredInv, QueueInv, Behind
<1>3. LearnedBy(SeededWorld) = {} /\ Recalled(stored, SeededWorld, Len(stored))
  <2>1. stored \in Seq(Facts) /\ Len(stored) \in 0..Len(stored)
    BY RowFacts
  <2> QED
    BY <2>1, BlankSourced, RecalledNothing
<1> QED
  BY <1>1, <1>2, <1>3, BlankSourced DEF HistoryInv

LEMMA HistoryNext == KnowledgeInv /\ HistoryInv /\ [Next]_vars => HistoryInv'
<1> SUFFICES ASSUME KnowledgeInv, HistoryInv, [Next]_vars PROVE HistoryInv'
  OBVIOUS
<1>1. CASE Next
  BY <1>1, DeliberateHistory, CoverageHistory, IdleHistory, ExecuteHistory, ApplyRowHistory,
     SaveHistory, CrashHistory, RestartHistory, ResumeFailsHistory DEF Next
<1>2. CASE UNCHANGED vars
  <2>1. UNCHANGED <<stored, saved, runs, queue, world, phase>>
    BY <1>2 DEF vars, durable, memory, bounds
  <2> QED
    BY <2>1, QuietHistory DEF HistoryInv, QueueInv, SameMemory
<1> QED
  BY <1>1, <1>2

\* Rows, beliefs and snapshots agree in every state, before and after every crash, failed
\* save and restart.
THEOREM HistoryHolds == Spec => [](KnowledgeInv /\ HistoryInv)
<1>1. Init => KnowledgeInv /\ HistoryInv
  BY InitInv, HistoryInit
<1>2. KnowledgeInv /\ HistoryInv /\ [Next]_vars => KnowledgeInv' /\ HistoryInv'
  BY NextInv, HistoryNext
<1> QED
  BY <1>1, <1>2, PTL DEF Spec

--------------------------------------------------------------------------------
(***************************************************************************)
(* What the rows explain                                                   *)
(***************************************************************************)
\* A process that is up believes what the rows it has learned say in the order of the
\* table, also in the middle of a batch and after any number of failed saves and restarts
\* (storage/sqlite.py resume_world).
THEOREM BeliefsAreReplayed == Spec => []ReplayAgrees
<1>1. KnowledgeInv /\ HistoryInv => ReplayAgrees
  <2> SUFFICES ASSUME KnowledgeInv, HistoryInv
               PROVE  /\ world.claims = Replay(stored, Learned)[Len(stored)].claims
                      /\ world.value = Replay(stored, Learned)[Len(stored)].value
    BY DEF ReplayAgrees
  <2>1. /\ stored \in Seq(Facts) /\ Distinct(stored) /\ Len(stored) \in Nat /\ Len(queue) \in Nat
        /\ Behind \in Nat /\ Behind = Len(stored) - Len(queue) /\ Recalled(stored, world, Behind)
    BY RowFacts DEF HistoryInv, StoredInv, QueueInv, Behind
  <2>2. Behind \in 0..Len(stored) /\ Len(stored) \in Behind..Len(stored)
    BY <2>1
  <2>3. Recalled(stored, world, Len(stored))
    BY <2>1, <2>2, RecalledLonger
  <2> QED
    BY <2>3 DEF Recalled, Learned
<1> QED
  BY <1>1, HistoryHolds, PTL

\* The same of every snapshot: it holds what the rows up to the one it names say and
\* nothing that comes later (storage/sqlite.py persist_world).
THEOREM SnapshotsAreReplayed == Spec => []SnapshotsNameTheirRows
<1>1. HistoryInv => SnapshotsNameTheirRows
  BY DEF HistoryInv, Recalled, SnapshotsNameTheirRows
<1> QED
  BY <1>1, HistoryHolds, PTL

\* A key in the line of another has its own parent in it.
LEMMA LineIsClosed ==
    ASSUME NEW a \in Assets, NEW b \in Line(a), ParentOf[b] # NoAsset
    PROVE  ParentOf[b] \in Line(a)
<1>1. ParentOf[b] \in Parents(Line(a))
  BY DEF Parents
<1> QED
  BY <1>1, NestingAssumption

\* The line of a host is the host itself.
LEMMA LineOfHost ==
    ASSUME NEW a \in Assets, KindOf[a] = "host"
    PROVE  Line(a) = {a}
<1>1. Parents({a}) = {a}
  BY NestingAssumption DEF Parents
<1> QED
  BY <1>1 DEF Line

\* A claim that is believed holds a row about its subject.
LEMMA ClaimHasRow ==
    ASSUME NEW w, Sourced(w), w \in Worlds, NEW a, NEW p, HasClaim(w, a, p)
    PROVE  \E e \in LearnedBy(w) : Fact[e].subject = a
<1>1. PICK t \in Triples : t[1] = a /\ w.claims[t].evidence # {}
  BY DEF HasClaim, Believed, Exists
<1>2. PICK e \in Facts : e \in w.claims[t].evidence
  BY <1>1 DEF Worlds, ClaimSet
<1>3. Fact[e].subject = a
  BY <1>1, <1>2 DEF Sourced, Triple
<1> QED
  BY <1>2, <1>3 DEF LearnedBy

\* The port question of a host is closed by a row that names a port or a service there, or
\* on a host whose key begins with the same text.
LEMMA PortsAnswered ==
    ASSUME KnowledgeInv, HistoryInv, phase # "down",
           NEW h \in OfKind(world, "host") \ (world.barred \cup world.alias),
           world.gaps[<<"host.ports_unknown", h>>] = "closed"
    PROVE  \E e \in Learned : \E g \in Line(Fact[e].subject) :
               g # Fact[e].subject /\ (g = h \/ <<h, g>> \in Spelled)
<1> DEFINE q == <<"host.ports_unknown", h>>
<1>1. /\ world \in Worlds /\ Sourced(world) /\ GapsCurrent(world)
      /\ h \in Assets /\ KindOf[h] = "host" /\ Learned = LearnedBy(world)
  BY RowFacts DEF KnowledgeInv, MemoryInv, Revised, HistoryInv, OfKind, Present, Learned
<1>2. h \notin PortsUnknown(world)
  <2>1. q \in Questions
    BY <1>1 DEF Questions, GapKinds
  <2>2. q \notin Desired(world)
    <3>1. world.gaps[q] # "open"
      OBVIOUS
    <3> HIDE DEF q
    <3> QED
      BY <1>1, <2>1, <3>1 DEF GapsCurrent
  <2> QED
    BY <2>2 DEF Desired
<1>3. h \in AskedHosts(world)
  BY DEF AskedHosts
<1>4. CASE Children(world, h, "port") # {}
  <2>1. PICK p \in Assets : p \in Present(world) /\ KindOf[p] = "port" /\ ParentOf[p] = h
    BY <1>4 DEF Children, OfKind, Present
  <2>2. p \notin Seeds
    BY <2>1, NestingAssumption
  <2>3. PICK e \in LearnedBy(world) : p \in Chain(e)
    BY <1>1, <2>1, <2>2 DEF Sourced
  <2>4. Fact[e].subject \in Assets
    BY FactAssumption DEF LearnedBy
  <2>5. p \in Line(Fact[e].subject)
    BY <2>1, <2>3 DEF Chain, Extras
  <2>6. h # NoAsset
    BY <2>1, NestingAssumption
  <2>7. h \in Line(Fact[e].subject)
    BY <2>1, <2>4, <2>5, <2>6, LineIsClosed
  <2>8. h # Fact[e].subject
    BY <1>1, <2>1, <2>4, <2>5, LineOfHost
  <2> QED
    BY <1>1, <2>7, <2>8
<1>5. CASE \E p \in OfKind(world, "port") : SpeaksForHost(world, h, p) /\ HasClaim(world, p, "port.state")
  <2>1. PICK p \in Assets : /\ KindOf[p] = "port"
                            /\ SpeaksForHost(world, h, p) /\ HasClaim(world, p, "port.state")
    BY <1>5 DEF OfKind, Present
  <2>2. PICK e \in LearnedBy(world) : Fact[e].subject = p
    BY <1>1, <2>1, ClaimHasRow
  <2>3. ParentOf[p] \in Line(p) /\ ParentOf[p] # p
    <3>1. p \in Line(p)
      BY DEF Line, Parents
    <3>2. ParentOf[p] # NoAsset /\ KindOf[ParentOf[p]] = "host"
      BY <2>1, NestingAssumption
    <3> QED
      BY <2>1, <3>1, <3>2, LineIsClosed
  <2>4. ParentOf[p] = h \/ <<h, ParentOf[p]>> \in Spelled
    BY <2>1 DEF SpeaksForHost
  <2> QED
    BY <1>1, <2>2, <2>3, <2>4
<1> QED
  BY <1>2, <1>3, <1>4, <1>5 DEF PortsUnknown

\* The question of probing a service is closed by a row about a URL that is served there.
LEMMA ProbeAnswered ==
    ASSUME KnowledgeInv, HistoryInv, phase # "down", NEW s \in AskedServices(world),
           world.gaps[<<"service.http_unprobed", s>>] = "closed"
    PROVE  \E e \in Learned : /\ KindOf[Fact[e].subject] = "url"
                              /\ SiteOf[Fact[e].subject] = ParentOf[s]
<1> DEFINE q == <<"service.http_unprobed", s>>
<1>1. /\ world \in Worlds /\ Sourced(world) /\ GapsCurrent(world)
      /\ s \in Assets /\ Learned = LearnedBy(world)
  BY RowFacts DEF KnowledgeInv, MemoryInv, Revised, HistoryInv, AskedServices, OfKind, Present, Learned
<1>2. s \notin Unprobed(world)
  <2>1. q \in Questions
    BY <1>1 DEF Questions, GapKinds
  <2>2. q \notin Desired(world)
    <3>1. world.gaps[q] # "open"
      OBVIOUS
    <3> HIDE DEF q
    <3> QED
      BY <1>1, <2>1, <3>1 DEF GapsCurrent
  <2> QED
    BY <2>2 DEF Desired
<1>3. PICK u \in OfKind(world, "url") :
        SiteOf[u] = ParentOf[s] /\ (HasClaim(world, u, "http.status") \/ HasClaim(world, u, "url.seen"))
  BY <1>2 DEF Unprobed
<1>4. PICK e \in LearnedBy(world) : Fact[e].subject = u
  BY <1>1, <1>3, ClaimHasRow
<1> QED
  BY <1>1, <1>3, <1>4 DEF OfKind

\* Nothing but a row that answers it closes a question about a host's ports or a service's
\* pages (world/gaps.py).
THEOREM ClosedByAnswers == Spec => []QuestionsAreAnswered
<1>1. KnowledgeInv /\ HistoryInv => QuestionsAreAnswered
  BY PortsAnswered, ProbeAnswered DEF QuestionsAreAnswered
<1> QED
  BY <1>1, HistoryHolds, PTL

--------------------------------------------------------------------------------
(***************************************************************************)
(* The log that is read                                                    *)
(***************************************************************************)
LEMMA MindOfBlank ==
    ASSUME NEW w, w.claims = BlankWorld.claims, w.value = BlankWorld.value
    PROVE  Mind(w) = Log!Blank
<1>1. LearnedBy(w) = {}
  BY DEF LearnedBy, BlankWorld, NoClaim
<1> QED
  BY <1>1 DEF Mind, Log!Blank, Nothing

\* What changes neither rows nor beliefs is no step of the log.
LEMMA LogStutters ==
    ASSUME UNCHANGED <<stored, saved>>, SameMemory(world, world'),
           phase = "down" <=> phase' = "down"
    PROVE  UNCHANGED Log!logVars
<1>1. LearnedBy(world') = LearnedBy(world)
  BY SameMemoryKeeps
<1>2. Mind(world)' = Mind(world) /\ Mind(saved.world)' = Mind(saved.world)
  BY <1>1 DEF Mind, SameMemory
<1>3. (phase # "down")' = (phase # "down")
  OBVIOUS
<1> QED
  BY <1>2, <1>3 DEF Log!logVars

LEMMA ExecuteStores ==
    ASSUME KnowledgeInv, HistoryInv, NEW k \in Keys, Execute(k)
    PROVE  Log!Store
<1> DEFINE rows == Batch[k][runs[k] + 1]
<1>1. rows \in Seq(Facts)
  <2>1. runs[k] \in Nat /\ Batch[k] \in Seq(Seq(Facts))
    BY BatchAssumption DEF KnowledgeInv, PhaseInv
  <2>2. runs[k] + 1 \in 1..Len(Batch[k])
    <3>1. Len(Batch[k]) \in Nat
      BY <2>1, LenProperties
    <3> QED
      BY <2>1, <3>1 DEF Execute
  <2> QED
    BY <2>1, <2>2, ElementOfSeq
<1>2. stored' = stored \o rows /\ UNCHANGED <<world, saved>> /\ phase = "act" /\ phase' = "apply"
  BY DEF Execute
<1> HIDE DEF rows
<1>3. /\ stored \in Seq(Facts) /\ stored' \in Seq(Facts)
      /\ Len(stored) \in Nat /\ Len(stored') = Len(stored) + Len(rows) /\ Len(rows) \in Nat
      /\ DOMAIN stored = 1..Len(stored) /\ DOMAIN stored' = 1..Len(stored')
      /\ \A i \in 1..Len(stored) : stored'[i] = stored[i]
  BY <1>1, <1>2, RowFacts, ConcatProperties, LenProperties
<1>4. DOMAIN stored \subseteq DOMAIN stored' /\ \A i \in DOMAIN stored : stored'[i] = stored[i]
  BY <1>3
<1>5. ASSUME NEW w, LearnedBy(w) \subseteq {stored[i] : i \in DOMAIN stored}
      PROVE  {i \in DOMAIN stored' : stored'[i] \in LearnedBy(w)}
             = {i \in DOMAIN stored : stored[i] \in LearnedBy(w)}
  <2>1. Distinct(stored')
    BY ExecuteHistory DEF HistoryInv, StoredInv
  <2> QED
    BY <1>4, <1>5, <2>1 DEF Distinct
<1>6. LearnedBy(world) \subseteq {stored[i] : i \in DOMAIN stored}
  <2>1. 1..Behind \subseteq DOMAIN stored
    BY <1>3, RowFacts DEF HistoryInv, QueueInv, Behind
  <2> QED
    BY <2>1 DEF HistoryInv, Recalled
<1>7. LearnedBy(saved.world) \subseteq {stored[i] : i \in DOMAIN stored}
  <2>1. 1..saved.last \subseteq DOMAIN stored
    BY <1>3, RowFacts
  <2> QED
    BY <2>1 DEF HistoryInv, Recalled
<1>8. Mind(world)' = Mind(world) /\ Mind(saved.world)' = Mind(saved.world)
  <2>1. {i \in DOMAIN stored' : stored'[i] \in LearnedBy(world)}
        = {i \in DOMAIN stored : stored[i] \in LearnedBy(world)}
    BY <1>5, <1>6
  <2>2. {i \in DOMAIN stored' : stored'[i] \in LearnedBy(saved.world)}
        = {i \in DOMAIN stored : stored[i] \in LearnedBy(saved.world)}
    BY <1>5, <1>7
  <2> QED
    BY <1>2, <2>1, <2>2 DEF Mind
<1> QED
  BY <1>2, <1>4, <1>8 DEF Log!Store

LEMMA ApplyRowReads ==
    ASSUME KnowledgeInv, HistoryInv, ApplyRow
    PROVE  Log!Read \/ UNCHANGED Log!logVars
<1> DEFINE e == Head(queue)
           n == Behind + 1
<1>1. /\ queue \in Seq(Facts) /\ queue # <<>> /\ Len(queue) \in Nat /\ Len(queue) >= 1
      /\ e = queue[1] /\ e \in Facts
  <2>1. queue \in Seq(Facts) /\ queue # <<>> /\ Len(queue) \in Nat
    BY RowFacts DEF ApplyRow
  <2>2. Len(queue) # 0
    BY <2>1, EmptySeq
  <2>3. Len(queue) >= 1
    BY <2>1, <2>2
  <2> QED
    BY <2>1, <2>3, HeadTailProperties, ElementOfSeq
<1>2. /\ Behind \in Nat /\ n \in DOMAIN stored /\ e = stored[n]
      /\ stored \in Seq(Facts) /\ Distinct(stored)
  <2>1. Len(stored) \in Nat /\ DOMAIN stored = 1..Len(stored) /\ stored \in Seq(Facts)
    BY RowFacts, LenProperties
  <2>2. Behind \in Nat /\ Behind = Len(stored) - Len(queue) /\ queue[1] = stored[Behind + 1]
    BY <1>1 DEF HistoryInv, QueueInv, Behind
  <2> QED
    BY <1>1, <2>1, <2>2 DEF HistoryInv, StoredInv
<1> HIDE DEF e, n
<1>3. UNCHANGED <<stored, saved, phase>> /\ phase # "down"
  BY DEF ApplyRow, durable
<1>4. world \in Worlds /\ WorldInv(world) /\ Unclaimed(world)
  BY RowFacts
<1>5. PICK gated \in BOOLEAN : world' = Learn(world, e, gated)
  BY DEF ApplyRow, e
<1>6. CASE world' = world \/ SameMemory(world, world')
  BY <1>3, <1>6, LogStutters DEF SameMemory
<1>7. CASE world'.claims = MergedClaims(world, e) /\ world'.value = Shown(world, e)
  <2>1. LearnedBy(world') = LearnedBy(world) \cup {e}
    BY <1>1, <1>4, <1>7, LearnedAfterMerging
  <2>2. Mind(world).known = {i \in DOMAIN stored : stored[i] \in LearnedBy(world)}
    BY DEF Mind
  <2>3. \A j \in Mind(world).known : j < n
    <3>1. LearnedBy(world) \subseteq {stored[i] : i \in 1..Behind}
      BY DEF HistoryInv, Recalled
    <3>2. 1..Behind \subseteq DOMAIN stored
      BY <1>2, LenProperties DEF n
    <3>3. \A j \in Mind(world).known : j \in 1..Behind
      BY <1>2, <2>2, <3>1, <3>2 DEF Distinct
    <3> QED
      BY <1>2, <3>3 DEF n
  <2>4. {i \in DOMAIN stored : stored[i] \in LearnedBy(world')} = Mind(world).known \cup {n}
    BY <1>2, <2>1, <2>2 DEF Distinct
  <2>5. [claims |-> world'.claims, value |-> world'.value] = Told(Mind(world).belief, stored[n])
    <3>1. Mind(world).belief.claims = world.claims /\ Mind(world).belief.value = world.value
      BY DEF Mind
    <3>2. /\ MergedClaims(Mind(world).belief, e) = MergedClaims(world, e)
          /\ Shown(Mind(world).belief, e) = Shown(world, e)
      BY <3>1 DEF MergedClaims, SupportedClaim, NewClaim, Shown
    <3> QED
      BY <1>2, <1>7, <3>2 DEF Told
  <2>6. Mind(world)' = [known |-> Mind(world).known \cup {n}, belief |-> Told(Mind(world).belief, stored[n])]
    BY <1>3, <2>4, <2>5 DEF Mind
  <2>7. Mind(saved.world)' = Mind(saved.world) /\ (phase # "down")' = (phase # "down")
    BY <1>3 DEF Mind
  <2> QED
    BY <1>2, <1>3, <2>3, <2>6, <2>7 DEF Log!Read
<1> QED
  BY <1>1, <1>4, <1>5, <1>6, <1>7, LearnEffect

LEMMA SaveKeeps ==
    ASSUME Save
    PROVE  Log!Keep \/ UNCHANGED Log!logVars
<1>1. UNCHANGED <<stored, world>> /\ phase = "save" /\ phase' = "deliberate"
  BY DEF Save
<1>2. CASE saved' = saved
  BY <1>1, <1>2, LogStutters DEF SameMemory
<1>3. CASE saved' = [world |-> world, last |-> LastApplied, exists |-> TRUE]
  <2>1. Mind(world)' = Mind(world) /\ Mind(saved.world)' = Mind(world)
    BY <1>1, <1>3 DEF Mind
  <2> QED
    BY <1>1, <2>1 DEF Log!Keep
<1> QED
  BY <1>2, <1>3 DEF Save

LEMMA CrashEnds ==
    ASSUME Crash
    PROVE  Log!End
<1>1. UNCHANGED <<stored, saved>> /\ world' = BlankWorld /\ phase # "down" /\ phase' = "down"
  BY DEF Crash, durable
<1>2. Mind(saved.world)' = Mind(saved.world)
  BY <1>1 DEF Mind
<1>3. Mind(world)' = Log!Blank
  <2>1. LearnedBy(world') = {}
    BY <1>1 DEF LearnedBy, BlankWorld, NoClaim
  <2> QED
    BY <1>1, <2>1 DEF Mind, Log!Blank, Nothing
<1> QED
  BY <1>1, <1>2, <1>3 DEF Log!End

LEMMA ResumeBegins ==
    ASSUME KnowledgeInv, HistoryInv, Restart \/ ResumeFails
    PROVE  Log!Begin
<1>1. UNCHANGED <<stored, saved>> /\ phase = "down" /\ phase' # "down"
  BY DEF Restart, ResumeFails, durable
<1>2. Mind(saved.world)' = Mind(saved.world)
  BY <1>1 DEF Mind
<1>3. CASE world' = SeededWorld
  <2>1. world'.claims = BlankWorld.claims /\ world'.value = BlankWorld.value
    BY <1>3, BlankSourced
  <2>2. LearnedBy(world') = {}
    BY <2>1 DEF LearnedBy, BlankWorld, NoClaim
  <2>3. Mind(world)' = Log!Blank
    BY <2>1, <2>2 DEF Mind, Log!Blank, Nothing
  <2> QED
    BY <1>1, <1>2, <2>3 DEF Log!Begin
<1>4. CASE Hydrate
  <2>1. PICK rows : world' = [saved.world EXCEPT !.applied = rows]
    BY <1>4 DEF Hydrate
  <2>2. SameMemory(saved.world, world')
    BY <2>1, RowFacts DEF Worlds, SameMemory
  <2>3. LearnedBy(world') = LearnedBy(saved.world)
    BY <2>2, SameMemoryKeeps
  <2>4. Mind(world)' = Mind(saved.world)
    BY <1>1, <2>2, <2>3 DEF Mind, SameMemory
  <2> QED
    BY <1>1, <1>2, <2>4 DEF Log!Begin
<1> QED
  BY <1>3, <1>4 DEF Restart, Rebuild, ResumeFails

\* The knowledge base implements the log: of all a cycle, a crash and a resume do, only
\* storing, reading, keeping, ending and beginning show, and each as the log allows it.
THEOREM KnowledgeReadsTheLog == Spec => LogIsRead
<1>1. Init => Log!LogInit
  <2> SUFFICES ASSUME Init PROVE Log!LogInit
    OBVIOUS
  <2>1. stored = <<>> /\ world = SeededWorld /\ saved.world = BlankWorld /\ phase # "down"
    BY DEF Init, NoSave
  <2>2. Mind(world) = Log!Blank /\ Mind(saved.world) = Log!Blank
    BY <2>1, BlankSourced, MindOfBlank
  <2> QED
    BY <2>1, <2>2 DEF Log!LogInit
<1>2. KnowledgeInv /\ HistoryInv /\ [Next]_vars => [Log!LogNext]_(Log!logVars)
  <2> SUFFICES ASSUME KnowledgeInv, HistoryInv, [Next]_vars
               PROVE  Log!LogNext \/ UNCHANGED Log!logVars
    OBVIOUS
  <2>1. CASE Deliberate
    <3>1. UNCHANGED <<stored, saved>> /\ phase = "deliberate" /\ phase' = "act"
          /\ \E f, D : world' = Deliberated(world, f, D)
      BY <2>1 DEF Deliberate
    <3>2. SameMemory(world, world')
      BY <3>1, RowFacts, SameMemoryDeliberated
    <3> QED
      BY <3>1, <3>2, LogStutters
  <2>2. CASE Record \/ \E k \in Keys : Fail(k)
    <3>1. PICK k \in Keys, st \in {"failed", "completed"} : world' = Covered(world, k, st)
      BY <2>2 DEF Record, Fail, KnowledgeInv, PhaseInv
    <3>2. SameMemory(world, world')
      BY <3>1, RowFacts, SameMemoryCovered
    <3>3. UNCHANGED <<stored, saved>> /\ phase # "down" /\ phase' = "save"
      BY <2>2 DEF Record, Fail, durable
    <3> QED
      BY <3>2, <3>3, LogStutters
  <2>3. CASE Advise \/ Defer \/ Interrupted \/ SaveFails \/ Resumed
    <3>1. UNCHANGED <<stored, saved, world>> /\ phase # "down" /\ phase' # "down"
      BY <2>3 DEF Advise, Defer, Interrupted, SaveFails, Resumed, durable
    <3> QED
      BY <3>1, LogStutters DEF SameMemory
  <2>4. CASE UNCHANGED vars
    <3>1. UNCHANGED <<stored, saved, world, phase>>
      BY <2>4 DEF vars, durable, memory, bounds
    <3> QED
      BY <3>1, LogStutters DEF SameMemory
  <2>5. CASE \E k \in Keys : Execute(k)
    BY <2>5, ExecuteStores DEF Log!LogNext
  <2>6. CASE ApplyRow
    BY <2>6, ApplyRowReads DEF Log!LogNext
  <2>7. CASE Save
    BY <2>7, SaveKeeps DEF Log!LogNext
  <2>8. CASE Crash
    BY <2>8, CrashEnds DEF Log!LogNext
  <2>9. CASE Restart \/ ResumeFails
    BY <2>9, ResumeBegins DEF Log!LogNext
  <2> QED
    BY <2>1, <2>2, <2>3, <2>4, <2>5, <2>6, <2>7, <2>8, <2>9 DEF Next
<1> QED
  BY <1>1, <1>2, HistoryHolds, PTL DEF Spec, LogIsRead, Log!LogSpec

================================================================================
