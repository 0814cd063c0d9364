------------------------ MODULE TargetLocatorProofs ------------------------
(***************************************************************************)
(* Theorems of TargetLocator, for every set of addresses, every scope that *)
(* allows the first address, every cap and storage that fails or not.      *)
(***************************************************************************)
EXTENDS TargetLocator, TLAPS

(***************************************************************************)
(* What the operations on a history do, for any history of entries.        *)
(***************************************************************************)

\* No address has two entries.
Distinct(h) ==
    \A i, j \in DOMAIN h : h[i].locator = h[j].locator => i = j

\* Longer or equal, with the same addresses in the same places.
Extends(g, h) ==
    /\ Len(h) <= Len(g)
    /\ \A i \in DOMAIN h : g[i].locator = h[i].locator

\* Address c has an entry, current or unreachable; no other is current.
Leads(h, c) ==
    /\ c \in Known(h)
    /\ \A i \in DOMAIN h :
          /\ h[i].status = "current" => h[i].locator = c
          /\ h[i].locator = c => h[i].status \in {"current", "unreachable"}

\* Observing (locator.observe_locator) keeps a history well formed and its lead.
LEMMA ObservedKeeps ==
    ASSUME NEW h \in Seq(Entries), NEW l \in Locators, NEW c \in Locators,
           Distinct(h), Leads(h, c)
    PROVE  LET g == Observed(h, l) IN
           g \in Seq(Entries) /\ Distinct(g) /\ Leads(g, c) /\ Extends(g, h)
<1> DEFINE g == Observed(h, l)
<1>1. CASE l \in Known(h)
  BY <1>1 DEF Observed, Extends
<1>2. CASE l \notin Known(h)
  <2>1. Entry(l, "observed") \in Entries
    BY DEF Entry, Entries, Statuses
  <2>2. g = Append(h, Entry(l, "observed"))
    BY <1>2 DEF Observed
  <2>3. /\ g \in Seq(Entries) /\ Len(g) = Len(h) + 1
        /\ \A i \in 1..Len(h) : g[i] = h[i]
        /\ g[Len(h) + 1] = Entry(l, "observed")
    BY <2>1, <2>2
  <2>4. DOMAIN h = 1..Len(h) /\ DOMAIN g = 1..(Len(h) + 1) /\ Len(h) \in Nat
    BY <2>3
  <2>5. Entry(l, "observed").locator = l /\ Entry(l, "observed").status = "observed"
    BY DEF Entry
  <2>6. \A i \in DOMAIN h : h[i].locator # l
    BY <1>2 DEF Known
  <2>7. l # c
    BY <1>2 DEF Leads
  <2>8. Distinct(g)
    BY <2>3, <2>4, <2>5, <2>6 DEF Distinct
  <2>9. c \in Known(g)
    BY <2>3, <2>4 DEF Known, Leads
  <2>10. Leads(g, c)
    BY <2>3, <2>4, <2>5, <2>7, <2>9 DEF Leads
  <2> QED BY <2>3, <2>4, <2>8, <2>10 DEF Extends
<1> QED BY <1>1, <1>2

\* So does losing an address (locator.mark_locator_unreachable).
LEMMA UnreachableKeeps ==
    ASSUME NEW h \in Seq(Entries), NEW l \in Locators, NEW c \in Locators,
           Distinct(h), Leads(h, c)
    PROVE  LET g == Unreachable(h, l) IN
           g \in Seq(Entries) /\ Distinct(g) /\ Leads(g, c) /\ Extends(g, h)
<1> DEFINE g == Unreachable(h, l)
<1>1. DOMAIN h = 1..Len(h) /\ Len(h) \in Nat /\ \A i \in DOMAIN h : h[i] \in Entries
  OBVIOUS
<1>2. Entry(l, "unreachable") \in Entries
  BY DEF Entry, Entries, Statuses
<1>3. /\ DOMAIN g = DOMAIN h
      /\ \A i \in DOMAIN h : g[i] = IF h[i].locator = l /\ h[i].status # "historical"
                                    THEN Entry(l, "unreachable") ELSE h[i]
  BY DEF Unreachable
<1>4. g \in Seq(Entries) /\ Len(g) = Len(h)
  <2>1. g \in [1..Len(h) -> Entries]
    BY <1>1, <1>2 DEF Unreachable
  <2> QED BY <2>1, <1>1
<1>5. \A i \in DOMAIN h :
        /\ g[i].locator = h[i].locator
        /\ g[i].status = h[i].status \/ g[i].status = "unreachable"
  BY <1>3 DEF Entry
<1>6. Distinct(g)
  BY <1>3, <1>5 DEF Distinct
<1>7. Leads(g, c)
  BY <1>3, <1>5 DEF Leads, Known
<1> QED BY <1>3, <1>4, <1>5, <1>6, <1>7 DEF Extends

\* Promoting an address (locator.confirm_locator) hands it the lead, and the
\* address that had it becomes historical.
LEMMA PromotedLeads ==
    ASSUME NEW h \in Seq(Entries), NEW l \in Locators, NEW c \in Locators,
           l # c, Distinct(h), Leads(h, c)
    PROVE  LET g == Promoted(h, c, l) IN
           /\ g \in Seq(Entries) /\ Distinct(g) /\ Leads(g, l) /\ Extends(g, h)
           /\ \E i \in DOMAIN h : g[i] = Entry(c, "historical")
<1> DEFINE g == Promoted(h, c, l)
           t == [i \in DOMAIN h |-> IF h[i].locator = l THEN Entry(l, "current")
                                    ELSE IF h[i].locator = c THEN Entry(c, "historical")
                                    ELSE h[i]]
<1>1. DOMAIN h = 1..Len(h) /\ Len(h) \in Nat /\ \A i \in DOMAIN h : h[i] \in Entries
  OBVIOUS
<1>2. /\ Entry(l, "current") \in Entries /\ Entry(c, "historical") \in Entries
      /\ Entry(l, "current").locator = l /\ Entry(l, "current").status = "current"
      /\ Entry(c, "historical").locator = c /\ Entry(c, "historical").status = "historical"
  BY DEF Entry, Entries, Statuses
<1>3. t \in Seq(Entries) /\ Len(t) = Len(h) /\ DOMAIN t = DOMAIN h
  <2>1. t \in [1..Len(h) -> Entries]
    BY <1>1, <1>2
  <2> QED BY <2>1, <1>1
<1>4. \A i \in DOMAIN h : t[i].locator = h[i].locator
  BY <1>2
<1>5. \A i \in DOMAIN h :
        /\ t[i].status = "current" => t[i].locator = l
        /\ t[i].locator = l => t[i].status = "current"
  BY <1>2 DEF Leads
<1>6. PICK k \in DOMAIN h : h[k].locator = c
  BY DEF Leads, Known
<1>7. t[k] = Entry(c, "historical")
  BY <1>6
<1>8. CASE l \in Known(h)
  <2>1. g = t
    BY <1>8 DEF Promoted
  <2>2. l \in Known(t)
    BY <1>8, <1>3, <1>4 DEF Known
  <2>3. Distinct(t)
    BY <1>3, <1>4 DEF Distinct
  <2>4. Leads(t, l)
    BY <1>3, <1>5, <2>2 DEF Leads
  <2>5. Extends(t, h)
    BY <1>1, <1>3, <1>4 DEF Extends
  <2> QED BY <2>1, <2>3, <2>4, <2>5, <1>3, <1>7
<1>9. CASE l \notin Known(h)
  <2>1. g = Append(t, Entry(l, "current"))
    BY <1>9 DEF Promoted
  <2>2. /\ g \in Seq(Entries) /\ Len(g) = Len(h) + 1
        /\ \A i \in 1..Len(h) : g[i] = t[i]
        /\ g[Len(h) + 1] = Entry(l, "current")
    BY <1>2, <1>3, <2>1
  <2>3. DOMAIN g = 1..(Len(h) + 1)
    BY <2>2, <1>1
  <2>4. \A i \in DOMAIN h : h[i].locator # l
    BY <1>9 DEF Known
  <2>5. Distinct(g)
    BY <1>1, <1>2, <1>4, <2>2, <2>3, <2>4 DEF Distinct
  <2>6. Leads(g, l)
    <3>1. Len(h) + 1 \in DOMAIN g /\ g[Len(h) + 1].locator = l
      BY <1>1, <1>2, <2>2, <2>3
    <3>2. l \in Known(g)
      BY <3>1 DEF Known
    <3> QED BY <1>1, <1>2, <1>5, <2>2, <2>3, <3>2 DEF Leads
  <2>7. Extends(g, h)
    BY <1>1, <1>4, <2>2 DEF Extends
  <2>8. g[k] = Entry(c, "historical")
    BY <1>1, <1>6, <1>7, <2>2
  <2> QED BY <2>2, <2>5, <2>6, <2>7, <2>8
<1> QED BY <1>8, <1>9

(***************************************************************************)
(* The worlds that seeds, snapshot, evidence and history lead to.          *)
(***************************************************************************)

\* Putting a world together keeps its parts.
LEMMA WorldOfType ==
    ASSUME NEW hosts \in Rows, NEW outside \in SUBSET Locators,
           NEW applied \in SUBSET Locators
    PROVE  WorldOf(hosts, outside, applied) \in Worlds
BY DEF WorldOf, Worlds

\* The blank world is a world.
LEMMA BlankType == Blank \in Worlds
<1>1. [l \in Locators |-> None] \in Rows
  BY DEF Rows
<1> QED BY <1>1, WorldOfType DEF Blank

\* There is an id for a new row or host as long as one of the two is missing
\* (domain/ids.py new_id).
LEMMA FreshType ==
    ASSUME NEW w \in Worlds, NEW l \in Locators, rows \in Rows,
           rows[l] = None \/ w.hosts[l] = None
    PROVE  Fresh(w, l) \in Ids
<1>1. \E i \in Ids : i # rows[l] /\ i # w.hosts[l]
  BY DEF Ids, None
<1> QED BY <1>1 DEF Fresh

\* Hosts created under a canonical key have ids of their own (world/model.py).
LEMMA HostedType ==
    ASSUME NEW w \in Worlds, NEW ls, rows \in Rows
    PROVE  Hosted(w, ls) \in Rows
<1>1. \A l \in Locators : w.hosts[l] = None => Fresh(w, l) \in Ids
  BY FreshType
<1>2. \A l \in Locators : w.hosts[l] \in Ids \cup {None}
  BY DEF Worlds, Rows
<1> QED BY <1>1, <1>2 DEF Hosted, Rows

\* Evidence applied to a world gives a world (world/correlation.py).
LEMMA CorrelatedType ==
    ASSUME NEW w \in Worlds, NEW ls \in SUBSET Locators, NEW gated \in BOOLEAN, rows \in Rows
    PROVE  Correlated(w, ls, gated) \in Worlds
<1>1. Hosted(w, ls) \in Rows
  BY HostedType
<1>2. w.outside \in SUBSET Locators /\ w.applied \in SUBSET Locators
  BY DEF Worlds
<1>3. {l \in ls \ InScope : w.hosts[l] = None} \in SUBSET Locators
  OBVIOUS
<1> DEFINE out == IF gated THEN w.outside \cup {l \in ls \ InScope : w.hosts[l] = None}
                  ELSE w.outside
<1>4. out \in SUBSET Locators
  BY <1>2, <1>3
<1>5. w.applied \cup ls \in SUBSET Locators
  BY <1>2
<1> HIDE DEF out
<1>6. WorldOf(Hosted(w, ls), out, w.applied \cup ls) \in Worlds
  BY <1>1, <1>4, <1>5, WorldOfType
<1> QED BY <1>6 DEF Correlated, out

\* Seeding gives a world (world/model.py seed_assets).
LEMMA SeededType ==
    ASSUME NEW w \in Worlds, rows \in Rows
    PROVE  Seeded(w) \in Worlds
<1>1. [l \in Locators |-> IF l \in seeds THEN rows[l] ELSE None] \in Rows
  BY DEF Rows
<1>2. WorldOf([l \in Locators |-> IF l \in seeds THEN rows[l] ELSE None], {}, {}) \in Worlds
  BY <1>1, WorldOfType
<1> QED BY <1>2 DEF Seeded

\* So do resuming and opening (storage/sqlite.py resume_world, engine/loop.py world).
LEMMA OpenedType == TypeOK => Resumed \in Worlds /\ Opened \in Worlds
<1> SUFFICES ASSUME TypeOK PROVE Resumed \in Worlds /\ Opened \in Worlds
  OBVIOUS
<1>1. /\ saved \in Worlds /\ rows \in Rows /\ evidence \in SUBSET Locators
      /\ world \in Worlds
  BY DEF TypeOK
<1>2. saved.hosts \in Rows /\ saved.outside \in SUBSET Locators
  BY <1>1 DEF Worlds
<1>3. WorldOf(saved.hosts, saved.outside, evidence) \in Worlds
  BY <1>1, <1>2, WorldOfType
<1>4. Seeded(saved) \in Worlds
  BY <1>1, SeededType
<1>5. evidence \ saved.applied \in SUBSET Locators
  BY <1>1
<1>6. Correlated(Seeded(saved), evidence \ saved.applied, FALSE) \in Worlds
  BY <1>1, <1>4, <1>5, CorrelatedType
<1>7. Resumed \in Worlds
  BY <1>3, <1>6 DEF Resumed
<1> QED BY <1>1, <1>7 DEF Opened

\* Syncing the hosts of a history gives a world (engine/loop.py).
LEMMA SyncedType ==
    ASSUME NEW w \in Worlds, rows \in Rows
    PROVE  Synced(w) \in Worlds
<1>1. Hosted(w, Known(history)) \in Rows
  BY HostedType
<1>2. w.outside \in SUBSET Locators /\ w.applied \in SUBSET Locators
  BY DEF Worlds
<1> QED BY <1>1, <1>2, WorldOfType DEF Synced

(***************************************************************************)
(* The inductive invariant.                                                *)
(***************************************************************************)

\* Before the mission is confirmed nothing is in the assets table, and the
\* target's address is the one the operator gave.
DraftInv == ~confirmed => rows = [l \in Locators |-> None] /\ current = Seed

LocatorInv == TypeOK /\ OneCurrent /\ CurrentIsAuthorized /\ DraftInv

\* The invariant the runs check, in the words of the lemmas on histories.
LEMMA LeadsIsOneCurrent == OneCurrent <=> Distinct(history) /\ Leads(history, current)
BY DEF OneCurrent, Distinct, Leads

\* A new mission has its one address and nothing else.
LEMMA InitInv == Init => LocatorInv
<1> SUFFICES ASSUME Init PROVE LocatorInv
  OBVIOUS
<1>1. Seed \in Locators /\ Seed \in InScope
  BY LocatorAssumption
<1>2. Entry(Seed, "current") \in Entries
  BY <1>1 DEF Entry, Entries, Statuses
<1>3. history \in Seq(Entries) /\ DOMAIN history = {1} /\ history[1] = Entry(Seed, "current")
  BY <1>2 DEF Init
<1>4. TypeOK
  BY <1>1, <1>3, BlankType DEF Init, TypeOK, Rows
<1>5. OneCurrent
  <2>1. history[1].locator = Seed /\ history[1].status = "current" /\ current = Seed
    BY <1>3 DEF Init, Entry
  <2> QED BY <1>3, <2>1 DEF OneCurrent, Known
<1>6. CurrentIsAuthorized /\ DraftInv
  BY <1>1 DEF Init, CurrentIsAuthorized, DraftInv
<1> QED BY <1>4, <1>5, <1>6 DEF LocatorInv

\* Saving a world leaves a well-formed table and snapshot in which no row has
\* changed its id (sqlite.persist_world).
LEMMA PersistType ==
    ASSUME TypeOK, NEW w \in Worlds, Persist(w)
    PROVE  /\ rows' \in Rows /\ saved' \in Worlds
           /\ \A l \in Locators : rows[l] # None => rows'[l] = rows[l]
<1>1. rows \in Rows /\ saved \in Worlds /\ w.hosts \in Rows
  BY DEF TypeOK, Worlds
<1>2. CASE UNCHANGED <<rows, saved>>
  BY <1>1, <1>2
<1>3. CASE /\ ~Clash(w)
           /\ rows' = [l \in Locators |-> IF w.hosts[l] # None THEN w.hosts[l] ELSE rows[l]]
           /\ saved' = w
  <2>1. \A l \in Locators : w.hosts[l] # None /\ rows[l] # None => w.hosts[l] = rows[l]
    BY <1>3 DEF Clash
  <2>2. rows' \in Rows
    BY <1>1, <1>3 DEF Rows
  <2> QED BY <1>1, <1>3, <2>1, <2>2 DEF Rows
<1> QED BY <1>2, <1>3 DEF Persist

\* Seeding the row of a confirmed address changes no row there is.
LEMMA SeedRowType ==
    ASSUME TypeOK, NEW l \in Locators, SeedRow(l)
    PROVE  /\ rows' \in Rows /\ seeds' \in SUBSET Locators /\ l \in seeds'
           /\ \A k \in Locators : rows[k] # None => rows'[k] = rows[k]
<1>1. rows \in Rows /\ seeds \in SUBSET Locators /\ world \in Worlds
  BY DEF TypeOK
<1>2. CASE l \in seeds /\ UNCHANGED <<rows, seeds>>
  BY <1>1, <1>2
<1>3. CASE /\ l \notin seeds
           /\ rows[l] = None
           /\ rows' = [rows EXCEPT ![l] = Fresh(world, l)]
           /\ seeds' = seeds \cup {l}
  <2>1. Fresh(world, l) \in Ids
    BY <1>1, <1>3, FreshType
  <2> QED BY <1>1, <1>3, <2>1 DEF Rows
<1> QED BY <1>2, <1>3 DEF SeedRow

(***************************************************************************)
(* One lemma per action that does something to the history or the table.   *)
(***************************************************************************)

\* What every step keeps: the invariant, the rows and the trail of addresses.
StepKept ==
    /\ LocatorInv'
    /\ \A l \in Locators : rows[l] # None => rows'[l] = rows[l]
    /\ Extends(history', history)
    /\ current' # current => \E i \in DOMAIN history : history'[i] = Entry(current, "historical")

\* A history that does not change extends itself.
LEMMA SameHistory == TypeOK /\ UNCHANGED history => Extends(history', history)
BY DEF TypeOK, Extends

\* Confirming the mission seeds the one row (service.confirm).
LEMMA ConfirmMissionStep == LocatorInv /\ ConfirmMission => StepKept
<1> SUFFICES ASSUME LocatorInv, ConfirmMission PROVE StepKept
  OBVIOUS
<1>1. TypeOK /\ OneCurrent /\ CurrentIsAuthorized /\ DraftInv
  BY DEF LocatorInv
<1>2. Seed \in Locators /\ Seed \in InScope
  BY LocatorAssumption
<1>3. \A l \in Locators : rows[l] = None
  BY <1>1 DEF ConfirmMission, DraftInv
<1>4. Fresh(world, Seed) \in Ids
  BY <1>1, <1>2, <1>3, FreshType DEF TypeOK
<1>5. rows' \in Rows
  BY <1>1, <1>4 DEF ConfirmMission, TypeOK, Rows
<1>6. /\ UNCHANGED <<current, history, evidence, saved, loaded, world, syncing>>
      /\ confirmed' = TRUE /\ seeds' = {Seed}
  BY DEF ConfirmMission, target, memory
<1>7. TypeOK'
  BY <1>1, <1>2, <1>5, <1>6 DEF TypeOK
<1>8. OneCurrent'
  BY <1>1, <1>6 DEF OneCurrent, Known
<1>9. CurrentIsAuthorized' /\ DraftInv'
  BY <1>1, <1>2, <1>6 DEF CurrentIsAuthorized, DraftInv, ConfirmMission
<1> QED BY <1>1, <1>3, <1>6, <1>7, <1>8, <1>9, SameHistory DEF StepKept, LocatorInv

\* A locator is confirmed (service.confirm_locator).
LEMMA ConfirmLocatorStep ==
    ASSUME LocatorInv, NEW l \in Locators, ConfirmLocator(l)
    PROVE  StepKept
<1>1. TypeOK /\ OneCurrent /\ CurrentIsAuthorized /\ DraftInv
  BY DEF LocatorInv
<1>2. /\ confirmed /\ confirmed' = confirmed /\ l \in InScope /\ current' = l
      /\ syncing' = TRUE /\ SeedRow(l)
      /\ history' = IF l = current THEN history ELSE Promoted(history, current, l)
      /\ UNCHANGED <<evidence, saved, loaded, world>>
  BY DEF ConfirmLocator, memory
<1>3. /\ rows' \in Rows /\ seeds' \in SUBSET Locators /\ l \in seeds'
      /\ \A k \in Locators : rows[k] # None => rows'[k] = rows[k]
  BY <1>1, <1>2, SeedRowType
<1>4. history \in Seq(Entries) /\ current \in Locators /\ Distinct(history) /\ Leads(history, current)
  BY <1>1, LeadsIsOneCurrent DEF TypeOK
<1>5. /\ history' \in Seq(Entries) /\ Distinct(history') /\ Leads(history', l)
      /\ Extends(history', history)
      /\ l # current => \E i \in DOMAIN history : history'[i] = Entry(current, "historical")
  <2>1. CASE l = current
    BY <1>1, <1>2, <1>4, <2>1, SameHistory
  <2>2. CASE l # current
    BY <1>2, <1>4, <2>2, PromotedLeads
  <2> QED BY <2>1, <2>2
<1>6. TypeOK'
  BY <1>1, <1>2, <1>3, <1>5 DEF TypeOK
<1>7. OneCurrent'
  BY <1>2, <1>5 DEF OneCurrent, Distinct, Leads
<1>8. CurrentIsAuthorized' /\ DraftInv'
  BY <1>1, <1>2, <1>3 DEF CurrentIsAuthorized, DraftInv
<1> QED BY <1>2, <1>3, <1>5, <1>6, <1>7, <1>8 DEF StepKept, LocatorInv

\* An address is found without route (service.mark_locator_unreachable).
LEMMA MarkUnreachableStep ==
    ASSUME LocatorInv, NEW l \in Locators, MarkUnreachable(l)
    PROVE  StepKept
<1>1. TypeOK /\ OneCurrent /\ CurrentIsAuthorized /\ DraftInv
  BY DEF LocatorInv
<1>2. /\ history' = Unreachable(history, l)
      /\ UNCHANGED <<confirmed, current, rows, seeds, evidence, saved, loaded, world, syncing>>
  BY DEF MarkUnreachable, disk, memory
<1>3. history \in Seq(Entries) /\ current \in Locators /\ Distinct(history) /\ Leads(history, current)
  BY <1>1, LeadsIsOneCurrent DEF TypeOK
<1>4. /\ history' \in Seq(Entries) /\ Distinct(history') /\ Leads(history', current)
      /\ Extends(history', history)
  BY <1>2, <1>3, UnreachableKeeps
<1>5. TypeOK'
  BY <1>1, <1>2, <1>4 DEF TypeOK
<1>6. OneCurrent'
  BY <1>2, <1>4 DEF OneCurrent, Distinct, Leads
<1>7. CurrentIsAuthorized' /\ DraftInv'
  BY <1>1, <1>2 DEF CurrentIsAuthorized, DraftInv
<1> QED BY <1>2, <1>4, <1>5, <1>6, <1>7 DEF StepKept, LocatorInv

\* A cycle stores evidence, observes an address and saves (engine/loop.py).
LEMMA CycleStep ==
    ASSUME LocatorInv, NEW found \in Few, NEW seen \in Few, Cycle(found, seen)
    PROVE  StepKept
<1>1. TypeOK /\ OneCurrent /\ CurrentIsAuthorized /\ DraftInv
  BY DEF LocatorInv
<1>2. found \in SUBSET Locators /\ seen \in SUBSET Locators
  BY DEF Few
<1>3. /\ confirmed /\ UNCHANGED <<confirmed, current, seeds, syncing>>
      /\ evidence' = evidence \cup found /\ loaded' = TRUE
      /\ world' = Correlated(Seeded(Opened), found, TRUE)
      /\ Persist(world')
      /\ UNCHANGED history \/ \E l \in seen : history' = Observed(history, l)
  BY DEF Cycle
<1>4. rows \in Rows
  BY <1>1 DEF TypeOK
<1>5. world' \in Worlds
  BY <1>1, <1>2, <1>3, <1>4, OpenedType, SeededType, CorrelatedType
<1>6. /\ rows' \in Rows /\ saved' \in Worlds
      /\ \A l \in Locators : rows[l] # None => rows'[l] = rows[l]
  BY <1>1, <1>3, <1>5, PersistType
<1>7. history \in Seq(Entries) /\ current \in Locators /\ Distinct(history) /\ Leads(history, current)
  BY <1>1, LeadsIsOneCurrent DEF TypeOK
<1>8. /\ history' \in Seq(Entries) /\ Distinct(history') /\ Leads(history', current)
      /\ Extends(history', history)
  <2>1. CASE UNCHANGED history
    BY <1>1, <1>7, <2>1, SameHistory
  <2>2. CASE \E l \in seen : history' = Observed(history, l)
    BY <1>2, <1>7, <2>2, ObservedKeeps
  <2> QED BY <1>3, <2>1, <2>2
<1>9. evidence' \in SUBSET Locators
  BY <1>1, <1>2, <1>3 DEF TypeOK
<1>10. TypeOK'
  BY <1>1, <1>3, <1>5, <1>6, <1>8, <1>9 DEF TypeOK
<1>11. OneCurrent'
  BY <1>3, <1>8 DEF OneCurrent, Distinct, Leads
<1>12. CurrentIsAuthorized' /\ DraftInv'
  BY <1>1, <1>3 DEF CurrentIsAuthorized, DraftInv
<1> QED BY <1>3, <1>6, <1>8, <1>10, <1>11, <1>12 DEF StepKept, LocatorInv

\* Steps that change at most the world in memory keep everything else
\* (facade.confirm_locator, engine/loop.py world, the end of the process).
LEMMA MemoryStep ==
    ASSUME LocatorInv, world' \in Worlds, loaded' \in BOOLEAN, syncing' \in BOOLEAN,
           UNCHANGED <<confirmed, current, history, rows, seeds, evidence, saved>>
    PROVE  StepKept
<1>1. TypeOK /\ OneCurrent /\ CurrentIsAuthorized /\ DraftInv
  BY DEF LocatorInv
<1>2. TypeOK'
  BY <1>1 DEF TypeOK
<1>3. OneCurrent' /\ CurrentIsAuthorized' /\ DraftInv'
  BY <1>1 DEF OneCurrent, CurrentIsAuthorized, DraftInv, Known
<1> QED BY <1>1, <1>2, <1>3, SameHistory DEF StepKept, LocatorInv

\* Every step keeps the invariant, the rows and the trail.
LEMMA NextStep == LocatorInv /\ [Next]_locatorVars => StepKept
<1> SUFFICES ASSUME LocatorInv, [Next]_locatorVars PROVE StepKept
  OBVIOUS
<1>1. TypeOK
  BY DEF LocatorInv
<1>2. rows \in Rows /\ world \in Worlds /\ loaded \in BOOLEAN /\ syncing \in BOOLEAN
  BY <1>1 DEF TypeOK
<1>3. Resumed \in Worlds /\ Opened \in Worlds
  BY <1>1, OpenedType
<1>4. CASE ConfirmMission
  BY <1>4, ConfirmMissionStep
<1>5. CASE \E l \in Locators : ConfirmLocator(l)
  BY <1>5, ConfirmLocatorStep
<1>6. CASE \E l \in Locators : MarkUnreachable(l)
  BY <1>6, MarkUnreachableStep
<1>7. CASE SyncHosts
  <2>1. world' \in Worlds
    BY <1>2, <1>3, <1>7, SyncedType DEF SyncHosts
  <2>2. loaded' \in BOOLEAN /\ syncing' \in BOOLEAN
    BY <1>7 DEF SyncHosts
  <2> QED BY <1>7, <2>1, <2>2, MemoryStep DEF SyncHosts, target, disk
<1>8. CASE SyncRaises
  <2>1. loaded' \in BOOLEAN /\ syncing' \in BOOLEAN
    BY <1>2, <1>8, Zenon DEF SyncRaises, memory
  <2> QED BY <1>2, <1>8, <2>1, MemoryStep DEF SyncRaises, target, disk, memory
<1>9. CASE View
  <2>1. loaded' \in BOOLEAN /\ syncing' \in BOOLEAN
    BY <1>2, <1>9, Zenon DEF View
  <2> QED BY <1>3, <1>9, <2>1, MemoryStep DEF View, target, disk
<1>10. CASE \E found, seen \in Few : Cycle(found, seen)
  BY <1>10, CycleStep
<1>11. CASE Restart
  <2>1. loaded' \in BOOLEAN /\ syncing' \in BOOLEAN
    BY <1>11 DEF Restart
  <2> QED BY <1>11, <2>1, BlankType, MemoryStep DEF Restart, target, disk
<1>12. CASE UNCHANGED locatorVars
  <2>1. loaded' \in BOOLEAN /\ syncing' \in BOOLEAN
    BY <1>2, <1>12, Zenon DEF locatorVars
  <2> QED BY <1>2, <1>12, <2>1, MemoryStep DEF locatorVars
<1> QED BY <1>4, <1>5, <1>6, <1>7, <1>8, <1>9, <1>10, <1>11, <1>12 DEF Next

\* The invariant holds in every reachable state.
LEMMA LocatorInvariant == Spec => []LocatorInv
<1>1. LocatorInv /\ [Next]_locatorVars => LocatorInv'
  BY NextStep DEF StepKept
<1> QED BY InitInv, <1>1, PTL DEF Spec

(***************************************************************************)
(* The theorems.                                                           *)
(***************************************************************************)

\* Records, rows and worlds stay well formed (mission/locator.py, engine/loop.py).
THEOREM LocatorTypeCorrect == Spec => []TypeOK
<1>1. LocatorInv => TypeOK
  BY DEF LocatorInv
<1> QED BY LocatorInvariant, <1>1, PTL

\* One entry for each address, and one address in the lead, after any order of
\* observations, losses and confirmations (mission/locator.py).
THEOREM HistoryHasOneLead == Spec => []OneCurrent
<1>1. LocatorInv => OneCurrent
  BY DEF LocatorInv
<1> QED BY LocatorInvariant, <1>1, PTL

\* The mission's address is always one its frozen scope allows and one that is
\* seeded, across failed commands and restarts (service.confirm_locator).
THEOREM TargetStaysAuthorized == Spec => []CurrentIsAuthorized
<1>1. LocatorInv => CurrentIsAuthorized
  BY DEF LocatorInv
<1> QED BY LocatorInvariant, <1>1, PTL

\* The history only grows, and keeps on record the address a confirmation
\* replaced (mission/locator.py).
THEOREM HistoryIsKept == Spec => HistoryGrows
<1>1. LocatorInv /\ [Next]_locatorVars =>
        [/\ Len(history) <= Len(history')
         /\ \A i \in DOMAIN history : history'[i].locator = history[i].locator
         /\ current' # current =>
               \E i \in DOMAIN history : history'[i] = Entry(current, "historical")]_locatorVars
  BY NextStep DEF StepKept, Extends
<1> QED BY LocatorInvariant, <1>1, PTL DEF Spec, HistoryGrows

\* No row of the assets table is ever taken over by another id
\* (storage/sqlite.py save_assets).
THEOREM RowsAreKept == Spec => RowsKeepIdentity
<1>1. LocatorInv /\ [Next]_locatorVars =>
        [\A l \in Locators : rows[l] # None => rows'[l] = rows[l]]_locatorVars
  BY NextStep DEF StepKept
<1> QED BY LocatorInvariant, <1>1, PTL DEF Spec, RowsKeepIdentity
=============================================================================
