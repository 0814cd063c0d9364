--------------------------- MODULE TargetLocator ---------------------------
(***************************************************************************)
(* The addresses (locators) of a mission's target: the history kept in     *)
(* Target (mission/locator.py), the operations of MissionService that      *)
(* change it, and the host assets each address has, in two places: the     *)
(* assets table, which the service writes (seed assets) and the engine     *)
(* writes (persist_world), and the World Model in memory, which the engine *)
(* fills from seeds, snapshot, evidence and sync_locator_hosts.  The two   *)
(* places name a host by an asset id, and the table admits one row for a   *)
(* canonical key.                                                          *)
(*                                                                         *)
(* The target is a single address or host name, so that a locator is also  *)
(* the canonical key of its host.  The commands on the mission's status    *)
(* are those of MissionLifecycle; of them only the first confirmation      *)
(* matters to the operations here, and a cycle is one of a mission that    *)
(* runs.                                                                   *)
(***************************************************************************)
EXTENDS Naturals, Sequences

CONSTANTS
    Locators,       \* addresses the mission may come to know
    Seed,           \* the address the operator gave
    InScope,        \* addresses the frozen scope allows
    HistoricalCap,  \* historical locators the Brain is shown (8 in the code)
    FaultyStorage   \* the database may refuse a transaction

ASSUME LocatorAssumption ==
    /\ InScope \subseteq Locators
    /\ Seed \in InScope
    /\ HistoricalCap \in Nat
    /\ FaultyStorage \in BOOLEAN

VARIABLES
    confirmed,  \* the mission has left CREATED and Scope.frozen is set
    current,    \* Target.current_locator
    history,    \* Target.locator_history
    rows,       \* assets table: id of the host row of a locator, or None
    seeds,      \* locators whose row has is_seed
    evidence,   \* locators for which host evidence is stored
    saved,      \* latest snapshot, Blank while there is none
    loaded,     \* the engine holds a World Model of the mission
    world,      \* that World Model
    syncing     \* facade.confirm_locator is between the service and the engine

target == <<current, history>>
disk == <<rows, seeds, evidence, saved>>
memory == <<loaded, world>>
locatorVars == <<confirmed, current, history, rows, seeds, evidence, saved,
                 loaded, world, syncing>>

\* Asset ids are only ever compared, and only among the row and the host of
\* one locator: two ids and the absence of one tell all cases apart.
None == 0
Ids == {1, 2}

Statuses == {"current", "historical", "observed", "unreachable"}
Entries == [locator : Locators, status : Statuses]

Rows == [Locators -> Ids \cup {None}]
Worlds == [hosts : Rows, outside : SUBSET Locators, applied : SUBSET Locators]

WorldOf(hosts, outside, applied) ==
    [hosts |-> hosts, outside |-> outside, applied |-> applied]

Blank == WorldOf([l \in Locators |-> None], {}, {})

Entry(l, s) == [locator |-> l, status |-> s]
Known(h) == {h[i].locator : i \in DOMAIN h}

-----------------------------------------------------------------------------
(* The Target record.                                                      *)

\* Faulty variant: every observation is a new entry.
ObservedAnew(h, l) == Append(h, Entry(l, "observed"))

\* observe_locator: an address already known keeps its status.
Observed(h, l) == IF l \in Known(h) THEN h ELSE Append(h, Entry(l, "observed"))

\* Faulty variant: the transient status is written into the record.
TimedOut(h, l) ==
    [i \in DOMAIN h |->
        IF h[i].locator = l /\ h[i].status # "historical" THEN Entry(l, "timeout") ELSE h[i]]

\* mark_locator_unreachable: a historical address stays historical.
Unreachable(h, l) ==
    [i \in DOMAIN h |->
        IF h[i].locator = l /\ h[i].status # "historical" THEN Entry(l, "unreachable") ELSE h[i]]

\* Faulty variant: the new address takes the entry of the one it replaces.
PromotedInPlace(h, old, l) ==
    [i \in DOMAIN h |-> IF h[i].locator = old THEN Entry(l, "current") ELSE h[i]]

\* confirm_locator, for an address that is not the current one already.
Promoted(h, old, l) ==
    LET turned == [i \in DOMAIN h |-> IF h[i].locator = l THEN Entry(l, "current")
                                      ELSE IF h[i].locator = old THEN Entry(old, "historical")
                                      ELSE h[i]]
    IN IF l \in Known(h) THEN turned ELSE Append(turned, Entry(l, "current"))

\* Target.historical_locators: every known address but the current one.
Historical == SelectSeq(history, LAMBDA e : e.locator # current)

\* Target.previous_locator: the last entry with that status, in the order in
\* which the addresses were first seen.
Retired == SelectSeq(history, LAMBDA e : e.status = "historical")
Previous == IF Retired = << >> THEN {} ELSE {Retired[Len(Retired)].locator}

-----------------------------------------------------------------------------
(* The World Model.                                                        *)

\* new_id: differs from the id of the row and of the host.
Fresh(w, l) == CHOOSE i \in Ids : i # rows[l] /\ i # w.hosts[l]

\* get-or-create under the canonical key: a host that exists keeps its id.
Hosted(w, ls) ==
    [l \in Locators |-> IF l \in ls /\ w.hosts[l] = None THEN Fresh(w, l) ELSE w.hosts[l]]

\* CorrelationEngine._host, under the scope gate or without one.
Correlated(w, ls, gated) ==
    WorldOf(Hosted(w, ls),
            IF gated THEN w.outside \cup {l \in ls \ InScope : w.hosts[l] = None}
            ELSE w.outside,
            w.applied \cup ls)

\* seed_assets of a world at revision 0: the seed rows with their ids.
Seeded(w) ==
    IF w # Blank THEN w
    ELSE WorldOf([l \in Locators |-> IF l \in seeds THEN rows[l] ELSE None], {}, {})

\* SqliteStore.resume_world: the snapshot, or the seeds when there is none,
\* then the evidence after the row the snapshot names.  A snapshot that names
\* no row passes all evidence off as applied.  The gate is attached later.
Resumed ==
    IF saved # Blank /\ saved.applied = {}
    THEN WorldOf(saved.hosts, saved.outside, evidence)
    ELSE Correlated(Seeded(saved), evidence \ saved.applied, FALSE)

\* MissionEngine.world: kept in memory, or resumed on first use.
Opened == IF loaded THEN world ELSE Resumed

\* sync_locator_hosts: a host for every address of the history.
Synced(w) == WorldOf(Hosted(w, Known(history)), w.outside, w.applied)

\* UNIQUE (mission_id, canonical_key), with ON CONFLICT only for asset_id.
Clash(w) ==
    \E l \in Locators : w.hosts[l] # None /\ rows[l] # None /\ w.hosts[l] # rows[l]

-----------------------------------------------------------------------------
(* Action targets: brain/locators.py, brain/context.py.  The Brain is shown *)
(* the first HistoricalCap former addresses and the previous one.          *)

Obsolete ==
    ({Historical[i].locator : i \in DOMAIN Historical \cap 1..HistoricalCap} \cup Previous) \ {current}

\* Hosts an address-bound action may be proposed for, by gap or by path.
Targets == {l \in Locators : world.hosts[l] # None} \ (world.outside \cup Obsolete)

-----------------------------------------------------------------------------
Init ==
    /\ confirmed = FALSE
    /\ current = Seed
    /\ history = <<Entry(Seed, "current")>>
    /\ rows = [l \in Locators |-> None]
    /\ seeds = {}
    /\ evidence = {}
    /\ saved = Blank
    /\ loaded = FALSE
    /\ world = Blank
    /\ syncing = FALSE

\* service.confirm: the scope freezes and the target's host is seeded.
ConfirmMission ==
    /\ ~confirmed /\ ~syncing
    /\ confirmed' = TRUE
    /\ rows' = [rows EXCEPT ![Seed] = Fresh(world, Seed)]
    /\ seeds' = {Seed}
    /\ UNCHANGED <<target, evidence, saved, memory, syncing>>

\* The new row of a confirmed address, unless it has a seed row already.  A
\* row the engine wrote under another id makes the insert, and with it the
\* command, fail.
SeedRow(l) ==
    \/ l \in seeds /\ UNCHANGED <<rows, seeds>>
    \/ /\ l \notin seeds
       /\ rows[l] = None
       /\ rows' = [rows EXCEPT ![l] = Fresh(world, l)]
       /\ seeds' = seeds \cup {l}

\* Faulty variant: the scope is not looked at.
ConfirmAnyLocator(l) ==
    /\ confirmed /\ ~syncing
    /\ current' = l
    /\ history' = IF l = current THEN history ELSE Promoted(history, current, l)
    /\ SeedRow(l)
    /\ syncing' = TRUE
    /\ UNCHANGED <<confirmed, evidence, saved, memory>>

\* service.confirm_locator.  The status is not looked at beyond CREATED.
\* Confirming the current address again is an observation.
ConfirmLocator(l) ==
    /\ confirmed /\ ~syncing
    /\ l \in InScope
    /\ current' = l
    /\ history' = IF l = current THEN history ELSE Promoted(history, current, l)
    /\ SeedRow(l)
    /\ syncing' = TRUE
    /\ UNCHANGED <<confirmed, evidence, saved, memory>>

\* facade.confirm_locator goes on with sync_locator_hosts ...
SyncHosts ==
    /\ syncing
    /\ syncing' = FALSE
    /\ loaded' = TRUE
    /\ world' = Synced(Opened)
    /\ UNCHANGED <<confirmed, target, disk>>

\* ... and swallows whatever it raises.
SyncRaises ==
    /\ syncing /\ FaultyStorage
    /\ syncing' = FALSE
    /\ UNCHANGED <<confirmed, target, disk, memory>>

\* A view of the mission loads its world.
View ==
    /\ ~syncing /\ ~loaded
    /\ loaded' = TRUE
    /\ world' = Resumed
    /\ UNCHANGED <<confirmed, target, disk, syncing>>

\* NetworkCycle.observe reports an address without route.
MarkUnreachable(l) ==
    /\ ~syncing
    /\ history' = Unreachable(history, l)
    /\ UNCHANGED <<confirmed, current, disk, memory, syncing>>

\* Faulty variant: rows are written by canonical key, whatever their id.
PersistByKey(w) ==
    /\ rows' = [l \in Locators |-> IF w.hosts[l] # None THEN w.hosts[l] ELSE rows[l]]
    /\ saved' = w

\* persist_cycle: one transaction, which a second id for a key rolls back.
Persist(w) ==
    \/ /\ ~Clash(w)
       /\ rows' = [l \in Locators |-> IF w.hosts[l] # None THEN w.hosts[l] ELSE rows[l]]
       /\ saved' = w
    \/ /\ Clash(w) \/ FaultyStorage
       /\ UNCHANGED <<rows, saved>>

\* A cycle: the world is seeded if it is blank, evidence about the hosts of
\* found and naming the address of seen is stored and applied, the address is
\* observed, and the world is saved, if the storage takes it.
Cycle(found, seen) ==
    /\ confirmed /\ ~syncing
    /\ evidence' = evidence \cup found
    /\ loaded' = TRUE
    /\ world' = Correlated(Seeded(Opened), found, TRUE)
    /\ \/ seen = {} /\ UNCHANGED history
       \/ \E l \in seen : history' = Observed(history, l)
    /\ Persist(world')
    /\ UNCHANGED <<confirmed, current, seeds, syncing>>

\* The process ends, between two commands or before the engine is synced.
Restart ==
    /\ loaded \/ syncing
    /\ loaded' = FALSE
    /\ world' = Blank
    /\ syncing' = FALSE
    /\ UNCHANGED <<confirmed, target, disk>>

\* One host and one address per cycle at most.
Few == {{}} \cup {{l} : l \in Locators}

Next ==
    \/ ConfirmMission
    \/ \E l \in Locators : ConfirmLocator(l)
    \/ \E l \in Locators : MarkUnreachable(l)
    \/ SyncHosts
    \/ SyncRaises
    \/ View
    \/ \E found, seen \in Few : Cycle(found, seen)
    \/ Restart

Spec == Init /\ [][Next]_locatorVars

-----------------------------------------------------------------------------
(* Correctness.                                                            *)

TypeOK ==
    /\ confirmed \in BOOLEAN
    /\ current \in Locators
    /\ history \in Seq(Entries)
    /\ rows \in Rows
    /\ seeds \subseteq Locators
    /\ evidence \subseteq Locators
    /\ saved \in Worlds
    /\ loaded \in BOOLEAN
    /\ world \in Worlds
    /\ syncing \in BOOLEAN

\* Whatever is observed, lost from the network and confirmed in whatever
\* order, an address has one entry in the history, the current address has
\* one, and no other entry claims to be current (mission/locator.py).
OneCurrent ==
    /\ \A i, j \in DOMAIN history :
          history[i].locator = history[j].locator => i = j
    /\ current \in Known(history)
    /\ \A i \in DOMAIN history :
          /\ history[i].status = "current" => history[i].locator = current
          /\ history[i].locator = current => history[i].status \in {"current", "unreachable"}

\* The mission aims only at an address its frozen scope allows, and that
\* address has a seed row from which a world can be rebuilt, across commands
\* that fail, restarts and lost syncs (service.confirm_locator).
CurrentIsAuthorized == current \in InScope /\ (confirmed => current \in seeds)

\* Addresses enter the history and never leave it or change places, and the
\* address a confirmation replaces is on record as historical (SPEC 2.2.1).
HistoryGrows ==
    [][/\ Len(history) <= Len(history')
       /\ \A i \in DOMAIN history : history'[i].locator = history[i].locator
       /\ current' # current =>
             \E i \in DOMAIN history : history'[i] = Entry(current, "historical")]_locatorVars

\* The row of a host keeps its asset id for ever: claims, ports and services
\* refer to it (storage/sqlite.py save_assets, storage/schema.py).
RowsKeepIdentity ==
    [][\A l \in Locators : rows[l] # None => rows'[l] = rows[l]]_locatorVars

\* An address the operator replaced is not an action target any more.
RetiredNotTargeted ==
    \A i \in DOMAIN history :
        history[i].status = "historical" => history[i].locator \notin Targets

\* A canonical key has one asset: the World Model and the table name the
\* host of an address by the same id.
OneIdPerKey == ~Clash(world)
=============================================================================
