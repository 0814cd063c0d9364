# cyberx in TLA+

cyberx is a terminal program that runs reconnaissance missions against a target its operator
has authorized. A mission is drafted, its scope is confirmed and frozen, and then an autonomous
loop decides on one action at a time, has a policy authorize it, runs one adapter (nmap, DNS,
HTTP), stores what was found as evidence and updates a World Model from which the next decision
is made. Everything runs in one process and one thread; SQLite keeps the mission, the evidence
and a snapshot of the World Model.

Paths below are relative to `src/cyberx/` of the repository, line numbers of `docs/SPEC.md` to
that file.

## 1. Inventory

| Component | State it keeps | Operations | Interacts with | What makes it correct |
|---|---|---|---|---|
| Mission record (`mission/service.py`, `state_machine.py`) | status, pause flag, stop reason, iteration, scope lists, freeze | create, update_scope, confirm, start, pause, resume, stop, complete, fail, bump_iteration | called by the interface between cycles, by the loop within one | one row of the command table per change; the scope never changes after confirmation and admits the target; an ended mission stays ended |
| Scope validation (`mission/scope_build.py`, `scope/`) | none | validate lists, add the target, check a subject, mark assets | service, policy, World Model | what validation accepts, the policy's check accepts for the target |
| Locators (`mission/locator.py`, `seed.py`, `engine/observe.py`) | current, observed, historical, unreachable locators | observe, confirm, mark unreachable, sync into seeds | service, loop, interface | one current locator, inside the frozen scope; history is kept |
| Autonomous loop (`engine/loop.py`, `apply.py`) | failure counter, stall counter, last progress, worlds in memory | guard, decide, act, defer, finish, note progress | all others | limits end a mission, and only when reached; no cycle is left uncounted |
| Execution boundary (`engine/boundary.py`, `recon_executor.py`), policy (`policy/engine.py`) | none | validate, authorize, execute | loop, adapters | no adapter without validation and an allowing decision |
| Coverage (`actions/coverage.py`) | one status per coverage key, in the World Model | next status, blocking test | planner, loop | a key is tried at most twice; a blocking status is final |
| Storage (`storage/sqlite.py`, `engine/persist.py`) | tables of missions, evidence, snapshots, coverage, counters, results | three transactions per cycle, resume, rebuild | loop | what resume builds is what was stored |
| World Model (`world/`) | assets, claims, gaps, findings, hypotheses, coverage, applied evidence, revision | seed, apply evidence, record coverage and hypotheses, hydrate, rebuild, snapshot | loop, brain | facts come from evidence only; replay gives the same world |
| Brain (`brain/`) | none | build context, propose, score, select | loop | nothing covered is proposed; "objectives met" only without open gaps |
| Hypotheses and AI (`brain/hypotheses.py`, `engine/hypotheses.py`, `ai/`) | hypotheses, budget of calls | revise, support, retire, advise | World Model | AI makes no facts, its confidence is capped, its budget holds |
| Network (`network/`) | last observation | observe interfaces, routes, reachability | loop, planner | actions are withheld while the target is unreachable |
| Evidence (`evidence/`), adapters (`recon/`) | none (processes, sockets) | run, parse, redact, check integrity | boundary, loop | artifact to evidence without loss, failure reported as failure |
| Validation and graph (`validation/`, `graph/`) | verdicts on findings, written back by `sync_findings`; the graph is rebuilt | judge a finding, propose its probe, walk from a question to a host | brain, World Model | a finding asks for a probe only while nothing answers it; paths lead to hosts in scope |
| Facade, reports, interface (`app/`, `tui/`) | view state | forward calls, render, dispatch keys | service, loop | views change nothing, with the exceptions below |

Not every view is one: each refresh of the dashboard calls `NetworkCycle.observe`, which may
mark a locator unreachable and append a timeline event, even for an ended mission. `q` pauses a
running mission; Ctrl-C or the end of input leaves it RUNNING. A draft chosen among the
resumable missions cannot be confirmed from the dashboard.

Hard behaviours: the process may be killed at any point (Ctrl-C in the interface is a kill)
between three transactions per cycle; a commit may raise `StorageError`, after which the
process lives on with a memory that is ahead of the database; counters are kept in memory, in
the database and implicitly in coverage; missions end in the middle of a cycle. Evidence
arrives in batches whose rows may contradict each other and earlier ones; questions, findings
and hypotheses are recomputed from what is believed after each row, and again when a snapshot
is caught up with the table. The planner answers a question by an action aimed at a page or
host it picks itself, which need not be the one asked about. An adapter follows redirects,
loses answers and may raise. What cannot happen is two threads or two processes working on one
mission: the World Model has a lock, but the program never starts a second thread on it.

`PROJECT.json` lists every component with what is modelled of it, and the hazards with the
lines where they bite.

## 2. Modules

| Module | What it is |
|---|---|
| `MissionLifecycle` | The mission record and all commands on it. |
| `MissionContract` | What a mission promises its operator, without cycles, storage or World Model. |
| `MissionEngine` | Extends `MissionLifecycle` with the loop, the World Model's coverage and applied evidence, the database, crashes and storage faults. Implements `MissionContract`. |
| `TargetLocator` | The addresses of the target: the history in the record, the rows of their hosts in the database and the hosts in the World Model. |
| `Beliefs` | Assets and claims: correlation of a row, support, contradiction, confidence and status. Operators on a world. |
| `Inquiry` | Extends `Beliefs` with what follows from beliefs: gaps, findings, validation, hypotheses, drafts of an AI provider. |
| `KnowledgeBase` | Extends `Inquiry`: the life of a world through cycles, batches of rows, saves, crashes and replay. Implements `EvidenceLog`. |
| `EvidenceLog` | What evidence and resume promise: a table that grows, and a reader that takes its rows in order and none of them twice. |
| `ReconWorld` | What may be found, has been found and has been tried; scope and target. |
| `Reachability` | Extends `ReconWorld`: routes and links make the status of the network. |
| `Selection` | Extends `Reachability`: proposals, filters, scores, decision. |
| `Adapters` | Extends `ReconWorld`: carrying an action out, one request, query or process per step. |
| `ReconCycle` | Composes `Selection` and `Adapters` in the cycle of a running mission. |
| `MissionLifecycleProofs`, `MissionEngineProofs`, `TargetLocatorProofs`, `InquiryProofs`, `KnowledgeBaseProofs`, `KnowledgeHistoryProofs`, `ReconCycleProofs` | Theorems and proofs. |
| `WellOrder` | A lemma three of them use: a set of numbers has a least element. |
| `MCMissionLifecycle`, `MCMissionEngine`, `MCTargetLocator`, `MCKnowledgeBase`, `MCReconCycle` | Small instances for TLC. |

Three views of one system, then, each abstract where another is detailed. `MissionEngine` cuts
a cycle at its commits and knows of a key only whether it is covered; `KnowledgeBase` knows
what the rows say and nothing of limits; `ReconCycle` knows which action is chosen and what it
asks, with claims that are only added and no storage.

Definitions whose comment begins with "Faulty variant" stand before the definition they would
replace. They are no part of the specifications: each is a plausible programming error, and the
property it is paired with in `PROJECT.json` (`mutants`) is violated when it takes the place of
the right definition.

### MissionLifecycle

One variable per field of the record that a decision depends on. A scope list is a pair of sets
of subjects and the subdomain flag; which subjects an entry covers (the same address, a network
containing it, a name below a domain) is data, given by the constants `Exact`, `Subdomains` and
`Excludes`, so that the theorems hold for every such relation in which an entry covers itself.
`Move` and `End` are `_transition` with the rows of the command table; `Confirm` adds the
target to the lists, validates and freezes, as `confirm` does.

### MissionEngine

A *key* is one coverage key (an action aimed at a subject) together with the knowledge gap the
action closes. A row of evidence names the key whose action found it and the keys its assets
give rise to, which may be any of `Opens[k]`: an action that is run again, after a crash or
because its first run had failed, may bring other ones. A key aimed outside the scope is *barred* if a scope gate was attached when
its asset came in. `Gapless` keys are proposed without a gap, as `network_discovery` is.

| State | Code |
|---|---|
| `evidence`, `checkpoint` | the evidence table; latest snapshot with coverage and `mission_runtime`, written together |
| `world` | `InMemoryWorldModel`: rows applied, live and barred assets, coverage |
| `failures`, `stalls`, `moved` | `_failures`, `_stalls`, revision against `_last_progress` |
| `pc`, `act` | where in `run_one_cycle` the process is and what local variables it holds |
| `attempts`, `runs`, `streak`, `dry` | history variables; the code has no such counters |

A cycle is cut where it commits. `Execute` runs the adapter; `ResultCompleted` or
`ResultFailed` follows `save_execution`; `EvidenceSaved`, `NothingFound` or `ParseFailed`
follows the parser; `ActionCovered` records the coverage; `Count` is `bump_iteration` with
`_note_progress`; `Close` is a completion in mid-cycle; `Save` is `persist_cycle`. `Crash` may
come anywhere, `Restart` is `_load_world`, and `Abort` is a commit that raises: the cycle is
over and the memory stays, since the interface catches the exception.

Left open here: scores (any candidate may be chosen), hypotheses and validation (the revision
may move in a cycle without an action), reachability and budget of time (a cycle may find
nothing to do; the runtime limit may strike at any time), the result of an adapter.

Simplifications: an execution stores at most one row, standing for its batch; a gap once
answered is not opened again (in the code an invalidated claim can open it again); the
mode-dependent checks of prefix lengths are left out; a draft's world is not viewed before it
is confirmed; reads of the database do not fail (a resume that fails is in `KnowledgeBase`).

### TargetLocator

A module of its own, because it is about the one thing `MissionLifecycle` and `MissionEngine`
leave out: that a target's address can change. `current` and `history` are the fields of
`Target`; `rows`, `seeds`, `evidence` and `saved` are what SQLite holds of the hosts (the id of
an address's row, whether it is a seed, whether evidence about the host is stored, the latest
snapshot); `world` is the World Model, if `loaded`. Asset ids matter only in being the same or
not for one address, so two ids suffice.

| Action | Code |
|---|---|
| `ConfirmMission` | `MissionService.confirm`: seed row of the first address |
| `ConfirmLocator` | `MissionService.confirm_locator`: the whole command, one transaction; disabled where it raises (outside the scope, or a row under another id is in the way) |
| `SyncHosts`, `SyncRaises` | the second half of `facade.confirm_locator`; nothing else can happen in between but a crash (`syncing`) |
| `View` | `MissionEngine.world` on first use |
| `MarkUnreachable` | `NetworkCycle.observe` and `mark_locator_unreachable` |
| `Cycle` | what a cycle does to all this: seeding at revision 0, evidence, observed addresses, `persist_cycle` |
| `Restart` | the process ends; memory is lost |

The target has a single host (an address or a host name). The labels of hosts, the limit of
five investigation paths and the questions that decide which action is proposed are left out:
`Targets` is the set of hosts an action *may* be proposed for.

### Beliefs and Inquiry

An *asset* is one canonical key, `ParentOf` the key inside a key (of a port its host, of a
service its port). A *fact* is one row of evidence: subject, predicate, object, reliability,
the run and parser it comes from, and the further assets its correlation touches. A claim is a
triple with its confidence, status, evidence for and evidence against. A world is one record,
the fields of `InMemoryWorldModel`; `Correlate`, `MergedClaims`, `Shown` and `MergeClaim` are
the stages of `apply_evidence`, and `Finalized` is `_finalize_revision`, which recomputes gaps
and findings. Confidence is an integer percentage, as the code rounds it.

`Inquiry` has the eight kinds of gap with their own rules of being closed, the prefix test of
`gaps.py:100` included (`Spelled`), findings by asset and signal, validation with its
write-back (`Synced`), and the hypotheses: templates, support by findings, retirement,
confidence, and drafts which `validate.py` caps.

A finding holds `MaxEvidence` rows at most (sixteen, `world/findings.py:72` and `:102`): one
that is full takes in no further row, and is invalidated when all it holds is overruled, though
a live row may be there; the next revision reports it anew (`Taken`, `SeenAgain`).

Simplifications: which rows come first when a list is cut is given by one fixed order
(`RowOrder`), where the code goes by the order in which a world made its claims, which is
another after a rebuild; the tables of signals are data, and so are the words that connect a finding
with a hypothesis; one hypothesis per core statement; titles, severities and the wording of
statements are left out; the caps on the context of a prompt are not reached.

### KnowledgeBase

| State | Code |
|---|---|
| `stored` | table `evidence`, in the order of its rows |
| `saved` | latest row of `world_snapshots`: a world and `last_evidence_id` |
| `world`, `queue` | the World Model, and the rows handed to it and not yet applied |
| `phase`, `doing` | where in the cycle the process is, and the key it works on |
| `blind` | the process failed to resume a snapshot there is, and its own may be passed over |
| `calls`, `cycleCalls` | the budget of calls of `ai/budget.py`, which lives in memory |
| `spent` | history: calls of all processes together |

| Action | Code |
|---|---|
| `Deliberate` | `engine/hypotheses.py`: findings validated, hypotheses revised, perhaps a call for drafts, which may fail |
| `Advise` | the provider is asked for scores; it changes no world |
| `Execute`, `Fail`, `Defer` | an adapter whose rows are stored in one transaction, one that fails, a cycle without an action |
| `ApplyRow`, `Record` | `apply_evidence` row by row, then the coverage |
| `Interrupted` | `observe_locator` raises after the rows were applied: no coverage, no save |
| `Save`, `SaveFails` | `persist_cycle`; the snapshot of a `blind` process may have a lower revision than the stored one, which then stays the latest |
| `Crash`, `Restart`, `Resumed` | process killed; `Rebuild` without a snapshot, `Hydrate` with one; the tail is applied row by row and the scope gate is attached after it |
| `ResumeFails` | `resume_world` raises, `engine/persist.py` returns `None`, and the loop seeds a new world |

### ReconWorld, Reachability, Selection

A port is `<<address, number>>`, a page `<<host, number, path>>`, a fact `<<kind, thing>>`, a
candidate a coverage key, which says whether its parameters are those of an open port or of a
URL: the same page has two keys then, as it has in the code. `Selection` follows `planner.py`
proposal by proposal, with the page or host each one *picks* (`Foremost`, `First`), then
`FromValidation` and the investigation paths, then the filters, the scores and the choice.
Scores are integers in 1/40000; what `_intel_for` adds is left open between nothing and its
most, so that a candidate is chosen if it *may* win. Advice of a provider shifts every score by
at most `Swing`.

`Reachability` takes the address the code takes (the first ever resolved or confirmed, before
the current one), the route by longest prefix and metric, and the state of its interface.

### Adapters and ReconCycle

`Adapters` has one action for each way a request ends: answered, failed or lost, an error
nothing catches; the canary of directory enumeration and its word list; endpoints from a stored
artifact; queries by record type and by name; the scan, bound to an interface or not. What is
out there (`Site`, `Zone`, `Open`) is constant. Each adapter's artifact goes to a parser of its
own (`Parsed`, `evidence/registry.py`): that of a probe tells of the page, its status and links
and the `Server` header, that of technology detection of technologies and nothing else
(`TechFacts`). `files` are the answers that are stored, by the page asked for, the page that
answered in the end, and whether there was a body; `endpoint_discovery` reads them. `Trouble` counts what disturbs it: a lost
answer, an interface that goes down, advice.

| Action | Code |
|---|---|
| `Observe`, `Select`, `Stop` | `NetworkCycle.observe`; `propose`, `score`, `select`; a decision not to act |
| `Begin` (in `Select`) | policy: a key out of scope is denied, and stays denied |
| `Work` | the adapter's steps |
| `Learn` | `apply_completed_artifact`: coverage, facts with the page and host they are about (`Correlated`), addresses in scope recorded in the target's history |
| `Relocate` | `confirm_locator` with the sync into the World Model, between cycles |
| `LinkDown`, `LinkUp` | interfaces, between cycles |

Left out here: rejected artifacts and parse failures (in `MissionEngine`), contradicting claims
(in `KnowledgeBase`), network discovery, ports and protocols of the policy, the subdomain
adapter's own budget of time, and findings of kinds that propose no request.

## 3. Runs

| Run | Question | Size |
|---|---|---|
| `lifecycle` | Is the record's authorization and its end safe from every sequence of commands? | 1,440 states |
| `engine_outages` | Do budgets, coverage, the end and the contract survive a crash and a storage fault at any point? | 1,455,991 states |
| `engine_steady` | Without outages: are the limits exact, and does a run end? | 81,477 states |
| `engine_resume`, `engine_followups`, `engine_parse_failures`, `engine_sweep` | Four sentences of `docs/SPEC.md` that the code does not keep | counterexamples |
| `locator_trail` | Do scope, seeds, history and asset ids survive every order of observations, confirmations, faults and restarts? | 50,820 states |
| `locator_identity`, `locator_cap` | Two more such sentences, about assets and former addresses | counterexamples |
| `knowledge` | Are beliefs what the rows say, and questions, findings and hypotheses what follows from them, through contradictions, advice, restarts and a resume that fails? | 138,879 states |
| `cycle` | Does a mission ask only what it may, settle only what was answered, drop no question, and come to rest? | 56,439 states |

Deadlock is not checked: a mission that has ended does stop.

**Bounds.** Three keys: the target's scan opens a probe of the target and a probe of a
neighbour, which one draft of the lists allows and the other does not. This gives every role a
key can play (root, follow-up in scope, follow-up out of scope), and no definition compares
more than two keys. Limits of two failures and two stalled cycles (three in the steady run) are
the least that distinguish "one more" from "the limit"; `MaxIterations` is above them so that
both the limits and the iteration guard are reached. The code's values (5, 3, 50) differ in
size only, and the theorems hold for all. `MaxCrashes` and `MaxFaults` bound exploration; one
of each is enough for a restart after an aborted cycle and the reverse, and the theorems hold
for any number. A run brings any part of what its key may raise, so that a key asked again
after a crash can open less or more than before.

In `locator_trail` two addresses are allowed and one is not: enough for an address to be
promoted, replaced, promoted again and to be refused. A cycle brings at most one host and one
address (`Few`); a batch is a sequence of such cycles without a checkpoint in between.
`locator_cap` scales the code's cap of eight former addresses down to one and has four
addresses; in both locator counterexamples storage never fails.

`knowledge` has a host whose port is reported open, then closed, then open again by a less
reliable source in another run, so that a claim is contradicted, overruled and supported once
more; a service with two pages, one of which gives a finding and a hypothesis; and a host out
of scope, `h10`, whose key begins with the text of the key of `h1`. A batch of two rows can be
cut between them; nine rows in four batches, three cycles, one crash and one fault (a save, a
resume or the recording of an address) give every order of save, loss and replay. A finding
holds one row instead of sixteen: one page's first status gives a finding, a later batch says
another status and with it gives the finding a row it has no room for. With `MaxCalls = 1` a
cycle never reaches its own share of two calls in this instance; the theorem covers it.

`cycle` has a name with a web server whose root page redirects out of scope and whose hidden
page is in a loop of redirects and links to a closed port, what runs it being told by the first
page's fingerprints and not by a probe; a word list with a page that is missing and one that
is not; a name whose host answers any path;
an address where something else listens on port 80, so that an HTTP probe raises; and an
address out of scope. The mission is aimed at the name with everything but its domain in scope,
or at an address with the name in scope. Two redirects are the least that tell a loop from a
limit; one trouble and one change of address may come at any moment. A retry that runs out
needs two failures of one key, which with one trouble happens only for failures that are
certain; `MissionEngine` has them all.

In `lifecycle` a parent domain, a sibling and the target make the case in which a draft covers
the target only through its parent and subdomains are off.

**Fairness.** `FairSpec` asks weak fairness of `Cycle`: `run_forever` and the dashboard's auto
mode call the next cycle as soon as the last has returned, and inside a cycle there is no
waiting except for an adapter, which has a timeout. The operator is given no fairness, and
neither are restarts: after a crash or a storage fault auto mode is off and nobody need come
back, so liveness is claimed without outages only. `CycleSpec` asks the same of the engine's
own actions (`Engine`): the loop is one thread that goes on as long as it finds something to
do. Relocations and the links are given none. `ComesToRest` has an exception that is real: a
probe that raises leaves no coverage, so the same action is chosen again and for ever. In the
program the failure limit is not reached by this either, for the exception passes `_act`; auto
mode ends at the first one, which is the interface's doing and not the loop's.

**What the passing properties say**

- `AttemptBudget`, `ExecutionBudget`: a key is run at most twice and a mission runs at most
  `max_iterations` adapters, plus one for each interruption. The addition is real: the adapter
  runs before anything about it is saved.
- `NoEvidenceLostLater`: applied rows are a tail of the table, so only rows stored before the
  first applied one can be missing from a world.
- `CompletionIsJustified`: when `objectives_met` is reported, there is a tail of the evidence
  table such that every gap in scope which the target or the tail raises is answered by the
  tail. Without a crash the tail is the whole table. With one it need not be: a resumed world
  may have forgotten the first rows (departure 1), asks again what they had answered, and the
  second answer may raise less, so that a gap only a forgotten row raised stays open for good.
- `CoverageIsFinal`, `EndIsQuiet`: nothing is run again while the process lives, and nothing
  happens to a mission after its end.
- `FailureLimit`, `StallIsEarned`, `RunEnds`: counters and history agree; a run ends.
- `CountersAreEarned`: a restart may restore counters of before the last success, so a mission
  may be ended too early; but they exceed the failures in a row and the idle cycles by at most
  a limit's worth for each interruption.
- `ContractKept`: the refinement of `MissionContract`.
- `OneCurrent`, `HistoryGrows`: the list of addresses has no duplicate, names exactly one
  leading address, the one in `current_locator`, and loses nothing.
- `CurrentIsAuthorized`: a confirmation that fails half-way leaves a target that is still in
  scope and still has its seed row.
- `RowsKeepIdentity`: whatever ids the World Model uses, the table's never change; a world that
  disagrees is refused, not written.
- `RivalsAreLinked`: two claims that differ on one subject each list evidence of the other as
  contrary. `DoubtNeedsARival`: confidence is lost only to a rival first heard of, and what is
  overruled stays so while the process runs.
- `BeliefsFollowEvidence`: no hypothesis, advice, coverage or save touches a claim.
- `ReplayAgrees`: claims and the values of assets are the fold of the learned rows in the order
  of the table, whatever snapshots and crashes lie between. It is a fold over *learned* rows,
  since some are forgotten (departure 1).
- `SnapshotsNameTheirRows`: a snapshot holds what the rows up to the one it names say, and
  nothing that comes after, so that the tail is neither applied twice nor in part skipped. (If
  it names none, the tail is skipped as a whole: departure 1.)
- `LogIsRead`: the refinement of `EvidenceLog`. Rows are read in the order of the table, none
  twice; a process begins with nothing or with what was kept last, also where snapshots are
  passed over because a resume had failed.
- `GapsAreCurrent`, `QuestionsAreAnswered`: no stale question, also between two rows; and a
  closed one was closed by a row about that host or service.
- `FindingsAreGrounded`: an open finding rests on a claim not invalidated, and what there is
  reason to report is reported. The one exception is real: a finding that is full and whose
  rows are all overruled is not open for one revision.
- `AdviceStaysAdvisory`, `CallBudget`: the cap of a drafted hypothesis holds through support,
  retirement and revival; calls per process and per cycle are limited, and all processes
  together make at most one budget each.
- `RequestsStayInScope`: no redirect leads a request outside, none is sent twice.
- `CoverageIsEarned`: what is settled as completed was answered. Of a page probed or
  fingerprinted there is an answer stored whose facts, as its own parser reads them, are on
  record; after an enumeration each word has a status, unless the host answers any path alike;
  and only scans, whose process may be missing, are ever unavailable. It holds although the
  directory adapter's field may show the result of an earlier run, which can turn a good
  enumeration into a timed-out one, but not the reverse.
- `OldAddressesLeftAlone`: no scan of an address the target has left, whichever question, port
  or path proposed it, and none at all on a blocked network.
- `RestIsEarned`: a mission at rest on a network that is up has exhausted the own action of
  every question it pursues. What it does not pursue is in the definition of `Pursued`, and
  each exception is needed: hosts that are not in the context, addresses that are obsolete, and
  subdomains while a name is unresolved (`planner.py` withholds them, for ever if the name
  never resolves). The first exception includes the *current* host when its address was
  confirmed, replaced and confirmed again: its label as historical is never taken back, so
  its questions are dropped. It takes two changes of address, one more than the run has.
- `ComesToRest`: cycles end, or a probe raises again and again.
- `AuthorizedTarget`, `FreezeIsFinal`, `EndIsFinal`, `FlagsAgree` for the record.

**Where the code departs from its specification**

1. *Resume* (`ResumeReplaysEvidence`, SPEC 1046 and 1677). A snapshot that names no last
   evidence makes `resume_world` treat every stored row as already applied. The trace: a first
   cycle stores nothing and saves its snapshot, the next stores evidence and dies; after the
   restart the row is in the table and in no world.
2. *Follow-ups* (`FollowupsInScope`, SPEC 1156 and 1484). The gate is attached after the tail
   has been applied, so replay brings in out-of-scope assets without a mark. The policy still
   denies their actions (`ContractKept`), at the price of a cycle each.
3. *Parse failures* (`FailuresEndMission`, SPEC 1605). A completed adapter clears the failure
   counter before its artifact is parsed; rejected artifacts never add up.
4. *Objectives* (`ObjectivesNeedEvidence`, SPEC 1120). For a network target the discovery has
   no gap. Once it is over, whatever came of it, nothing is eligible and no gap is open, and the
   mission ends with its objectives met. The trace: the discovery is denied, as it is before the
   time window of the scope opens (`scope/checker.py:43`), its key is covered, and the next
   cycle finishes with an empty evidence table. So it ends after a discovery that failed for
   good, was unavailable or found no host.
5. *Two ids for one host* (`OneIdPerKey`, SPEC 323 and 992). Confirming a locator saves a seed
   host, and the sync that follows mints another for the same address. `save_assets` resolves
   conflicts on `asset_id` only, so with SQLite the next checkpoint, and every one until the
   process ends, fails on the unique key. The reverse order, a host found by a cycle and then
   confirmed, makes the confirmation itself fail (`SeedRow` is disabled).
6. *Former addresses beyond the eighth* (`RetiredNotTargeted`, SPEC 1619). The Brain learns of
   eight former addresses and the previous one; any other address the operator replaced is
   treated as live.

**Seen while modelling, and in the model as the code has it**, without a run of their own:

- A rival that is weaker than a claim lowers it and may be CONFIRMED beside it (SPEC 968, 977);
  the asset's value is that of the latest row, also of a weaker one (SPEC 977). A claim that
  was invalidated stays so when it is supported again, but the row still sets the asset's value
  (SPEC 1001).
- A gap is closed by the value of an asset even if the claim behind it is only suspected or was
  invalidated (SPEC 1022). `host.ports_unknown` is closed by a port of another host whose key
  begins with the host's (`world/gaps.py:100`). `service.directories_unknown` is closed by any
  URL of the host, on any port.
- `is_independent` never sees the type of the action, so two runs are independent only if their
  parsers differ (SPEC 3.6).
- A finding whose sixteen rows were all overruled is invalidated although a live row gives
  reason to report it, and opened again in the next revision.
- `draft_report_section` (`ai/budget.py:108`) is not counted by the budget; nothing calls it.
- A hypothesis gains confidence each cycle from the same findings (SPEC 570), and support takes
  up a retired one again.
- The budget of calls belongs to a process: a restart grants a mission a new one (SPEC 1563).
- `endpoint_discovery`, `directory_enumeration` and the second `http_probe` are aimed at one
  page picked for all (`_probed_page`, `_pick_url`); a web service on a port outside 80, 443,
  8080 and 8443 is never probed once any URL is known. A page can be probed under two coverage
  keys.
- An open port of a replaced host is scanned at the host that comes first in the context.
- Reachability is judged by the first address ever resolved. An address a name resolved to
  counts as obsolete until it is confirmed. URLs at a former address are not recognised as
  such.
- The HTTP parser books status, body and links of the last page of a redirect under the first
  URL. `endpoint_discovery` may read the artifact of an older probe, and the directory adapter
  reports the results of the last word list if its canary fails.
- A DNS query whose socket fails counts as completed. A candidate that cannot be reached is
  stored as a URL with status 0. An exception of an adapter passes `run_one_cycle`.
- A resume that fails is swallowed (`engine/persist.py:33`): the mission goes on with a seeded
  world, and its snapshots may be passed over for the older one with the higher revision.
- A host labelled historical stays so when its address is confirmed again: it is in the lead,
  and missing from the context.

## 4. Proofs

All theorems are about every value of the constants that satisfies the `ASSUME`s of the
modules, which TLC evaluates in each run:

- `ScopeAssumption` (coverage functions are well typed and the target's own entry covers it,
  which is `target_allow_entries`), `IterationAssumption`, `KeyAssumption` (root keys are aimed
  at the target), `LimitAssumption`, `LocatorAssumption` (the first address is in the frozen
  scope, which is `TargetIsAuthorized`).
- `AssetAssumption`, `FactAssumption` (rows are about assets, reliabilities are percentages),
  `FiniteAssumption`, `DraftAssumption`, `BudgetAssumption`, `BatchAssumption`.
- `NestingAssumption`: the canonical keys of `world/keys.py` are at most four deep, hosts stand
  alone, a port has a host, and seeds are hosts, domains or URLs (`mission/seed.py`).
- `RowAssumption`: no row of evidence comes twice with one identity (`evidence/factory.py`
  draws a new id for each; `storage/schema.py` keeps them unique). Two rows may say the same.
- `OrderAssumption` (rows are ordered, a finding holds at least one).
- `ThingAssumption` (finitely many addresses; a page is not a host and has one), `RankAssumption`
  (canonical keys are ordered), `TargetAssumption`, `RouteAssumption`.
- `SiteAssumption`, `NameAssumption`: the types of what is out there. Nothing is assumed about
  where pages redirect or link to, what names resolve to, or what is in scope.

*MissionLifecycleProofs.* Types, `AuthorizedTarget`, `FreezeIsFinal`, `EndIsFinal` and
`FlagsAgree`. The step that matters is `ConfirmedListsAdmitTarget`: lists that validation
accepts once the target is among them admit the target under the policy's check, whatever the
subdomain flag says. `FreezeIsFinal` needs to know that a frozen scope has left CREATED.

*MissionEngineProofs.* `AttemptBudget` and `ExecutionBudget` are not inductive: they bound
history by limits that no single action looks at. `EngineInv` adds

- `CycleInv`: a cycle in progress belongs to a live process, a running mission below its limit,
  and a key whose coverage is open;
- `RunLedger`: every execution has been counted as an iteration, except the one in progress and
  one for each interruption;
- `AttemptLedger`: the attempts of a key are at most what its recorded status accounts for
  (none 0, attempted 1, blocking 2), plus one for the run in flight, plus interruptions, and
  this both for the coverage in memory and for the one in the checkpoint. A restart is where
  the second takes the place of the first.

`EngineInit` and one lemma for each part (`StepType`, `StepCheckpoint`, `StepCycle`,
`StepRuns`, `StepAttempts`), with one step per action, prove `Spec => []EngineInv`. From it
follow the two budgets, `EndIsQuiet`, `CoverageIsFinal` and the refinement
`EngineKeepsContract`, whose steps are: `UpdateScope` is a `Redraft`, `Confirm` an `Authorize`,
start, pause and resume a `Switch`, stop and every completion a `Finish`, `Execute` a `Touch`,
and all else a stutter. `LaterEvidenceIsKept` uses a second invariant, `RowsInv`: the rows in a
checkpoint have no gap between them.

*Counters.* `CountersStayEarned` needs three more parts, for the counters mean different things
at different points of a cycle: `LocalsInv` (what the local variables say: a counter is cleared
before its result is parsed, progress noted is progress in the world), `FailuresInv` and
`StallsInv`, which bound the counter in memory *and* the one in the checkpoint, since a restart
puts the second in place of the first. `Room` is what a counter may hold at rest: one less than
the limit, plus one for each storage fault, after which the end of the mission was not stored.
The assumption `MaxFailures > 1` is needed: a parse failure is counted without a test of the
limit. `FailuresAreLimited` and `StallsAreEarned` are the same without outages (`MaxCrashes =
0`, `MaxFaults = 0`), where the bounds are exact.

*Completion.* `CompletionStaysJustified` is about a world that may have forgotten rows, and
about actions that answer differently when asked again. `Knows` says of the world and of the
checkpoint's that every key a row they applied raises is in them, live or barred, and barred
only if out of scope; `AppliedFrom` that the rows they applied are those of the table from some
row on. `WholeInv` adds that without a crash this is the first row. When nothing is eligible
and no gap is open, each key in scope that the target or an applied row raises is answered by
an applied row, and the applied rows are the tail the property asks for. Keys without a gap
need no hypothesis: the property does not ask for their answers.

*TargetLocatorProofs.* First three lemmas about any history (`ObservedKeeps`,
`UnreachableKeeps`, `PromotedLeads`), then typing lemmas for the worlds that seeds, snapshot,
evidence and history lead to. `LocatorInv` is the conjunction of the checked invariants and
`DraftInv` (an unconfirmed mission has no rows and its first address), without which the first
confirmation could overwrite a row or seed another address than the current one. `StepKept`
says in one formula what each step keeps, and all five theorems follow from it.

*InquiryProofs, KnowledgeBaseProofs.* `WorldInv` (types, rivals linked, capped ideas) holds of
every world, saved or in memory, and `Revised` (gaps and findings follow from the claims) of
every world between two operations. The lemmas of `InquiryProofs` say what each operator does
to them, from the arithmetic up: `RaisedRange` and `WeakenedRange` (confidence stays a
percentage), `RivalsAreMutual`, `MergedClaimsInv` (a row merged into claims keeps rivals
linked), `FinalizedIsCurrent` and `FinalizedIsGrounded` (a revision makes gaps and findings
current again; the second rests on `RoomIsUsed`: if a finding has room, the first row it lacks
gets in), `SameQuestions` and `SameReports` (which operations leave them so without one),
then `LearnInv`, `CoveredInv`, `DeliberatedInv`, `SeededInv` for whole operations.
`KnowledgeInv` adds the rows (`RowsInv`), the saved world (`SavedInv`: its last row is a row of
the table), the phases and the calls: `spent` is at most a budget for each crash plus the calls
of the process that lives. The invariant has to speak of the saved world because a restart
makes it the current one, with no revision in between if the tail is empty.
`BeliefsOnlyFromRows` and `DoubtOnlyFromRivals` follow from `ClaimsChange`, which says which of
the actions touch claims at all, and from `MergedClaimsReach` and `MergedClaimsDoubt`.

*KnowledgeHistoryProofs.* `ReplayAgrees` speaks of a fold over the table, written as a recursive
function. The library's induction theorems cannot be instantiated by these provers, but
`LeastElement` of `WellOrder` does instead: it follows from the well-founded inclusion of finite
sets, and every induction over numbers becomes an argument about the least number where a
statement fails. `ReplayUnfolds` shows in this way that the recursion has a solution,
`SameRowsSameOutcome` that the outcome depends only on the rows taken and their order,
`IdleRows` that rows not learned change nothing. `HistoryInv` then has five parts:

- `StoredInv`: no row is in the table twice, and each was brought by an execution so far;
- `QueueInv`: the queue is the end of the table, and `Behind` is where it begins;
- `Sourced`: the evidence of a claim is about that claim, and an asset that is no seed is named
  by a row learned, both in the current world and in the saved one;
- what a world has learned is among the rows registered as applied;
- `Recalled`: the rows a world has learned lie in front of `Behind`, and its claims and values
  are the fold of them; the same of the saved world and the row it names.

The last one is why a snapshot has to name its rows: a restart makes the saved world current,
and `Behind` becomes what the snapshot names. `LastAppliedCovers` closes the circle. If the
snapshot names none, the fold of no rows is what it holds, and all rows count as behind. One
lemma per action (`LearnEffect` and `RecalledNext` for the row that is applied) gives
`HistoryHolds`; `BeliefsAreReplayed` and `SnapshotsAreReplayed` follow at once.
`ClosedByAnswers` combines it with `GapsAreCurrent`: a question that is not open is answered by
a claim or by an asset that is present, and either came with a row learned (`ClaimHasRow`; the
line of keys it is named in is complete, `LineIsClosed`).
`KnowledgeReadsTheLog` is the refinement, step by step: `Execute` is a `Store`, `ApplyRow` a
`Read` or, for a row already registered, a stutter, `Save` a `Keep` or a stutter, `Crash` an
`End`, `Restart` and `ResumeFails` a `Begin`, and all else a stutter.

*ReconCycleProofs.* `CycleInv` joins what is kept between cycles (`KeptOK`: facts are about
things of their kind, addresses in use have been seen) with the action in hand: `AimOK`, its key
and the page it asks for are in scope; `TrailOK`, the pages asked for are in scope, differ from
each other and from the one to be asked for next, and are no more than redirects allow;
`ResultOK`, a probe or fingerprint that counts as completed has its answer stored and learned
what its parser makes of it, and a completed enumeration the status of every word (`Enumerated`
follows the words done so far through the job). The second and third are what `RequestsStayInScope` and `CoverageIsEarned` need to survive a step, since these
properties look at an action when it ends; `EarnedStays` says that what was earned stays so as
answers and facts are added. The lemmas
begin with proposals: every one is a coverage key (`PlannerKeys`, `OtherKeys`; `FirstIsOne`:
whatever has to be picked can be), and none of the sources, gaps, ports, domains, validation or
paths, offers a key that has run out or the scan of an address that has been left
(`OffersAreFair`). Then comes one lemma for each way a request ends and one for each action of
the cycle. `RestIsAlwaysEarned` uses `PursuedIsProposed`: a question
that is pursued is answered by a proposal of its own, and at rest no proposal is sure to be
admitted.

All invariants and action properties that the passing runs check are stated by these theorems,
and so are both refinements.

*Only model-checked:* `RunEnds` and `ComesToRest`, since liveness under fairness is out of the
prover's reach.

## 5. Plan

Built and proved about: the mission record, the engine, locators, the World Model with its
inquiry, its replay and the log it implements, selection, reachability, adapters and the cycle
around them. Left, in this order:

1. `PolicyScope`: ports, protocols, time window and mode as pure operators; the policy never
   allows what validation would not confirm.
2. `Facade`: views, edits and cycles together, with the world of a draft viewed too early,
   refreshes that observe, and runtime counters that are lost with a resume that fails.
3. Targets without a single host: networks with their discovery, domains, URLs; the labels of
   hosts.
4. The subdomain adapter's budget of time, and the caps of the context (50 assets, 50 gaps).

## 6. Not modelled

- Text: decoding of artifacts, redaction, titles and wording, rendering, reports, prompts. No
  decision depends on them but through the facts and tables that are modelled.
- Transport: processes and their limits, TLS, the AI provider with its cache. What they return
  is an input.
- IPv6 and the reading of `/proc`; arithmetic of networks; `allowed_protocols`, ports and time
  windows of the policy.
- Caps of 50 assets and 50 gaps in the Brain's context, and of the size of a prompt.
- Reads of the database that fail, but for those of a resume; tables that nothing reads back
  into a decision; delta kinds of the World Model that no caller sends.
- Queries and the tree of the graph, reports and observability: they are read only, or their
  failures are swallowed.
- Concurrency within the process, and two processes on one database: the program has neither.
