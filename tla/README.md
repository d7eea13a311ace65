# Verification of nshop_macro

TLA+ models of the repository's task distribution: the central task server
(`api/`), the runners that ask it for work (`run.py`) with what they remember
from cycle to cycle, the HTTP client between them (`src/core/api_client.py`), the
day's quota they keep together, the synchronisation that sets it, the live state
file, and the traffic records of the LTE dongle. TLC checks the models on small
instances, TLAPS proves the theorems for all of them. Paths below are relative to the repository's root. What happens on a phone or in
its browser is not modelled: a task's work appears only by how it ends.

## 1. Inventory

### Parts, their state and their operations

| Part | State | Operations | Talks to |
|---|---|---|---|
| Task API v2, `api/services/task_service_v2.py` | tables `tasks`, `nnbs`, `devices`, `daily_slot_quotas`, `target_products`, `product_keyword_pool`, `external_slots`, `device_groups` | `allocate` (sweep of overdue tasks, choice of tokens, quota, cooldown, quarantine, groups, keyword, insert), `report` (row, hit, keyword exposure, phone) | runners by HTTP, MariaDB |
| Task API v1, `api/services/task_service.py` | the same `tasks` and `nnbs`, and `nshop_list` | `assign_tasks`, `complete_task` | runners with `--api-v1`, and every runner when a v2 report fails |
| Synchronisation, migration, reset (same file as v2) | products, slots, quotas, keyword pool | `sync_external_products`, `migrate_from_nshop_list`, `reset_and_replace_targets` | partner sites |
| Device groups (same file) | `device_groups`, `devices.group_name` | create, update, delete, move a phone | dashboard |
| Token pool, `api/services/nnb_service.py`, `api/daemon_pool_maintainer.py`, `api/core/fast_harvester.py` | `nnbs` | bank, top up, assign, acquire, mark used, daemon loop | task API through the table |
| LTE traffic records, `api/routes/network.py` | log and daily sums | record, rebuild | runners |
| Runner, `run.py` `main` and `build_cycle_tasks` | cycle number, local quarantine, failure and success counts, campaign progress, all rebuilt from logs at start | a cycle: connect, gate, ask, start workers, wait, evaluate, change IP | task API, worker processes, network controller, state file |
| Worker process, `worker_process_entry` | none that outlives it | work until done, failed or cut off, then report | task API, state file |
| HTTP client, `src/core/api_client.py` | none | up to `max_retries` sendings of a request; report by v2, then by v1 | task API |
| Live state, `src/monitor/fleet_state.py` | one JSON file | read, change, replace | all processes |
| Watchdog, `src/monitor/fleet_watchdog.py` | log positions | judge a cycle, kill the runner | runner |
| Network controllers, `src/device/network_controller.py` | relay process, tunnels | setup, connect, toggle, verify | phones, dongle, router |
| Browser pipeline, device identity handling, analysis tools, scripts, dashboards | - | I/O with phones, browsers, files | - |

### Which behaviour is hard, and what makes a part correct

- **Task server.** Several runners and workers call it at the same time, calls are
  repeated, late, or missing. Correct means: a task that is handed out is
  eventually settled; what was reported is not undone; tokens are old enough and
  their use is counted; phones of one batch share nothing; cooldown and
  quarantine never leave phones without work while there is some; the day's
  target is respected.
- **Runner, worker, client.** Requests and answers get lost, workers die, the
  runner is stopped while tasks are out, or the watchdog kills main and its workers
  go on beside those of the next one. Correct means: only workers of a killed main
  share a phone with others; an acknowledged report stays recorded; a hit is counted
  only for work that succeeded; a cycle ends.
- **Both generations of the API together.** Two programs write the same tables.
  Correct means: ids never collide, token accounts stay right.
- **Live state.** Twenty writers of one file, with one temporary file and no lock,
  some of them killed. Correct means: with one writer the file is always what
  was written last; a crowd does no lasting harm; the fleet's own entry never goes back.
- **Cycle bookkeeping.** Quarantine and counts of a long run, across midnight and
  restarts, from memory and from logs, with workers whose result is lost. Correct means: a quarantine has a reason
  and an end; memory agrees with the history of the day; the cap holds.
- **Campaigns.** The same hit is recorded by main and by its worker, and restored
  from both. Correct means: nothing of today is lost, what was saved stays, a
  double count has a bound, and every open keyword has its turn.
- **Synchronisation.** Transactions of several sites that overlap each other,
  midnight, and an administrator. Correct means: targets are sums of slots, the
  row of the day follows, hits stay.
- **Traffic records.** Two ways to the same sum, over failed and doubled toggles, lost
  and repeated reports, a counter that starts again, and two transactions for each
  report. Correct means: no more is
  recorded than was used, what is missing is known, and every report is counted.

`PROJECT.json` lists every component under `components` and every place where one
of these behaviours may go wrong under `hazards`.

## 2. Modules

| Module | Models |
|---|---|
| `TaskTables` | The tables both generations of the API share, their types and initial state, the passing of time, the steps both share: sweep, token choice, insertion of a batch. |
| `TaskServiceV2` | `allocate` and `report` of v2, midnight. |
| `TaskServiceV1` | `assign_tasks` and `complete_task` of v1. |
| `TaskServer` | The v2 server with clients that may call anything at any time; its properties and inductive invariant. |
| `TaskServerBoth` | `TaskServer` and `TaskServiceV1` on the same tables; their inductive invariant. |
| `TaskRunner` | Runners, workers, orphans of killed mains and HTTP client around the server's actions; faults; refinement mapping to `QuotaLease`. |
| `QuotaLease` | Abstract: what the day's quota promises. |
| `RunnerCycle` | main's bookkeeping when the server chooses the work: failures, quarantine, exclusions, hits of the day, cycle logs, recovery. |
| `Campaign` | main's bookkeeping when it chooses the work itself: whose turn a keyword is, counts, baseline file, recovery. |
| `PartnerSync` | Slots, targets and rows of the day: synchronisation, migrations, simulation, reset, midnight. |
| `FleetState` | The live state file, step by step as the file system shows it; main, workers, the watchdog's kill. |
| `LteTraffic` | The dongle's toggle step by step and its report, the log, the day's sum and its rebuild. |
| `SumTheorems` | Facts about the sums of the community modules, for the proofs. |
| `TaskRunnerProofs` | Theorems and proofs about `TaskServer`, `TaskServerBoth` and `TaskRunner`. |
| `QuotaLeaseProofs`, `FleetStateProofs`, `RunnerCycleProofs`, `CampaignProofs`, `PartnerSyncProofs`, `LteTrafficProofs` | Theorems and proofs about the module of that name. |
| `MCTaskServer`, `MCTaskServerBoth`, `MCTaskRunner`, `MCQuotaLease`, `MCRunnerCycle`, `MCPartnerSync`, `MCLteTraffic` | Constant values for TLC, and the days it follows (`MCLteTraffic`). |

`TaskRunner` composes the server with its clients and `TaskServerBoth` the two
generations of the API. The five modules after `QuotaLease` stand alone: what
they share with the others is one interface each, which they take as it is
offered (`RunnerCycle` any answer of the server that respects its exclusions,
`PartnerSync` any hit on a row of the day).

A definition that ends in the comment `wrong: ...` stands before the definition it
is a variant of. It is what the code would be with a plausible mistake in it, is
used nowhere, and exists to be put in the place of the original to see that a
property notices (`mutants` in `PROJECT.json`).

### How state and actions correspond to the code

- **One action per handler.** The handlers of `api/` run in one transaction each
  (`get_db_cursor(commit=True)`), but for the record of LTE traffic (see below). `allocate` and `assign_tasks` serialise on
  `SELECT ... FOR UPDATE` over `nnbs`, and everything they decide on is read
  after that lock; `report` and `complete_task` change rows by single `UPDATE`
  statements on one task, one quota, one keyword and one phone. Interleaved
  handlers therefore have the effect of some serial order, and a handler is one
  action.
- **Tables are functions** from all possible keys; absent rows have status
  `"NONE"`. `tasks[i]` keeps status, product, keyword, shop, token, phone and two
  times. Columns that no later decision reads (memo, ranks, IP, statistics) are
  left out.
- **Times are ages.** The code compares times only with fixed windows. Every
  row's age grows with `Tick` and stops at `MaxAge`, which is longer than every
  window. Windows of 20, 30, 60, 80 and 120 minutes become small numbers; only
  their order relative to each other matters, and different runs choose
  different ones.
- **Random choices** (`ORDER BY RAND()`, `random.shuffle`, `random.choices`) are
  existential quantifiers over every outcome.
- **`report`** counts a hit by an `UPDATE` whose `CASE` reads the column that the
  same statement increments; MariaDB evaluates `SET` from left to right, so `Hit`
  compares `hits + 2` with the target.
- **`Midnight`** replaces the day: `daily_slot_quotas` has no row of the new date
  until the next synchronisation. It is part of `TaskServer`, not of `TaskRunner`.
- **`HarvestToken`** is the token pool's daemon as the task API sees it.
- **A runner** (`pc`) is idle, asking, or waits for its workers. `job[i]` is what
  the runners know of task `i`: running, reporting by v2, falling back to v1,
  acknowledged, or lost. `req` counts the sendings of the current request and
  says whether the last one was served.
- **Mains have numbers.** `RunnerStops` is Ctrl+C, which every process of the group
  gets (`run.py:1761`). `KillFleetRunner` is the watchdog's `pkill -9 -f 'run.py
  --net-mode lte'` (`fleet_watchdog.py:51`), possible for the nodes in `Lte` only: the
  pattern is not on the command line of spawned workers, so these become orphans. They
  keep the number of their main (`job[i].life`), the next main of the node has
  another one (`life[n]`), and waits for its own workers only (`JobsOf`). `stray` collects
  the phones last reported free by an orphan or a late request; it is for a property.
- **The network.** A request is served and answered, or served with its answer
  lost, or lost. With `Delays` a request that the client gave up stays in `late`
  and may be served at any later time, or never.
- **Files.** Where the order of file operations matters they are actions of
  their own. In `FleetState` an open descriptor follows its file through a
  `rename` (`fd`), a text is written in parts of `Buffer` marks, and a write into
  a file that was truncated meanwhile leaves a hole. `disk` is what a reader
  sees, `doc` what a process has read and changed. In `Campaign` a baseline is
  emptied (`Opens`) before it is written (`Writes`); it is small enough to be
  written at once.
- **The history of the day** (`file` of `RunnerCycle`, `hits` of `Campaign`) is
  appended by workers when their work ends, before main knows; `orphan` are
  workers whose main is gone, by the number of that main. `WorkerBreaks` is a worker
  that raises or dies after its line, or whose pool another one breaks: main gets a
  result without product and keyword (`run.py:371-387`, `:1347-1348`) and skips it.
  `truth`, `lost`, `misses` and `kills` are kept for the properties only.
- **Texts of the history.** A worker does not search for the keyword main gave it but
  for `shorten_keyword` of it, and then for one candidate as it is
  (`executor.py:142-151`); the history has the text that was searched for last, and main
  counts the keyword of the task (`run.py:315`). `Short` and `Searched` of `RunnerCycle` keep
  that; a text that is no candidate is 0. In `Campaign` the keywords in `Cut` are those
  that come out changed, whose lines no restore counts (`run.py:504`).
- **Lines of one second.** A line whose second an entry has already is skipped by the
  restore. In local mode phones start half a second apart (`run.py:1334`), so two lines
  of a keyword may share a second: `veiled` of `Campaign` counts hits without a rank that a
  hit with one hides, and a hit after one with a rank may leave no trace at all (`Logs`).
- **`Campaign`** reduces times to whether two records have the same one: `own`
  are entries of main, `seen` entries whose time a line of today has, which a
  restore knows again. `Restored` and `Evaluates` are the two places that count.
- **`RunnerCycle`** measures time in units of two hours: `Tick` is one, a
  quarantine is released after one (`run.py:1181`), logs are read for two.
- **A synchronisation** is a transaction: `SyncReads` takes the request and sums
  the committed slots with its own, `SyncCommits` makes rows and totals visible,
  `SyncFails` rolls back. Statements that delete the slots wait for the row locks
  of open transactions (`Alone`). `doubt` collects the products whose total a commit is
  known to have disturbed, `setFor` the day for which a total was last set; both
  are for the properties only.
- **The modem** (`LteTraffic`) has a counter of the session and one of all
  sessions in each direction, in units of traffic; `out` is the report the
  runner makes and sends, `left` how often it still may. A toggle is several steps: the
  counters are read (`ToggleIp`), the modem connects anew (`Reconnects`), and when the
  address is the same once more (`ToggleEnds`), or the toggle fails (`ToggleFails`).
- **A report of the modem is two transactions.** `CREATE TABLE IF NOT EXISTS`
  (`network.py:61`) commits the line of the log (`Logs`) before the row of the day is
  locked and changed (`Updates`), and queries, further reports, errors (`Fails`) and
  midnight come between. `due` are the reports whose row is still to be changed.
- **`marks`** name what has happened to the day and the sums cannot know: a session
  told twice or a report of zeros (`over`), bytes in no report or no first row (`gap`),
  a row to be changed while another report came or the day ended (`late`), a query that
  wrote a report which is due (`torn`), a report that is not counted because of a query or an error
  (`stale`). `allowed` are the bytes since midnight with those no report had told then.
  Both are for the properties only.
- **Faults.** A worker may die at any point of its life (`WorkerDies`), a runner may be
  stopped or its main killed; it forgets its workers, the server does not.

## 3. Runs

| Run | Instance | Result |
|---|---|---|
| `server_lease` | 1 product, 1 phone, 3 task ids, 2 tokens, ages to 3, timeout 1 | 132,968 states, 1:43. `TypeOK`, `NoOverdueBesideFresh`, `TokenUseMatchesTasks`, `MatureWhenUsed`, `SettledIsNotReopened`; under fairness `EveryTaskSettles`. |
| `server_batch` | 2 phones, one of them bound to the site of one of 2 products of one shop, quarantine after 1 failure, one keyword, older catalogue of 1 product, 2 task ids, 2 tokens | 162,836 states, 1:45. `BatchIsOneToOne`, `GroupIsServedFirst`, `NeverStarved`. |
| `both_tables` | both APIs, 1 product, 2 phones, 2 ids, 2 tokens | 375,576 states. `RowsEndAtNextId`. |
| `runner_lease` | 2 runners with 1 phone each, one of them with a watchdog, at most 2 mains of it with workers, 1 product with target 1, 2 task ids, 2 sendings | 2,285,774 states, 2:00. `RunnerTypeOK`, `OneJobPerPhone`, refinement `ImplementsLease`. |
| `runner_delays` | 1 runner with a watchdog, at most 2 mains with workers, target 2, 2 sendings, late requests, id 2 taken for a harvest task | 579,427 states, 1:40. `AckedIsRecorded`, `HitsAreEarned`, `RunningIsWorking`; under fairness `CycleReturns`. |
| `quota_lease` | 2 runners, 1 product of 2 hits, 3 attempts, symmetry | 180 states. `WithinLease`, `OvershootIsBounded`. |
| `fleet_state` | main with 3 updates, 2 workers with 1 each, kills, texts in parts of 2 | 446,081 states. `TypeOK`, `OneWriterIsExact`, `GlobalNeverGoesBack`. |
| `runner_cycle` | 1 phone, a product of 2 keywords and a catalogue of 1, shortened to no keyword, to another and to itself, 2 failures, cap 2, 1 hit per keyword, 1 exclusion, 1 midnight, 1 kill, 1 lost result | 1,211,845 states, 2:00. `TypeOK`, `QuarantineIsEarned`, `CountsAgreeWithFile`, `DailyCapHolds`; under fairness `QuarantineEnds`. |
| `campaign` | 2 phones, 1 product of 2 keywords of which one is shortened, both kinds of campaign, 2 hits of each, 1 midnight, 1 kill, any number of failed gates and lost results | 925,230 states, 0:45. `TypeOK`, `CountedAtMostTwice`, `TodayIsCounted`, `SavedHitsStay`; under fairness `KeywordsTakeTurns`. |
| `partner_sync` | 2 sites with one slot each, 2 products, 2 hits per slot, cap 3, 2 synchronisations, 1 midnight, 1 call of an administrator, symmetry of sites | 543,918 states. `TypeOK`, `TargetsMatchSlots`, `TodayFollowsTarget`, `HitsStay`. |
| `lte_traffic` | traffic up to 2 units, 3 reports a day, 2 sendings, 1 midnight, 1 reset | 7,996,086 states, 1:20. `TypeOK`, `NeverMoreThanUsed`, `ShortByFirstSession`, `CountMatchesLog`. |
| `server_completed` | target 2 | `CompletedMeansReached` violated. |

### Bounds

`MaxTaskId`, `MaxToken`, `MaxAge`, `MaxHits` and the sets of products, phones and
runners are bounds; each is named where it is used (`\* bound`). They are chosen
so that the interesting case happens: two task ids and two tokens are the least
for a batch, a retry after a success or a second lease of the same product;
three ids in `server_lease` let an expired, a reported and a fresh task stand
side by side; a timeout of 1 and `MaxAge` 3 separate "not yet overdue",
"overdue" and "long overdue"; a quarantine threshold of 1 lets one failure
trigger what five do. The windows' values never enter but by comparison. Token
and task ids grow without reuse, as `AUTO_INCREMENT` does, so a run ends when
the ids are used up but for ticks, reports, and requests that find nothing; no run
switches off deadlock checking.

In `fleet_state` two workers beside main are the least that can overlap while a
third writes, and three updates of main let an old one come back. In
`runner_cycle` one hit per keyword and a cap of two separate a keyword that is
used up from a product that is; a second product that is a catalogue fills the
exclusion of one. In `campaign` two phones work on the same keyword or on two, and
one restart after one midnight restores a file of yesterday with a history of
today. In `runner_lease` two mains of one node let an orphan and a new worker
meet on a phone; a third main would need a kill while the orphans of two are still at
work (`Free` asks for a number without workers, that is the bound `MaxMains`). In `partner_sync` two slots exceed the cap, and two synchronisations of two
sites overlap each other, a migration, and midnight. In `lte_traffic` three reports
give a first, a middle and a last session; a day on which a row is changed late is
reached and checked, but not followed further (`DayIsFollowed`, a CONSTRAINT): nothing
is claimed of the rest of such a day, and the next one begins as after any other.
`MaxNights`, `MaxKills`, `MaxLosses`, `MaxMains`, `MaxResets`, `MaxSyncs` and `MaxAdmin` bound
how often such a thing happens.
Symmetry is used in `quota_lease` (runners) and `partner_sync` (sites), whose
properties treat them alike and are not liveness properties.

### Fairness

- `EveryTaskSettles` assumes weak fairness of `Tick` and of `AnyAllocate`: time
  passes, and the runners' main loop asks again after every cycle, empty or not
  (`run.py:1312-1331`). Reports are not assumed.
- `CycleReturns` assumes weak fairness of each runner's and each worker's own
  steps: the pipeline runs under a hard timeout (`run.py:291`), every request
  has an HTTP timeout. Nothing is assumed of the network, of deaths, stops and
  kills, or of late requests.
- `QuarantineEnds` assumes weak fairness of the clock, of main's loop while it
  runs (a skipped cycle is enough: the release comes before the gate,
  `run.py:1181`, `:1203`), of the evaluation, and of the workers, which have a
  hard timeout. A main that is stopped for ever has no quarantines.
- `KeywordsTakeTurns` assumes weak fairness of the start of a cycle, of the
  evaluation and of the workers. Nothing is assumed of the gate: the property
  itself leaves out the executions in which it fails again and again. With two
  routers (`(cycle - 1) % n`, `run.py:1184`) of which one is down, it fails in every
  second cycle, and of two open keywords (`(cycle - 1) % n` again, `:599`) the one
  whose cycles are lost waits for ever.

### What the violation shows

**`server_completed`** - a day's row is closed one hit early
(`task_service_v2.py:1108`), because the second assignment reads the value the
first one has stored. `allocate` compares hits with the target itself, so no
hit is lost; what reads `status` is misled. The same statement under another
database would be right.

### Where code and words differ, without a run

- The "hard cap" of a day (`task_service_v2.py:714`) counts reported hits only, not
  tasks that are under way: runners that ask together are all handed the last
  hit. `QuotaLease` says how far this can go: below the target plus one report
  per sending and runner (`OvershootIsBounded`, `LeaseOvershoot`), where a killed main
  whose workers go on is a runner of its own.
- `kill_fleet_runner` says it ends the runner "및 하위 프로세스" (and its
  child processes, `fleet_watchdog.py:49`); its pattern matches main alone. `OneJobPerPhone`
  says what is left: only orphans share a phone with another worker.
- A keyword that `shorten_keyword` changes is counted by main under its own name and
  written to the history under the short one: after a restart its hits of the day are
  missing in a campaign (`run.py:504`), and count for no candidate, or for another one,
  where the server chooses (`:149-152`). The sum of a product is right in either case.
- "No open product" is taken for "no product" (`:719-734`), so a finished day
  continues with the older catalogue, whose products have no quota. The answer
  meant for that day is given only if that catalogue is empty.
- `report` announces a two-hour quarantine after three failures (`:1145-1150`), which
  nothing stores; `allocate` has its own rule of five failures in one hour
  without a success (`:748`).
- `run.py:356` recognises harvest tasks by their number. Numbers of the server, or
  of a campaign in its 300th cycle (`:638`), reach the same range, and what the
  pipeline returned is not reported (`SkipFrom` of `TaskRunner`).
- `fleet_state.py:10` promises an atomic write. With several writers the shared
  temporary file is written, renamed and truncated under each other, and readers
  may see it broken (`Parses` is false); what holds is `OneWriterIsExact`.
- The console announces a release after four hours (`run.py:1396`), and so does the
  check at `:1242`; quarantines are gone after two (`:1181`), and failure counts
  are therefore never reset by age.
- `--fresh` keeps "the history of ranks" according to `run.py:467`; it returns
  before any is loaded.
- A single-product campaign deals "evenly" according to `run.py:565`; every cycle
  deals its phones the first open keywords again. Only a fleet takes turns, and only
  while the gate does not go on failing, which is what `KeywordsTakeTurns` states.
- The restore of a campaign adds entries of main and lines of the workers for the
  same hits (`run.py:506`): `CountedAtMostTwice` is the bound, and it is reached.
- The traffic of a day lacks its first session as soon as there is a second
  report (`network.py:117-122`), where the comment at `:287` has the rebuild include
  it: `ShortByFirstSession`.
- `record_lte_log` looks like one transaction (`network.py:27`); the table it makes sure of
  commits the first half. A query in between makes the count one too many and may add a
  session twice: `CountMatchesLog` and `NeverMoreThanUsed` name the mark `torn` for it.

## 4. Theorems

Every invariant and action property of a passing run is a theorem, and so is the
refinement; TLC checked the strengthened invariants on the runs' instances first.

`TaskRunnerProofs`, first part, on `TaskServer`, for every catalogue, fleet, pool and window that satisfies the
named assumptions of `TaskTables` and `TaskServiceV2` (finite sets of products and phones,
windows shorter than `MaxAge`):

- `ServerTypeOK` - the tables hold what they are declared for. By itself
  inductive; the case of `allocate` rests on `AllocateCases`: an allocation
  either only sweeps or inserts one well-formed batch.
- `ServerInvariant` - `IInv`. Three properties are not inductive alone.
  `NoOverdueBesideFresh`, `MatureWhenUsed` and `TokenUseMatchesTasks` compare all
  rows, so an insertion must not replace one: `IdsAreContiguous` says that rows
  end exactly before `nextId`. A token must age together with the tasks that use it:
  `TokensAreRows`. For each action one lemma shows what it keeps (`TickKeeps`,
  `HarvestKeeps`, `SweepKeeps`, `InsertKeeps`, `ReportedRows`). The token account of an
  insertion is a cardinality argument: each token is picked at most once, so
  its tasks grow by one exactly when its counter does.
- `ServerLease`, `ServerTokenAccounts`, `ServerMaturity` - the three properties, from it.
- `ServerSettled` - the action property `SettledIsNotReopened`, from the invariant.
- `ServerNeverStarves` - the action property `NeverStarved`: the relaxations of
  `Eligible` end at the candidates themselves, so a batch has as many rows as phones,
  tokens and candidates allow (a cardinality argument over the picks).
- `ServerBatchOneToOne` - the action property `BatchIsOneToOne`: the rows of one
  step come from one batch (`InsertedRows`), whose products and tokens are all
  different (`ProductsAreDistinct`, `PicksAreDistinct`).
- `ServerGroupFirst` - the action property `GroupIsServedFirst`: a phone picks among
  its own sites' products as long as there is one left (`OwnSitesAreFirst`), and what is
  no longer left went to a phone served before it.

Second part, on `TaskServerBoth`, under the same assumptions and `ListAssumption`:

- `BothInvariant` - `BothInv`. A v1 report of an unknown id makes a row out of turn,
  so `IdsAreContiguous` is lost; what remains is `RowsEndAtNextId`. Such a row
  has no token (0), hence `TokensAreListed`. `AssignCases` reduces a v1
  allocation to the batches of the first part, whose lemmas are used again.
- `BothRowsEnd` - the property of `both_tables`, from it; `BothTokenAccounts` - the
  use counters once more, with both generations.

Third part, on `TaskRunner`, for every fleet, catalogue and number of sendings, under the
assumptions above and `PhonesAssumption` (the phones of a request are all different, and
attached to one runner only):

- `RunnerInvariant` - `RunnerInv`. Beside the types it says what the runners and the
  server know of one another: a task a runner has is a row (`JobsHaveRows`), a report
  that may still arrive is of a worker that is done (`LateIsOver`), a worker whose main
  runs belongs to its present cycle and to a phone of its node (`JobsAreOfACycle`), and
  workers of one main, alive or killed, differ in product and phone (`JobsAreApart`). What a handler
  does to the rows is stated once for each handler (`BatchRows`, `ReportRows`,
  `CompleteRows`, `TickRows`), from the lemmas of the first part.
- `RunnerTypes`, `RunnerAcked`, `RunnerOneJob` - from it, with late requests, crashes,
  stops and kills.
- `StepKinds` sorts the steps by what they do to jobs and hits: a batch with its
  answer, a batch for nobody, a report in time or late, the end of a worker, a repeated
  sending, anything else. The next three use only these kinds.
- `RunnerWorking` - `RunningIsWorking`, with everything. A report in time frees the phone
  of its own task, and no other task of a main that runs has that phone (`JobsAreApart`); any
  other report leaves the phone in `stray`, until it is handed out again.
- `RunnerHitsEarned` - `HitsAreEarned`, with everything. Every hit is one of the
  sendings that are spent (`HitsAreSpent`): of a success, the sendings its worker does
  not have left and that are not on their way (`Spent`, summed over the tasks). A served
  report spends at least one (`SpentCounts`), no other step gives one back (`SpentGrows`),
  and a task has at most `Attempts` of them (`SumWithin`).
- `RunnerImplements` - `ImplementsLease`, the step simulation, without late requests and
  with an older catalogue that has products of its own. The runners of `QuotaLease` are
  pairs of node and main, so that an orphan keeps what its main was granted. A batch with its answer is a `Grant`:
  a candidate has hits left as every product has its row of the day (`QuotasOfTheDay`),
  and its runner can have nothing under way as it is asking (`JobsAreOfACycle`). A report of a
  success is a `Hit` for the pair of runner and sending, which is nobody else's
  (`JobsAreApart`). Every other step is a `Forgo` (`ForgoStep`).
- `RunnerOvershoot` - both together: the hits of a product exceed its target by less than
  `Cardinality(Node) * MaxMains * Attempts`, for every number of mains that may have workers
  at one time.

`QuotaLeaseProofs`, for every fleet, number of sendings and goal: `LeaseTypeOK`,
`LeaseWithin` (inductive) and `LeaseOvershoot`, the bound on what several runners
and retries can count beyond the target. `RunnerOvershoot` carries it to the code.

`SumTheorems`: the community modules sum a function by a fold whose definition is
recursive, so nothing about a sum can be proved by expanding it. That this recursion
has a value on the subsets of a finite set, and only one, is shown by a smallest set
without (`SumsExist`, `SumsAgree`, on the library's well-foundedness of `<`). From it:
`SumType` (a sum of natural numbers is one), `SumOfAgreeing`, `SumOfEqual`,
`SumOfOneMore` (a sum grows by as much as one of its numbers), `SumOfAdded` (an element
more adds its number), `SumOfSmaller` and
`SumWithin` (a bound for each number bounds the sum).

`PartnerSyncProofs`, for every set of sites, number of products, slots and cap:
`SyncTypeOK`, `SyncTargetsMatch`, `SyncTodayFollows`, `SyncHitsStay`. The
strengthening says of an open transaction that its sums are those of its rows on the
slots as they are unless it was disturbed (`SumsAreFresh`), what its rows are
(`TxOK`), and of a row for tomorrow what `TodayFollowsTarget` says of today
(`TomorrowFollowsTarget`), because midnight makes the one into the other. Each
way the slots change - a commit, a migration, a reset - has a lemma on what happens
to a product's sum.

`RunnerCycleProofs`, for every fleet, catalogue, cap and number of restarts:
`CycleCountsAgree` and `CycleCapHolds`. Neither is inductive: a hit is written by a
worker before main counts it, and a worker may outlive its main. `OfProduct`
accounts for both. `Pending` are the stopped mains whose worker for the product
still runs - at most one of each, because a cycle gives a product to one phone
(`Distinct`), and never more than `kills`. Hits written, pending and under way are
together within `HitCap + kills` and the lost results, and the hits written differ from
those counted by the success of this cycle, by the lost results and by what stopped
mains left. A cycle that begins
gives no task for a product at its cap (`TasksOfCycle`), and the sums follow
single hits by `SumOfOneMore`.

A second invariant, `MemoryInv`, adds what main knows of failures, and gives
`CycleTypeOK` and `CycleQuarantineIsEarned`. That a quarantine has its failures is not
inductive, because a restart takes failure counts from the logs: `Remembered` says
that neither main's counts nor the logs, read from any of them on, tell of more misses of a
product than there were since its last success (`Missed`, a set of places in the
logs). The recovery is a recursion over the logs; `RecallExists` shows that it has a
value after each log (by a least log without one), `RecallOfLogs` that it counts no
more than `Missed`. Forgetting the oldest logs, by age or by number, only ever makes `Missed`
smaller (`MissedOfLater`).

`CampaignProofs`, for every number of phones, products and keywords and every goal:
`CampaignTypeOK`, `CampaignCountedAtMostTwice`, `CampaignTodayIsCounted`,
`CampaignSavedHitsStay`. The invariant `Counted` relates the five places where a
hit is recorded - count, entries, baseline, history, task - for one keyword at a
time; it is preserved because a restore only ever adds lines of today that have no
entry with the same time, lines that are hidden in the second of another one stay
hidden, and a line no entry stands for is a hit main got no result of, at most. That a keyword which is dealt exists (`RankExists`,
`DealtIsKey`) is a counting argument over the open ones.

`FleetStateProofs`, for every number of phones and updates and every size of the
buffer: `FleetTypeOK`, `FleetOneWriterIsExact`, `FleetGlobalNeverGoesBack`. What the
state file shows now says nothing of what a half-written temporary file will make
of it, so neither property is inductive. `Turns` says who may be writing at
all: workers of the crew, or main when it is alone or beside orphans. `SoleWriter`
describes that one writer's text: the temporary file holds exactly the part
it has written, the document its own entry and main's latest; a rename then makes `Exact`
true again. `GlobalKept` says of everything a rename or a descriptor that followed
one can bring into the state file - both files, and the documents of all writers, torn,
overwritten or with gaps - that main's entry in it is its latest or none
(`OfMain`), which every `Put` of a part keeps because an entry is written as a whole
(`PutOfMain`). That keys have ranks and a text each key once (`RankIs`, `TextIs`)
is a counting argument.

`LteTrafficProofs`, for every number of reports, sendings, nights and resets, and every range
of the counters: `LteTypeOK`, `LteNeverMoreThanUsed`, `LteShortByFirstSession`,
`LteCountMatchesLog`. The day's sum is the difference of two totals, so a bound on it
must know the growth between any two reports of the log, from each of them to the report
under way or due, and to the modem's counter: `Within`. A query writes what it read
earlier, so all of it is said of the query's copy of the log too, which is a beginning of
the log (`QueryOfLog`). Between the two transactions of a report the row is not the one of
the log: `OnTime` says how the count of the row, what is due and the log belong together.
`SessionsAt` and `GrownAt` bound the two sums over the log and over what a query has read
of it, with what no report has told yet, `RowAt` the row with the report it has yet to count.
`Exact` says the same with equality while no byte was left out or told twice (`ExactlyRead`,
`AllSeen`), and from it the sum lacks the first session. `LteAssumption` asks for counters that can count at all.

Only model-checked: the liveness properties `EveryTaskSettles`, `CycleReturns`,
`QuarantineEnds` and `KeywordsTakeTurns` (fairness and `ENABLED` are out of the prover's
reach).

## 5. What is not modelled

- Columns and tables that no decision reads; the statistics and dashboards.
- In `TaskRunner`: midnight, the batch path of `--api-v1`, and tasks a runner makes up itself
  (manual, harvest; campaigns are modelled apart). `ImplementsLease` is checked and proved without late requests:
  with them a report can be counted after its lease has ended.
- A report of the dongle that reaches the server after its sender has given it up.
- The retry of a worker within one task and what it does on the page, but for the text
  of its last search.
- The ranks of a campaign and the evaluation of a cycle for the console.
- Locks of single statements: transactions of `PartnerSync` overlap as MariaDB's
  do at `REPEATABLE READ`, but for deadlocks, which are `SyncFails`.
- The token pool beyond `HarvestToken`: how tokens are obtained, banked and used
  outside a task.
- Device groups: four statements of an administrator, whose result is the constant
  `GroupSites`.
- Token values, products' titles and keyword weights: only identity and
  whether a choice is possible.
- The browser pipeline, device identity and profile handling, location, touch
  and cookie management: I/O with devices and browsers, deliberately left out.
  These parts are listed in `PROJECT.json` with status `not_modelled`.
- Analysis tools, scripts, dashboards, installation: no state shared with the system.

## 6. Plan

Done, in the order of their weight: the life of a task from batch to report, both
generations of the API, the quota as a promise, the live state file, the runner's
bookkeeping with and without campaigns, the synchronisation, the traffic records;
theorems for all their safety properties.
Left, in this order:

1. `RunnerCycle` composed with `TaskServer`: the exclusions of one runner beside
   the choices of the server.
2. `Relay`: start and reconnection, the gate of three tries (`CycleSkipped`).
