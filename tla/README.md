# A TLA+ model of spo-data

spo-data is a set of Go programs for the operators of Apex Fusion Prime stake
pools. This directory models its two long-lived daemons, checks the models with
TLC on small instances, and proves properties of them with TLAPS for every
instance.

* `spo-dashboard` runs the *leadership log*: it computes each pool's leadership
  schedule once per epoch, and reconciles the schedule with the blocks that
  appear on the chain.
* `spo-monitor` runs the *alert loops*: it tells the operators through Telegram
  about stalled block production and about operational certificates that are
  close to expiry.

## 1. Inventory

Each component is listed with its state, its operations, whom it interacts with, what is hard
about it, and what makes it correct.

### Leadership-log scheduler (`internal/leaderlog/schedule.go`)

* State: `recheckedKeys`; per tick the epoch, the jobs with a copy of their
  `pool_schedules` row, the `rolledOver` flag.
* Operations: `schedulerTick` plans the pools (with `maybeBackfill`), runs
  `computePool` on a pool of `CLIParallel` workers, then `finalizeSummaries`.
* Interactions: cardano-cli (tip, key hash, schedule), Blockfrost (pool, history),
  the store. It shares rows, slots and observed blocks with the reconciler.
* Hard: a row is read while planning and written back by a worker minutes later;
  the epoch can roll over at every step; the slots and the row that vouches for
  them are two writes; a shutdown is told from a failure only by the context.
* Correct when: an `ok` row means the whole schedule of that epoch; the retries
  are bounded, across restarts too; every past epoch is closed; a closed epoch tells the truth.

### Leadership-log reconciler (`internal/leaderlog/reconcile.go`, `backfill.go`)

* State: per tick the node's tip, the page in hand, the block in hand with its
  verdict, the copies of slots and rows it will save.
* Operations: `ingestPoolBlocks`/`ingestBlock`, `ensureRewardEstimates`,
  `ensureStakeSnapshots`, `settlePendingSlots`.
* Interactions: Blockfrost, an indexer that lags behind the node; the store.
* Hard: transient errors against decoded 404s, indexer lag, chain switches,
  paging that stops early, copies saved after the scheduler replaced the rows.
* Correct when: no slot is `missed` that the pool minted in; every due slot is
  settled; no block is called an anomaly that was scheduled.

### Leadership-log store (`internal/leaderlog/store.go`, `models.go`)

* State: `pool_schedules`, `scheduled_slots`, `observed_blocks`,
  `epoch_summaries`, `epoch_infos`, `epoch_stakes`, in SQLite through one connection.
* Operations: whole-row saves, `ReplaceScheduledSlots` (one transaction), the
  queries the loops ask, and the read-only queries of the web API.
* Hard: ids and unique indexes decide what happens to a stale copy.

### Leadership-log service, command and cardano-cli wrapper

`Service.Run` starts both loops and waits for them; `cmd/spo-dashboard` cancels
their context on a signal. `cli.go` and `parse.go` run the external program
and parse its two output formats.

### Health, stake snapshots, fee parameters (`leaderlog.go`, `backfill.go`, `store.go`)

* State: the global `Health` under a mutex; `epoch_stakes`, one row per delegator
  of an epoch; margin and fixed cost in each schedule row.
* Operations: `setHealth` from both loops; `ensureStakeSnapshots` page by page at each
  reconciler tick; the capture of the fee parameters by `computePool` and
  `ensureRewardEstimates`, and `EffectiveFeeParams`, `OwnedStakeShare`, `OwnerTake`.
* Hard: a tip written after a younger one; a failure, rollover or re-registration
  between two pages of a snapshot that is never corrected; parameters that apply some epochs later.
* Correct when: `Health` ends up at the node's tip; a stored snapshot is whole, and taken
  in the end; the estimated earnings follow the ledger rule.

### Configuration (`configs/config.go`, `reloadConfig`)

* State: the pool list of the service; one file per operator, edited by people.
* Operations: `LoadAllConfigs` merges the files, `reloadConfig` replaces the list at each scheduler tick.
* Hard: files change between and during the reads, are half written, or lose the address.
* Correct when: no edit empties the list, and no file takes another's pools down.

### Dashboard web server (`internal/dashweb/server.go`)

* State: the price of AP3X and its stamp, under a mutex. Everything else is read from the store.
* Operations: `handleOverview` reads the status and then the slot counts while the
  loops write; `price` asks LBank at most once per TTL.
* Hard: requests that arrive together, a lock held over a network call, a failed call
  that must not lose the last price; two reads that are not one transaction.
* Correct when: LBank is asked rarely, a price is kept, every request is answered, and
  an `ok` status stands over the whole schedule.

### Monitor loops and alert state machine (`internal/monitor/monitor.go`, `alert.go`)

* State: `pool_alert_states` (status, last alert, last reminder, notified level)
  per pool and alert type; per pass the batch.
* Operations: one pass per interval and type. It assesses every listing, collects the
  notifications, sends them in one or several messages, and saves the states of
  the delivered ones.
* Interactions: Blockfrost, Telegram (with quiet hours), the store. The block and the KES loop
  share the database file.
* Hard: delivery and save are two steps; messages of one batch fail one by one;
  a failed load looks like a healthy pool; one pool may be listed twice; a message too long is refused
  at every pass.
* Correct when: nothing is marked as told that was not told; one notification
  per pool and pass; what persists is told in the end, and so is its end; every alert fits a message.

### Block and KES assessment (`internal/monitor/blocks.go`, `kes.go`)

* State: the decentralisation parameter cached per epoch; `pool_kes_states`, the
  counter of the operational certificate and the time of its first block.
* Operations: `assessBlock` compares the dry spell with a threshold; `assessKES` finds the rotation
  by a binary search over the pool's history (`findRotation`), notices a new
  counter, and estimates the expiry.
* Hard: a cache over a rollover; blocks forged while the search counts from the newest;
  errors taken for the end of the history; an estimate stored for the life of a certificate.
* Correct when: a pool is reported by the rule of the README; the search ends where a scan
  would; the estimate is about a KES period early at most; a fallen tier means a renewal.

### Telegram client and quiet hours (`internal/telegram`)

`Send` answers delivered, deferred (quiet hours) or failed; nothing is queued.
`QuietHours.Active` is a window that may cross midnight. Hard: a window against the rhythm of the
passes. Correct when: an alert that lasts is told after the window.

### The rest

Dry runs and the one-shot reports of `spo-data` (balances, blocks, rewards, price) run once, sequentially, over
HTTP. The page of one pool, the reward-flow snapshot and the UI render what one read returned.

## 2. Modules

| module | models | extends |
|---|---|---|
| `LeaderStore` | the chain, the node's and the indexer's tip, the four tables and the calls on them, what Blockfrost answers | |
| `LeaderScheduler` | the scheduler goroutine and its workers | `LeaderStore` |
| `LeaderReconciler` | the reconciler goroutine | `LeaderStore` |
| `LeaderLog` | both loops over one database, shutdown, crash, restart; the properties | both |
| `SlotLedger` | abstract specification of the slot table | |
| `MCLeaderLog` | instances of `LeaderLog` | `LeaderLog` |
| `NodeHealth` | both loops writing the tip into `Health` | |
| `StakeSnapshots` | `ensureStakeSnapshots`, the owner's share | |
| `OwnerEstimate` | the capture of fee parameters and the estimate made from them | |
| `Overview` | `handleOverview` over the loops as `SlotLedger` specifies them | instance of `SlotLedger` |
| `PriceCache` | `price()` and its requests | |
| `ConfigReload` | the merge of the operator files, and the reload | |
| `AlertLoop` | one loop of spo-monitor, either block or KES; the properties | |
| `BlockAssessment` | the cache of the decentralisation parameter, the threshold | |
| `KesTracking` | the KES row, the search for the rotation, the estimate and its tier | |
| `QuietHours` | the window against the passes of a loop | |
| `MessageSplit` | the loop of `splitAlerts` by the lengths of the texts, and the messages sent | |
| `MCAlertLoop` | instances of `AlertLoop` | `AlertLoop` |
| `MCParts` | the alert loop and seven parts, one per behaviour | these parts |
| `MCFairParts` | the alert loop and three parts that must get somewhere, with their fairness | these parts |
| `LeaderLoops_proofs` | the store's lemmas, and what each step of the two loops keeps | `LeaderScheduler`, `LeaderReconciler` |
| `LeaderLog_proofs` | types, misses and retries of the daemon | `LeaderLog`, `LeaderLoops_proofs` |
| `LeaderLedger_proofs` | whole schedules, true summaries, the refinement of `SlotLedger` | `LeaderLog_proofs` |
| `LeaderBackfill_proofs` | the backfill before the first summary | `LeaderLog_proofs` |
| `AlertLoop_proofs`, `KesTracking_proofs` | the theorems about one component | the component |
| `Monitor_proofs` | those about the smaller parts of the monitor and the configuration | these parts |
| `Dashboard_proofs` | those about what the dashboard shows | these parts |

### How a step is chosen

The store has one connection, so a store call is atomic. Between two store calls of one
goroutine the other goroutines, the chain and the indexer may do anything. An
action of the model is therefore the code from one store call (or API call whose
answer matters) up to the next, and what the goroutine keeps in local variables
meanwhile is a variable of the model: `job[l].ps` is the row copy a worker
holds, `finRows` the copy `finalizeSummaries` works on, `hand` the block
and verdict of `ingestBlock`, `estHand` the row `ensureRewardEstimates` will
write back, `due` the slots of `settlePendingSlots`, `held` the slot ids which those
copies carry and which a recompute has not replaced yet.

`Faults` is the set of failures an instance admits; `Fails(k)` is true for an
admitted failure, and for any call that takes the context once that is cancelled.

| code | actions |
|---|---|
| `schedulerTick`, planning | `SchedulerTick`, `PlanPool` (with `NeedsCompute`, `MaySkip`) |
| `maybeBackfill` | `Seed`, `BackfillSave`, the guard `Seeded` |
| worker loop | `SkipJob`, `SeeRollover`, `StartCompute`, `AbortPass` |
| `computePool`, `fail` | `KeyMissing`, `PoolLookupFails`, `KeyStale`, `CliFails`, `CliAnswers`, `StoreSlots`, `MarkOk` |
| `rematchObserved` | `MarkOk` (lists), `Classify`, `SettleMatched` |
| `finalizeSummaries` | `FinScan`, `FinEpoch`, `FinCount`, `FinSave` |
| `reconcileTick` | `ReconcileTick`, `QuitTick` |
| `ingestPoolBlocks`, `ingestBlock` | `ListFails`, `ListPage`, `BlockFails`, `FetchBlock`, `FindSlot`, `MarkProduced`, `RecordBlock` |
| `ensureRewardEstimates` | `EstimateRead`, `EstimateSave` |
| `settlePendingSlots` | `LatestFails`, `SettleStart`, `LookupFails`, `SettleSlot` |
| the chain and the indexer (external) | `Mint`, `BfIndex`, `Reorg` |
| `checkBlocks` / `checkKES` | `StartPass`, `Assess`, `LoadFails`, `SkipListing` |
| `evaluateWithReminder`, `evaluateTiered` | `WithReminder`, `Tiered` |
| `alertBatch.flush`, `splitAlerts`, `Send` | `Flush`, `Deliver`, `ReplyLost`, `Withhold` |
| `SaveAlertState` after a delivery | `Save`, `SaveFails` |
| the pools' condition and the clock (external) | `Worsen`, `Improve`, `ReminderElapses` |
| `decentralisation` / `assessBlock` | `AskEpoch`, `AskParams` / `AssessBlock` (`Threshold`, `Verdict`) |
| `assessKES`, `findRotation`, `SaveKesState` | `StartAssess` (`Tracked`), `Probe` (`Narrow`), `EndSearch`, `Commit` |
| `QuietHours.Active` in a pass | `Active`, `PassDue` |
| `alertBatch.add`; `flush`, `splitAlerts`, `alertMessage`, the sends | `Notify`; `FlushBatch`, `Round` (`Full`, `Opened`), `CloseLast`, `SendChunk`, `NextPass` |
| `ensureStakeSnapshots`, `ReplaceEpochStakes` | `ReadEpoch`, `AlreadyStored`, `LookUpPool`, `ReadPage`, `StoreStakes`, `CallFails` |
| fee capture, `EffectiveFeeParams`, `OwnerTake` | `ReadRow`, `CreateRow`, `StartRow`, `Fetch`, `SaveFees`, `DropFees`; operators of the same names |
| `LoadAllConfigs`, `reloadConfig` | `BeginReload`, `LoadFile`, `EndReload` |
| `setHealth` from both loops | `ReadTip`, `SetHealth` |
| `handleOverview` | `AskStatus`, `AskCounts`, `WritePage` |
| `price` | `Arrive`, `AnswerCached`, `AskLBank`, `Quoted`, `NoQuote`, `Leave` |
| signals, process death, service manager | `Shutdown`, `Crash`, `Restart` (in both daemons), `KesCrash`, `SnapCrash` |

`LeaderLog` implements `SlotLedger` with `ledger <- slotSt`: a schedule enters
whole and once, each slot settles once and truthfully.

`AlertLoop` has two ghost variables, which no action reads: `heard[p]` is the tier the
last message about `p` that really reached the recipient told of, and `torn` says
that a failed load or save, a lost reply or a crash has parted the stored state from it.

`KesTracking` keeps three facts the program cannot see, to state what its estimate
is worth: `certs`, when each certificate was really issued; `exact`, that the
stored estimate rests on no failed lookup and no block forged during the search;
`parted`, that a load or save of the row has failed. `began`, when the pass read the
latest block, only bounds how long a pass may last: no step of the code reads it.

`Overview` composes the page with the loops through their specification: its
writers are the steps of `SlotLedger`, which run `chain` shows `LeaderLog` to implement, and a
row that becomes `ok` only over a whole schedule, which is what `TrustworthyOk`
says (and finding 6 is where it does not hold); `OkStaysWhole` says the same of the daemon itself.

The other parts share no variable with each other or with the loops: what passes
between them (a verdict, a tier, a price) is an outcome in the module that uses it. So `MCParts` and
`MCFairParts` choose one part at the start and move that one only, which checks each part's whole state
space and not the meaningless product of all.

### Abstractions

* A schedule depends on a pool's VRF key only, so `Leader` is a constant; a pool
  mints only in its own slots. Slots are numbered 1..`NSlots`, and at most one block
  per slot is on the chain.
* A chain switch changes one slot no deeper than `SettleMargin` below the tip;
  the indexer follows a switch at once for the slots it has processed, and lags
  otherwise as it likes. A block that was listed and orphaned can still be fetched.
* Errors of the dashboard's own SQLite file are not modelled (one connection,
  local disk). Errors of the monitor's file are: two loops and two
  connections can find it locked.
* The wall clock is not modelled: the `StartedAt` gate of `needsCompute` becomes
  "a pending row may be skipped" (`MaySkip`), the reminder interval an event.
* The reward estimate and the fee parameters of a row are each present or absent. Every pool is
  assumed to have a history of rewards and fees that are not both zero, so that an answered call
  fills the part it is for; which parameters they are is the matter of `OwnerEstimate`.
* In `LeaderLog` the pool list is fixed, since a reload takes effect between two
  ticks (`ConfigReload`), and `Health`, epoch info, stake snapshots and
  `expectedBlocks` are left out, since no decision of the loops depends on them.
* `computePool` of a pool that appears in two listings is modelled as it runs,
  two jobs with two row copies.
* In `AlertLoop` the block assessment's threshold and the KES tier are represented by their
  outcome `cond`, which may rise one step and fall to any smaller value between any two steps.
* A failed save in the branch of an evaluation without a notification leaves the
  row unchanged, as `SkipListing` does.
* In `AlertLoop` a batch is cut anywhere; in `MessageSplit` a text is its length, and the batch is known by
  the marks at which its alerts end, so that the length of a chunk is the distance of two marks.
* Time is in ticks. `BlockAssessment` rounds the code's floating-point quotients
  down to ticks; percentages are whole. In `KesTracking` time goes on during a pass, whose lookups each
  have a time limit; a pool whose certificate is usable forges every `ForgeGap` at least, and passes go
  through every `PassGap`, from the start of one to the end of the next: without such rates no estimate
  from blocks could be close.
* The indexer publishes an epoch's stake distribution as a whole and never
  changes it; the registration it shows may change at any time.
* Fee parameters: one re-registration in an epoch (the ledger keeps the last), a
  first registration before the daemon starts, no pool with both fees zero (the
  code takes that for "not captured"). Of the three writers of whole rows (`computePool`,
  `ensureRewardEstimates`, `finalizeSummaries`) each holds one copy at a time; the loops' own order
  of reads and writes is that of `LeaderLog`.
* A file of the configuration is broken, or parsed with or without an address and with a set of pools.

## 3. Runs

Deadlock is checked in every run: both daemons run until they are told to stop,
and are started again.

| run | asks | distinct states |
|---|---|---|
| `chain` | with an indexer that lags and every call of ingestion and settlement able to fail (those for estimates fail in `restarts` and `attempts`): are misses true, finalized summaries true, and is the slot ledger implemented? | 0.6 M |
| `restarts` | with a crash or shutdown at any step: is an `ok` schedule whole, does history stay, does the backfill come first? | 2.0 M |
| `attempts` | two operators list one pool, two workers, every step that ends `computePool` fails, the chain switches, the process crashes: are retries bounded, anomalies and misses true? (A shutdown: `restarts`, `double_refund`, and `RetriesAreBounded` of section 4.) | 3.1 M |
| `liveness` | with fair loops: is every due slot settled and every past epoch finalized? | 115 k |
| `parts` | eight parts, see below: is what spo-monitor tells and what the dashboard shows true? | 2.3 M |
| `fair_parts` | four parts under fairness: is every lasting violation told, and every recovery; every request answered; every snapshot taken; `Health` current in the end? | 43 k |
| `unclassified`, `double_refund`, `lost_update`, `actuals`, `recovery`, `empty_schedule` | see section 5 | |

What `parts` shows, part by part:

* the alert loop, with two tiers, a pool listed twice and every failure: one
  notification per pass (`OnePerPass`), the state follows the delivery
  (`CommitFollowsDelivery`), nothing is told twice (`NothingToldTwice`);
* KES: the search ends at the block a scan would end at, off by no more than the blocks forged
  meanwhile, and only ever later when lookups fail (`BoundaryFound`), in
  logarithmically many lookups (`SearchIsShort`); the estimate is never more
  than a period early, and late by less than `ForgeGap + PassGap` where a counter change was seen
  (`EstimateNearExpiry`); the tier falls only with a renewal, and then to that of a new certificate, which is
  none unless a threshold reaches its lifetime: a pool under such a threshold never gets back to none
  and is sent no recovery (`TierFollowsRenewal`);
* block: a pool is reported stalled by the rule the repository's README states
  (`StallAsDocumented`), with the parameter of the epoch of the pass (`DecentralisationCurrent`);
* quiet hours: `Active` is the window, over midnight too (`QuietIsTheWindow`); if the rest
  of the day is as long as the loop's interval, only the passes of one window are deferred in a row
  (`DeferralsEnd`). With a longer window all of them may be;
* messages: none is too long unless one alert alone is (`MessagesFit`), and
  together they carry every alert once, in order, without a needless cut (`BatchCarried`);
* fees: the estimate equals what the ledger pays, through re-registrations, recomputes and saves of
  stale copies, if the parameters in the row two epochs before were captured before a re-registration
  in its epoch (`EstimateAsLedger`); where that row is missing, the code falls back to the epoch's own
  row, whose parameters the ledger need not apply;
* configuration: `PoolsNeverEmptied`, `SteadyFilesListed`;
* overview: an `ok` page shows the whole schedule, each slot in one column (`OkShowsWholeSchedule`).

And `fair_parts`: `ViolationAnnounced` and `RecoveryAnnounced` for the alert loop;
`AskedOncePerTTL`, `PriceKept` and `EveryRequestAnswered` for the price;
`SnapshotWhole`, `ShareOfWhole` and `SnapshotTaken` for the stake snapshots; `HealthCatchesUp`.

Bounds of the leadership log. One pool suffices for the interactions of the two
loops, whose shared state is per pool; the one place where pools meet is the
order of the worker pool, and there two listings of the same pool are
the harder case (`attempts`). Two epochs (slots 1 and 2, slot 3) or one; the pool
leads slot 1 and slot 3, so there is a slot that is settled in its epoch, one
that is not, and one that is not led. `Busy` names slots that always hold a
block and limits the branching of the chain; where it includes slot 1, another pool may
still have that block. `MaxAttempts` 1 or 2 reaches both the last retry and
one before it, `PageSize` 1 gives an epoch two pages, `BackfillEpochs` 1 has a first and a last epoch.
`MaxRestarts` 1 admits the crash between any two steps. `SettleMargin` is 0 in
the runs; the theorem of section 4 covers every margin.

Bounds of the parts. Alert loop: pool `a` is listed twice with `b` between, `MaxTier` 2
has an escalation, `MaxRestarts` 1; under fairness two listings and one tier. KES: a window of
four blocks makes the search take up to three lookups, seven points of time hold
a renewal with blocks before and after it and the expiry of the first certificate, and a certificate
of three periods has the period the code leaves out. A search may last a tick, in which a block is
forged, and so may the way from a pass to the next. Of the three thresholds one is the whole lifetime. Block: stakes of 0, 10, 50 and 100 and the parameter at 0 and 60 put
the threshold at the cap, between and at the floor, and a pool below the monitorability limit; two epochs for the cache.
Quiet hours: every window, every interval and every phase of a day of six ticks.
Messages: up to five alerts of lengths that fit together, barely, or never, and numbers in base
two, so that the header grows within the batch. Fees: four epochs and two parameter
sets, so that an epoch has its row two epochs before; they start from one of the two, the other comes
with a re-registration. Configuration: two files. Overview: three slots in two epochs.
Price: two requests, of which one can wait for the other's call. Stakes: up to three delegators in pages
of two, so that the last page is empty, short or missing; two epochs; one failure.
Health: a node that may stop anywhere in two epochs.

Fairness. `LeaderLog`: weak fairness of each loop, because each is a goroutine
woken by a ticker for ever and every call it makes has a timeout; and of the restart, which the service
manager does (`Restart=always` in `deploy/`). Nothing is assumed of the chain or the indexer: the
liveness properties speak of slots deep enough behind *both* tips. `AlertLoop`:
the same two, and strong fairness of a pool's successful assessment and of the
delivery of a message about it; without the first a pool whose
every assessment fails, and without the second a KES interval that always falls into quiet
hours, would refute any promise. Both are facts about the world and not about the
code, and the README's own promise rests on them too. Price: time goes on, a call to
LBank ends (its client has a time limit), a response leaves, and a request that waits for the mutex
gets it (strong fairness: Go hands a mutex over to whoever has waited for a millisecond).
Stakes: weak fairness of the reconciler's own steps. Health: each loop ticks for ever. Nothing is
assumed of the indexer or the node: `SnapshotTaken` begins when an epoch that
lasts is published, `HealthCatchesUp` when the node stops.

`ViolationAnnounced` and `RecoveryAnnounced` exempt behaviours in which `torn`
holds: the code then really forgets recoveries (finding `recovery`).
`BackfillFirst` speaks of the epoch `g` in which the pool was first seen, which may lie before its first
tracked one: if the node enters the next epoch between the backfill and `computePool`, the pass is aborted, the
gate is closed, and `g` itself is neither tracked nor seeded (three epochs; `restarts` has two).
It is checked without failures of the history call, with which it does not
hold: a failed call in the tick that first sees a pool is followed by a summary
in the same tick, and the pool is never seeded, which the comment at
`schedule.go:51-53` means to exclude. In the same way an indexer that has no completed epoch to
show yet leaves the pool unseeded, and a crash between two summaries of one backfill (two epochs to
backfill) leaves the history partial. Section 4 proves it without these three.
`TrustworthyOk` holds in `restarts`, where the pool leads a slot of each epoch, and not in `empty_schedule`.
With the `-pool` flag `PoolsNeverEmptied` would not hold: the restriction comes after
the check for pools, so that a broken file of the one operator empties the list, against
`leaderlog.go:86-87`. A failed lookup, or a shutdown in the middle of the KES
search, stores a rotation that is too late by any amount, for the life of the certificate
(`exact` is then false, and no property bounds it); so "never late" (`monitor.go:38-40`) holds up to the bound of `EstimateNearExpiry` only.
`SettledStays` and `LedgerSpec` are checked on chains without switches: a block
stored unclassified and then orphaned can still turn a slot from missed to produced.

Every property of a passing run has a mutant in `PROJECT.json`: a variant of one
operator, kept next to it under "Faulty variant", with which the run finds the
property violated.

## 4. Proofs

TLAPS proves, for all values of the constants that the named `ASSUME`s and the
hypotheses of the third column allow:

| module | theorem | states | hypothesis |
|---|---|---|---|
| `LeaderLoops_proofs` | `SchedulerTypes`, `ReconcilerTypes` | every step of a loop keeps its own variables and the tables well typed | |
| `LeaderLog_proofs` | `TypeCorrect` | `Spec => []TypeOK` of the leadership-log daemon | |
| | `MissesAreFacts` | `[]NoFabricatedMiss` | |
| | `RetriesAreBounded` | `[]AttemptsBounded` | |
| `LeaderLedger_proofs` | `OkIsWhole` | `[]TrustworthyOk` | `LeadsOnward` |
| | `AnomaliesAreReal` | `[]NoFalseAnomaly` | `LeadsOnward` |
| | `SummariesAreFacts` | `[]FinalizedIsTrue` | `LeadsOnward`, `NoSwitches` |
| | `SettledForGood` | `SettledStays` | `LeadsOnward`, `NoSwitches` |
| | `OkStaysWhole` | from the moment a row is `ok`, its whole schedule is in the slot table for ever | `LeadsOnward` |
| | `DaemonIsLedger` | `LedgerSpec`: the daemon implements `SlotLedger` | `LeadsOnward`, `NoSwitches` |
| `LeaderBackfill_proofs` | `HistoryComesFirst` | `[]BackfillFirst` | `HistoryIsServed` |
| `AlertLoop_proofs` | `AlertTypes`, `OneNoteEach` | `[]TypeOK`, `[]OnePerPass` | |
| | `CommitsAreTold`, `OnlyNewsIsTold` | `CommitFollowsDelivery`, `NothingToldTwice` | |
| `KesTracking_proofs` | `SearchFindsBoundary` | `[]BoundaryFound` | |
| | `EstimatesAreNear` | `[]EstimateNearExpiry` | `MaxKesEvolutions > 1` |
| | `TierFallsWithRenewal` | `TierFollowsRenewal` | |
| | `SearchesAreShort` | `[]SearchIsShort` | |
| `Monitor_proofs` | `ParameterOfTheEpoch`, `StallsAsDocumented` | `[]DecentralisationCurrent`, `StallAsDocumented` | |
| | `WindowIsQuiet` | `[]QuietIsTheWindow` | |
| | `DeferredOnce` | `[]DeferralsEnd` | `MaxChanges <= 1` |
| | `NeverEmptied`, `SteadyListed` | `[]PoolsNeverEmptied`, `SteadyFilesListed` | |
| | `MessagesAreTaken`, `BatchesAreCarried` | `[]MessagesFit`, `[]BatchCarried` | |
| `Dashboard_proofs` | `PagesAreWhole` | `[]OkShowsWholeSchedule` | |
| | `EstimatesArePayments` | `[]EstimateAsLedger` | |
| | `SnapshotsAreWhole`, `SharesAreOfTheWhole` | `[]SnapshotWhole`, `[]ShareOfWhole` | |
| | `AsksAreRare`, `PricesAreKept` | `AskedOncePerTTL`, `[]PriceKept` | |

The assumptions are those of the modules: pools are not block markers, `EpochOf`
is monotone, a pool leads slots of the instance, settings are natural numbers,
positive where the code's defaults and checks make them so, and a message header without parts is
no longer than one with them. The hypotheses are
needed, and each has its counterexample:

* `LeadsOnward`: a pool that leads a slot of an epoch leads one of every later
  epoch. The window check of `computePool` compares the slots of an answer, so an
  answer for a later epoch that holds no slot passes as the schedule of this one
  (finding `empty_schedule`). For a pool of some size it holds by far.
* `NoSwitches`: the chain has no switches. A block that is marked produced at
  the tip, or stored unclassified, and then orphaned leaves the slot produced.
* `HistoryIsServed`: the history calls succeed, the indexer is where the node is, and no crash happens or
  one epoch at most is to be backfilled. Section 3 says how `BackfillFirst` fails without each. Any
  number of epochs, rollovers in the middle of a pass, shutdowns and other failures are allowed.
* `MaxChanges <= 1`: the clock (summer time) is changed once at most. A streak of
  deferred passes is shorter than a day, so it never meets two changes; several changes within
  a day would stretch a window beyond what the property allows.
* `MaxKesEvolutions > 1`: the code takes a period off only then; without it the
  estimate of a certificate of one period is late by up to one period more.

### The leadership log

Each proof is an inductive invariant, checked with TLC before it was proved.

`NoFabricatedMiss` is not inductive. A chain switch could give the pool a block
in a slot already recorded as missed, and a slot looked up could be one the indexer has not
reached. The invariant is

    MissInv == TypeOK /\ MissesAreDeep /\ DueIsDeep

`MissesAreDeep` (every missed slot is without our block and deeper than the
margin behind the node's tip) makes it survive `Reorg`, whose depth the margin bounds, and
`Mint`, which only writes above the tip. `DueIsDeep` (every slot in `due` is a margin behind the
*older* of the two tips) makes `SettleSlot` establish it: this is where the
clamp to the indexer's tip and the strict comparison of `PendingSlotsBefore` are used. The tips only grow,
so a slot that was deep when `due` was computed still is when it is looked up.
The scheduler never turns a slot into missed that was not so before.

`AttemptsBounded` allows `MaxAttempts + restarts`, but the last attempt of a start is
spent only if the row has one to spare. `BudgetInv` says who has: a row not yet
started, any row once a shutdown has begun (the next start raises the cap), and a key
problem of which this start has its one re-check still before it (`Untried`: the
flag is not set and no worker is on the epoch). The same holds of each copy
that a loop may write back: of the jobs, of `finRows` and of `estHand`; and
`PassIsSound` says when the flag is set and when a pass may have been aborted.

`TrustworthyOk` and `NoFalseAnomaly` follow from `WholeInv`: every epoch has its
whole schedule in the slot table or nothing of it; every row marked `ok`, also
in a copy that may be written back, has it whole; a worker that is about to
store holds the schedule of the tick's epoch; a block in the reconciler's hand that is to be
found is of an epoch with a whole schedule, and one judged unscheduled is not led.
`SlotsKept` (no step takes a row of the table away) carries it over all the steps
that do something else. The proof attempt corrected the model in one place: where a pool is
listed twice, `StoreSlots` of one worker deletes the ids that the other one may be about to save;
if the slot is in the new schedule, that worker's save is refused and it goes on with its next block
(`Rematching`); if it is not, the save inserts the slot again.
Since no step takes a row away, a schedule that is whole stays so: `OkStaysWhole`, chain switches and all. This is
what `handleOverview` relies on when it reads a status in one store call and counts slots in a later one.

    TruthInv == WholeInv /\ MissInv /\ ProducedIsOurs /\ ObservedIsOurs
                  /\ SchedulerTrue /\ ReconcilerTrue

adds, for a chain without switches, that every block the loops hold, have stored or have settled a
slot by is the pool's and behind the tip, and that each summary finalized, or about
to be, counts the slots as the chain has them. From it follow `FinalizedIsTrue` (the three
counts are cardinalities of sets shown equal), `SettledStays`, and the step
simulation (`SlotStep`): each step of `Next` either leaves the slot table alone, or is an
`Enter` of a whole schedule, a `Produce` or a `Miss` of `SlotLedger`, or its `Grow`.

    BackfillInv == BudgetInv /\ IndexerKeepsUp /\ RowsPrimed /\ SummariesPrimed
                     /\ SeedingIsSound /\ JobsArePrimed /\ CopiesAreTracked

is about the order of `maybeBackfill` and `finalizeSummaries`. A pool is `Primed` for an epoch when it has an
earlier tracked epoch or was seeded (or nothing is earlier). `RowsPrimed`: no row is created before that, which is
more than `BackfillFirst` asks, and is what the scheduler really relies on; `SummariesPrimed`: a summary
that closes the gate is of a tracked epoch or of a seeded pool; `SeedingIsSound` is the loop
invariant of a backfill (each epoch saved or still to be saved); `JobsArePrimed` carries the fact
from the planning to the row the worker writes; `CopiesAreTracked`: what a loop writes back is of a row that exists.
That maybeBackfill's count of newer epochs admits every one of the `BackfillEpochs` before the current is
`BackfillCovers`, by cardinalities of intervals.

There is one lemma per group of actions, then one per loop; the loops, the chain
and the ends of the process are put together last.

### The monitor

`LoopInv` relates what was told to what is stored. `PoolsDiffer` and `NotBoth` (no
pool twice in `batch`, in `saving` or in both) give `OnePerPass`, although a pool may be listed twice;
`SavingIsHeard` (what is being saved is what the recipient was told) gives
`CommitFollowsDelivery`; `InStep` (unless `torn`, the table holds what was heard
except for the pools being saved, and a note that is no reminder differs from the table)
gives `NothingToldTwice`. The steps on the sequences use that a message is a
prefix of the batch.

`KesInv` is the largest. Its `World` speaks of the history alone: blocks are in order of time
and certificate, and, by the rates assumed, a certificate's first block is forged within
`ForgeGap` of its issue (`FirstSoon`). `PassInHand` and `SearchInHand` are the
loop invariant of the binary search, in indices that shift when a block is forged
meanwhile: the best block so far has the counter and lies in what was probed, an older certificate was seen
next to what is left, and none was seen only if nothing of the window is left behind.
`Row` says what the stored row is worth: never dated before its certificate (`RowDated`); while the row is
loaded and saved, a block of another certificate is younger than the last pass (`RowFresh`), so a change is
noticed within `PassGap`; an exact row is within `ForgeGap + PassGap` of the renewal (`RowNear`); the tier is
at most the row's at this time (`TierHolds`). A tier falls as time passes only if the row changes, because
`TierLevel` is monotone, whatever the thresholds are; and a row changes only to the date of a block forged since
the last pass began, at most `PassGap` before the tier is counted.
`LookupsLeft` is the measure of the search: what it has left is less than `2^(k - probes)`, for every `k` whose power
of two exceeds the window. That powers double is no assumption: it is proved by counting subsets (`PowersDouble`).

`BlockInv` says of the cached parameter that it is of the epoch it is filed under, and the
threshold is compared by an arithmetic lemma (a quotient rounded down is exceeded exactly when its multiple is).
`QuietInv` holds a witness for a streak of deferred passes: the time since the start of one
window, negative after the clock was put back, which the streak's length never exceeds.

`ReloadInv` carries the two theorems about the configuration. `PoolsNeverEmptied` is
inductive as it stands, because a merge replaces the list only if it has entries;
`SteadyFilesListed` needs `PassedMerged`: a file that the reload has
passed, and that was not edited since, has its pools and its address in the merge.

`SplitInv` is the loop invariant of `splitAlerts`: the marks ascend; the closed chunks follow each other from the first
alert, each within the limit or a single alert, each cut only where the next alert would not fit; the open chunk starts where
the last one ends, and `open.size` is its bytes with the header reserved for it. What is sent is then no longer than what was
reserved (`ReserveIsLongest`), because a part number and the number of parts are at most the number of alerts and
the digits of a number do not decrease as it grows. That last fact is again one of counting: the
powers a number reaches are a subset of those a larger one reaches (`DigitsGrow`).

### The dashboard

`BoardInv`: a status read as `ok` stands over a schedule that is still whole when the counts are read, since
slots change their column only. The counts of the page are then cardinalities of three disjoint sets.
`FeeInv`: a row captured early holds what its epoch's predecessor ended with in the ledger, and so does each copy a
writer holds of it, from the read to its last save (`CopyKeeps`, `SaveKeeps`); the estimate two epochs later is the
payment by an identity of whole-number quotients (`TakeIsPayment`).
`SnapInv`: while pages are read, the rows are those of the first accounts up to the page, under one registration of the
epoch; a page that is not full is the last (`ShortPageIsLast`).
The share follows without an induction over the rows: the sum over a snapshot and the sum over the distribution are
folds of one and the same function from accounts to amounts (`RowsAreStakes`).
`PriceInv` ties the stamp, on which the code decides, to what really happened: `StampIsCall` (the stamp is as old as
the last call, because it is put before the call and on no other occasion),
`CallIsFresh` (while a call is on, the stamp is as old as the call, hence below the TTL:
this uses `TTLAssumption`, the time limit of a call below the TTL),
`AnswerIsFresh` and `QuoteIsFresh` (after a call that succeeded the quote is no older than the stamp).

### Only model-checked

* Liveness under fairness, which is out of the prover's reach: `DueSlotsSettle`,
  `PastEpochsFinalize` and the properties of `fair_parts` that say "in the end".
* The runs that expect a violation: each shows a behaviour of one instance.

Every safety invariant and every action property of a passing run has its theorem. Three
of them could not be reasoned about as they were once written, with recursive operators over texts and sums over sets;
`MessageSplit` now has the loop of `splitAlerts` as steps of its own, as in the code, and
`StakeSnapshots` sums by account.

## 5. Findings

Each is a run that TLC finds violated, by what the code does, and each refutes a
sentence of the repository.

1. `unclassified` (`reconcile.go:105`). `ingestBlock` reads the row as not yet
   `ok`; `computePool` marks it `ok` and `rematchObserved` classifies what is stored;
   only then is the block saved with `scheduled` NULL. Nothing looks at it again. The comment
   says `rematchObserved` picks it up later.
2. `double_refund` (`schedule.go:235`). A shutdown during the pool lookup
   refunds the attempt at the call site and again in `fail()`; attempts become -1.
3. `lost_update` (`backfill.go:133`). `ensureRewardEstimates` writes a whole row
   back that it read before an API call; a schedule that became `ok` meanwhile is `pending`
   again. If no recompute comes in between (the attempts are spent, or the epoch ends first), it is
   `expired` after the rollover, over the slots that were computed for it (`ExpiredUncomputed`), although
   `models.go:23` says "epoch ended before the schedule could be computed".
4. `actuals` (`schedule.go:387`). An epoch without a schedule is finalized at
   the first tick after the rollover, its last blocks not yet ingested, and then is
   not reconciled any more: its "real production" is too low.
5. `recovery` (`alert.go:62`). A message that arrived but whose reply was lost
   counts as failed. If the condition clears before the next one, the
   recipient of the alert gets no recovery.
6. `empty_schedule` (`schedule.go:265`). The window check that should catch an answer for another
   epoch compares the slots of the answer. If the epoch rolls over after the
   worker has looked at the tip, and the pool leads no slot of the new epoch, the
   answer is empty, passes, and the old epoch is `ok` with no slots.

## 6. What is not modelled

* Dry runs and the one-shot reports (balance, blocks, rewards, price with its one INSERT): sequential,
  without shared state or recovery.
* The page of one pool, the reward-flow snapshot, epoch info and the UI: one read of
  a table or file, rendered.
* The command lines and the two output formats of cardano-cli, YAML, JSON and flags: parsing, represented
  by an answer or a failure.
* The HTTP side of the Blockfrost, LBank and Telegram clients: external, represented by their outcomes.
* Tests, deployment files and assets are not program.

## 7. Plan

Modelled in this order, the most important behaviour first: store,
scheduler and reconciler; their composition and the slot ledger; the alert loop; the
parts around them, each with the hazards of its own; then the proofs bottom-up. Left to do, in order:

1. The safety half of `NodeHealth`: `Health` holds a tip the node had, no older than the last
   write of either loop.
2. A lower bound on re-checks: a key problem is looked at again in every epoch
   (`recheckedKeys` is set although a worker skipped its pool).
