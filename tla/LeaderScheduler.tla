-------------------------- MODULE LeaderScheduler --------------------------
(***************************************************************************)
(* The scheduler loop (internal/leaderlog/schedule.go): one tick plans the *)
(* pools whose schedule for the node's epoch is still to be computed,      *)
(* computes them on a small worker pool, and then brings the epoch         *)
(* summaries up to date.                                                   *)
(*                                                                         *)
(* A listing is one entry of the merged configuration; two operators may   *)
(* list the same pool, and each listing gets a job of its own.  A tick     *)
(* that cannot read the tip, or that finds the node unsynced, changes      *)
(* nothing and is a stuttering step.                                       *)
(***************************************************************************)
EXTENDS LeaderStore

CONSTANTS
    Listings,       \* entries of the merged pool configuration
    PoolOf,         \* [Listings -> Pools]
    MaxAttempts,    \* Settings.MaxAttempts
    CLIParallel,    \* Settings.CLIParallel, the size of the worker pool
    BackfillEpochs  \* Settings.BackfillEpochs

ASSUME ListingsAssumption == PoolOf \in [Listings -> Pools]
ASSUME SettingsAssumption == /\ MaxAttempts \in Nat \ {0}
                             /\ CLIParallel \in Nat \ {0}
                             /\ BackfillEpochs \in Nat

VARIABLES
    recheckedKeys,  \* Service.recheckedKeys
    sPc,            \* where the scheduler goroutine is
    sEpoch,         \* tip.Epoch as read at the start of the tick
    plan,           \* listings the planning loop has still to visit
    cur,            \* {the listing being planned}, or {}
    backfill,       \* epochs maybeBackfill has still to save for it
    job,            \* job[l]: the worker's copy of the row and its progress
    rolledOver,     \* some worker saw another epoch
    finEpochs,      \* epochs finalizeSummaries has still to visit
    finRows,        \* its copy of the schedule rows of the epoch it is at
    finHand         \* the summary it is about to save

schedVars == <<recheckedKeys, sPc, sEpoch, plan, cur, backfill, job,
               rolledOver, finEpochs, finRows, finHand>>
planVars  == <<plan, cur, backfill>>
finVars   == <<finEpochs, finRows, finHand>>

JobPc == { "none", "queued", "verify", "store", "mark", "classify", "settle" }
Job == [pc : JobPc, ps : Row, slots : SUBSET Slots, hand : 0..NSlots]
NoJob == [pc |-> "none", ps |-> NoRow, slots |-> {}, hand |-> 0]

FinRow == [pool : Pools, epoch : Epochs, ps : Row]
FinHand == [pool : Pools, epoch : Epochs, es : Summary]

Running == { l \in Listings : job[l].pc \notin {"none", "queued"} }

\* ------------------------------------------------------------------- planning

\* schedulerTick: the tip is read; ensureEpochInfo only records the epoch.
SchedulerTick ==
    /\ sPc = "idle" /\ ~ctxDone
    /\ sPc' = "plan"
    /\ sEpoch' = EpochOf[tip]
    /\ plan' = Listings
    /\ UNCHANGED <<storeVars, ctxDone, recheckedKeys, cur, backfill, job, rolledOver, finVars>>

\* The completed, untracked epochs maybeBackfill would save: the most recent
\* BackfillEpochs of them, from the pool history the indexer has.
ToBackfill(p) ==
    LET eligible == { e \in Epochs : /\ e < sEpoch /\ e < EpochOf[bfTip]
                                     /\ row[p][e].status = "none" }
    IN  { e \in eligible :
            Cardinality({ f \in eligible : f > e }) < BackfillEpochs }

\* maybeBackfill up to the history lookup, when there is something to seed.
Seed(l) ==
    /\ sPc = "plan" /\ cur = {} /\ l \in plan
    /\ ~HasAnySummary(PoolOf[l])
    /\ ToBackfill(PoolOf[l]) # {}
    /\ cur' = {l} /\ backfill' = ToBackfill(PoolOf[l])
    /\ UNCHANGED <<storeVars, ctxDone, recheckedKeys, sPc, sEpoch, plan, job, rolledOver, finVars>>

\* One summary of the backfill is saved, newest epoch first.
BackfillSave(l, e) ==
    /\ sPc = "plan" /\ cur = {l}
    /\ e \in backfill /\ \A f \in backfill : f <= e
    /\ backfill' = backfill \ {e}
    /\ SaveEpochSummary(PoolOf[l], e,
          [NoSummary EXCEPT !.exists = TRUE, !.actualsOnly = TRUE, !.finalized = TRUE,
                            !.produced = Cardinality(MintedBy(PoolOf[l], e))])
    /\ UNCHANGED <<chainVars, row, slotSt, obs, held, ctxDone, recheckedKeys,
                   sPc, sEpoch, plan, cur, job, rolledOver, finVars>>

\* Faulty variant: the planning loop does not wait for the backfill.
SeededOrNot(l) == cur \in {{}, {l}}

\* maybeBackfill has nothing (more) to do for the pool: it has a summary, no
\* earlier epoch to seed, or its history cannot be fetched.
Seeded(l) ==
    \/ cur = {l} /\ backfill = {}
    \/ cur = {} /\ ( \/ HasAnySummary(PoolOf[l])
                    \/ ToBackfill(PoolOf[l]) = {}
                    \/ Fails("history") )

\* Faulty variant: key problems are re-checked at every tick.
NeedsComputeAlways(ps) ==
    \/ ps.status \in {"key_missing", "key_stale"}
    \/ ps.status \in {"cli_error", "pending"} /\ ps.attempts < MaxAttempts

\* needsCompute, for a row that exists.
NeedsCompute(ps) ==
    \/ ps.status \in {"key_missing", "key_stale"} /\ ~recheckedKeys
    \/ ps.status \in {"cli_error", "pending"} /\ ps.attempts < MaxAttempts

\* A pending row whose StartedAt is younger than the cli timeout waits; the
\* model does not keep the time, so a pending row may be skipped.
MaySkip(ps) == ~NeedsCompute(ps) \/ ps.status = "pending"

\* The planning loop reads the pool's row and queues a job, or goes on; after
\* the last pool the workers start, if there is work.
PlanPool(l) ==
    LET ps == row[PoolOf[l]][sEpoch] IN
    /\ sPc = "plan" /\ l \in plan /\ Seeded(l)
    /\ plan' = plan \ {l} /\ cur' = {}
    /\ \/ /\ ps.status = "none" \/ NeedsCompute(ps)
          /\ job' = [job EXCEPT ![l] = [NoJob EXCEPT !.pc = "queued", !.ps = ps]]
       \/ /\ ps.status # "none" /\ MaySkip(ps)
          /\ job' = job
    /\ sPc' = IF plan' # {} THEN "plan"
              ELSE IF \E m \in Listings : job'[m].pc = "queued" THEN "work"
              ELSE "finScan"
    /\ UNCHANGED <<storeVars, ctxDone, recheckedKeys, sEpoch, backfill, rolledOver, finVars>>

\* -------------------------------------------------------------------- workers

DropJob(l) == job' = [job EXCEPT ![l] = NoJob]

workUnchanged == <<ctxDone, recheckedKeys, sPc, sEpoch, planVars, finVars>>

\* A free worker receives a job from the channel.
Takes(l) ==
    /\ sPc = "work" /\ job[l].pc = "queued"
    /\ Cardinality(Running) < CLIParallel

\* A worker takes a job and skips it: shutdown, a rollover seen by another
\* worker, or a tip re-check that failed.
SkipJob(l) ==
    /\ Takes(l)
    /\ rolledOver \/ Fails("tip")
    /\ DropJob(l)
    /\ UNCHANGED <<storeVars, rolledOver, workUnchanged>>

\* The tip re-check sees another epoch: the pass is aborted.
SeeRollover(l) ==
    /\ Takes(l)
    /\ ~ctxDone /\ ~rolledOver
    /\ EpochOf[tip] # sEpoch
    /\ rolledOver' = TRUE
    /\ DropJob(l)
    /\ UNCHANGED <<storeVars, workUnchanged>>

\* computePool starts: the row is written as pending with one more attempt.  A
\* copy without an id is inserted, and refused if a row appeared since.
StartCompute(l) ==
    LET p  == PoolOf[l]
        ps == [job[l].ps EXCEPT !.status = "pending", !.attempts = @ + 1] IN
    /\ Takes(l)
    /\ ~ctxDone /\ ~rolledOver
    /\ EpochOf[tip] = sEpoch
    /\ IF job[l].ps.status = "none" /\ row[p][sEpoch].status # "none"
         THEN DropJob(l) /\ UNCHANGED row
         ELSE /\ job' = [job EXCEPT ![l] = [@ EXCEPT !.pc = "verify", !.ps = ps]]
              /\ SavePoolSchedule(p, sEpoch, ps)
    /\ UNCHANGED <<chainVars, slotSt, obs, summ, held, rolledOver, workUnchanged>>

\* fail(): a shutdown refunds the attempt and leaves the row pending.
FailedRow(ps, status) ==
    IF ctxDone THEN [ps EXCEPT !.status = "pending", !.attempts = @ - 1]
               ELSE [ps EXCEPT !.status = status]

Fail(l, ps, status) ==
    /\ SavePoolSchedule(PoolOf[l], sEpoch, FailedRow(ps, status))
    /\ DropJob(l)
    /\ UNCHANGED <<chainVars, slotSt, obs, summ, held, rolledOver, workUnchanged>>

\* vrf.skey is not on disk, or vrf.vkey cannot be hashed.
KeyMissing(l) ==
    /\ job[l].pc = "verify" /\ Fails("key")
    /\ Fail(l, job[l].ps, "key_missing")

\* The Blockfrost pool lookup fails: the attempt is refunded.
PoolLookupFails(l) ==
    /\ job[l].pc = "verify" /\ Fails("pool")
    /\ Fail(l, [job[l].ps EXCEPT !.attempts = @ - 1], "pending")

\* The local key is not the one registered on chain.
KeyStale(l) ==
    /\ job[l].pc = "verify" /\ "stale" \in Faults
    /\ Fail(l, job[l].ps, "key_stale")

\* The key is the registered one, the fee parameters came with it, and the reward
\* estimate is fetched if it can be: the row as the worker holds it when the cli
\* run ends.
Verified(l, gotHistory) ==
    /\ job[l].pc = "verify"
    /\ gotHistory \/ Fails("history")

WithEstimate(l, gotHistory) ==
    [job[l].ps EXCEPT !.est = @ \cup (IF gotHistory THEN Fillable ELSE {"fees"})]

\* The leadership-schedule run fails or times out.
CliFails(l, gotHistory) ==
    /\ Verified(l, gotHistory) /\ Fails("cli")
    /\ Fail(l, WithEstimate(l, gotHistory), "cli_error")

\* The slots of the epoch the node is in when it answers.
CliEntries(p) == Leader[p] \cap SlotsOf(EpochOf[tip])

\* Faulty variant: the window of the epoch is not checked.
CliAnswersUnchecked(l, gotHistory) ==
    /\ Verified(l, gotHistory)
    /\ job' = [job EXCEPT ![l] = [@ EXCEPT !.pc = "store", !.ps = WithEstimate(l, gotHistory),
                                          !.slots = CliEntries(PoolOf[l])]]
    /\ UNCHANGED <<storeVars, rolledOver, workUnchanged>>

\* The run answers, and its slots are checked against the epoch's window.
CliAnswers(l, gotHistory) ==
    LET entries == CliEntries(PoolOf[l])
        ps      == WithEstimate(l, gotHistory) IN
    /\ Verified(l, gotHistory)
    /\ IF entries \subseteq SlotsOf(sEpoch)
         THEN /\ job' = [job EXCEPT ![l] = [@ EXCEPT !.pc = "store", !.ps = ps, !.slots = entries]]
              /\ UNCHANGED <<storeVars, rolledOver, workUnchanged>>
         ELSE Fail(l, ps, "cli_error")

\* rematchObserved goes on with the blocks left, or is done.
Rematching(j, left) ==
    IF left = {} THEN NoJob ELSE [j EXCEPT !.pc = "classify", !.slots = left, !.hand = 0]

\* ReplaceScheduledSlots.  Another job of the same pool that was about to save a
\* slot it had read finds its id gone: if the slot is scheduled again, its save is
\* refused and it goes on with the next block; if not, its save inserts the slot.
StoreSlots(l) ==
    LET Refused(m) == /\ m # l /\ PoolOf[m] = PoolOf[l]
                      /\ job[m].pc = "settle" /\ job[m].hand \in job[l].slots IN
    /\ job[l].pc = "store"
    /\ ReplaceScheduledSlots(PoolOf[l], sEpoch, job[l].slots)
    /\ job' = [m \in Listings |->
                 IF m = l THEN [job[m] EXCEPT !.pc = "mark", !.slots = {}]
                 ELSE IF Refused(m) THEN Rematching(job[m], job[m].slots)
                 ELSE job[m]]
    /\ UNCHANGED <<chainVars, row, obs, summ, rolledOver, workUnchanged>>

\* The row is marked ok and rematchObserved lists the unclassified blocks.
MarkOk(l) ==
    LET p == PoolOf[l]
        ps == [job[l].ps EXCEPT !.status = "ok"] IN
    /\ job[l].pc = "mark"
    /\ SavePoolSchedule(p, sEpoch, ps)
    /\ job' = [job EXCEPT ![l] = Rematching([@ EXCEPT !.ps = ps], Unclassified(p, sEpoch))]
    /\ UNCHANGED <<chainVars, slotSt, obs, summ, held, rolledOver, workUnchanged>>

\* rematchObserved classifies one block and sees whether its slot is pending.
Classify(l, s) ==
    LET p    == PoolOf[l]
        left == job[l].slots \ {s} IN
    /\ job[l].pc = "classify" /\ s \in job[l].slots
    /\ SaveObservedBlock(p, s, IF Scheduled(p, s) THEN "yes" ELSE "no")
    /\ job' = [job EXCEPT ![l] =
                 IF slotSt[p][s] = "pending"
                   THEN [@ EXCEPT !.pc = "settle", !.slots = left, !.hand = s]
                   ELSE Rematching(@, left)]
    /\ UNCHANGED <<chainVars, row, slotSt, summ, held, rolledOver, workUnchanged>>

\* ... and saves the slot it read as produced.
SettleMatched(l) ==
    /\ job[l].pc = "settle"
    /\ slotSt' = [slotSt EXCEPT ![PoolOf[l]][job[l].hand] = "produced"]
    /\ job' = [job EXCEPT ![l] = Rematching(@, @.slots)]
    /\ UNCHANGED <<chainVars, row, obs, summ, held, rolledOver, workUnchanged>>

WorkersDone == sPc = "work" /\ \A l \in Listings : job[l].pc = "none"
Aborted == rolledOver \/ ctxDone

\* Every worker is done with a pass that was aborted: the tick returns.
AbortPass ==
    /\ WorkersDone /\ Aborted
    /\ rolledOver' = FALSE
    /\ sPc' = "idle" /\ sEpoch' = EpochOf[0]
    /\ UNCHANGED <<storeVars, ctxDone, recheckedKeys, planVars, job, finVars>>

\* ------------------------------------------------------------------ summaries

finUnchanged == <<ctxDone, planVars, job, rolledOver>>

\* The pass is complete: the keys count as re-checked, and finalizeSummaries
\* asks which epochs are open.
FinScan ==
    /\ sPc = "finScan" \/ (WorkersDone /\ ~Aborted)
    /\ recheckedKeys' = TRUE
    /\ finEpochs' = NeedsReconcile(sEpoch)
    /\ sPc' = "finEpoch"
    /\ UNCHANGED <<storeVars, finUnchanged, sEpoch, finRows, finHand>>

\* What follows when the rows and the epochs left are these: the next row, the
\* next epoch, or the end of the tick, whose local variables are forgotten.
FinGoOn(rows, epochs) ==
    /\ sPc' = IF rows # {} THEN "finRow" ELSE IF epochs # {} THEN "finEpoch" ELSE "idle"
    /\ sEpoch' = IF rows = {} /\ epochs = {} THEN EpochOf[0] ELSE sEpoch

\* PoolSchedulesForEpoch: the loop works on this copy of the epoch's rows.
FinEpoch(e) ==
    LET tracked == { p \in Pools : row[p][e].status # "none" } IN
    /\ sPc = "finEpoch" /\ e \in finEpochs
    /\ finEpochs' = finEpochs \ {e}
    /\ finRows' = { [pool |-> p, epoch |-> e, ps |-> row[p][e]] : p \in tracked }
    /\ FinGoOn(finRows', finEpochs')
    /\ UNCHANGED <<storeVars, recheckedKeys, finUnchanged, finHand>>

\* Faulty variant: an epoch is closed as soon as it is over.
SummariseEarly(p, e, status) ==
    [exists      |-> TRUE,
     scheduled   |-> Cardinality(RowsIn(p, e, {"pending", "produced", "missed"})),
     produced    |-> Cardinality(RowsIn(p, e, {"produced"})),
     missed      |-> Cardinality(RowsIn(p, e, {"missed"})),
     actualsOnly |-> status # "ok",
     finalized   |-> e < sEpoch /\ status # "pending"]

\* The summary of a pool's epoch, from the status its schedule ended with.
Summarise(p, e, status) ==
    IF status = "ok"
      THEN [exists      |-> TRUE,
            scheduled   |-> Cardinality(RowsIn(p, e, {"pending", "produced", "missed"})),
            produced    |-> Cardinality(RowsIn(p, e, {"produced"})),
            missed      |-> Cardinality(RowsIn(p, e, {"missed"})),
            actualsOnly |-> FALSE,
            finalized   |-> e < sEpoch /\ RowsIn(p, e, {"pending"}) = {}]
      ELSE [exists      |-> TRUE,
            scheduled   |-> 0,
            produced    |-> Cardinality({ s \in SlotsOf(e) : obs[p][s] # "none" }),
            missed      |-> 0,
            actualsOnly |-> TRUE,
            finalized   |-> e < sEpoch /\ status # "pending"]

\* Faulty variant: a past schedule still pending is left pending.
FinCountNoExpiry(r) ==
    /\ sPc = "finRow" /\ r \in finRows
    /\ finRows' = finRows \ {r}
    /\ finHand' = {[pool |-> r.pool, epoch |-> r.epoch,
                   es |-> Summarise(r.pool, r.epoch, r.ps.status)]}
    /\ sPc' = "finSave"
    /\ UNCHANGED <<storeVars, recheckedKeys, finUnchanged, sEpoch, finEpochs>>

\* One row: a past schedule still pending expires, and the slots are counted.
FinCount(r) ==
    LET expired == r.epoch < sEpoch /\ r.ps.status = "pending"
        status  == IF expired THEN "expired" ELSE r.ps.status IN
    /\ sPc = "finRow" /\ r \in finRows
    /\ finRows' = finRows \ {r}
    /\ IF expired THEN SavePoolSchedule(r.pool, r.epoch, [r.ps EXCEPT !.status = "expired"])
                  ELSE UNCHANGED row
    /\ finHand' = {[pool |-> r.pool, epoch |-> r.epoch,
                   es |-> Summarise(r.pool, r.epoch, status)]}
    /\ sPc' = "finSave"
    /\ UNCHANGED <<chainVars, slotSt, obs, summ, held, recheckedKeys, finUnchanged,
                   sEpoch, finEpochs>>

\* expectedBlocks only fills a display column; the summary is saved.
FinSave ==
    /\ sPc = "finSave"
    /\ \E h \in finHand : SaveEpochSummary(h.pool, h.epoch, h.es)
    /\ finHand' = {}
    /\ FinGoOn(finRows, finEpochs)
    /\ UNCHANGED <<chainVars, row, slotSt, obs, held, recheckedKeys, finUnchanged,
                   finEpochs, finRows>>

SchedulerNext ==
    \/ SchedulerTick \/ AbortPass
    \/ \E l \in Listings :
         \/ Seed(l) \/ PlanPool(l)
         \/ \E e \in Epochs : BackfillSave(l, e)
         \/ SkipJob(l) \/ SeeRollover(l) \/ StartCompute(l)
         \/ KeyMissing(l) \/ PoolLookupFails(l) \/ KeyStale(l)
         \/ \E got \in BOOLEAN : CliFails(l, got) \/ CliAnswers(l, got)
         \/ StoreSlots(l) \/ MarkOk(l)
         \/ \E s \in Slots : Classify(l, s)
         \/ SettleMatched(l)
    \/ FinScan \/ FinSave
    \/ \E e \in Epochs : FinEpoch(e)
    \/ \E r \in finRows : FinCount(r)

SchedulerIdle ==
    /\ sPc = "idle" /\ sEpoch = EpochOf[0]
    /\ plan = {} /\ cur = {} /\ backfill = {}
    /\ job = [l \in Listings |-> NoJob]
    /\ rolledOver = FALSE
    /\ finEpochs = {} /\ finRows = {} /\ finHand = {}

\* The process is gone with everything the loop had in memory.
SchedulerLost ==
    /\ recheckedKeys' = FALSE
    /\ sPc' = "idle" /\ sEpoch' = EpochOf[0]
    /\ plan' = {} /\ cur' = {} /\ backfill' = {}
    /\ job' = [l \in Listings |-> NoJob]
    /\ rolledOver' = FALSE
    /\ finEpochs' = {} /\ finRows' = {} /\ finHand' = {}

SchedulerInit == SchedulerIdle /\ recheckedKeys = FALSE

SchedulerTypeOK ==
    /\ recheckedKeys \in BOOLEAN
    /\ sPc \in {"idle", "plan", "work", "finScan", "finEpoch", "finRow", "finSave"}
    /\ sEpoch \in Epochs
    /\ plan \subseteq Listings /\ cur \subseteq Listings
    /\ backfill \subseteq Epochs
    /\ job \in [Listings -> Job]
    /\ rolledOver \in BOOLEAN
    /\ finEpochs \subseteq Epochs
    /\ finRows \subseteq FinRow
    /\ finHand \subseteq FinHand
=============================================================================
