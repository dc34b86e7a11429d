------------------------ MODULE LeaderLoops_proofs -------------------------
(***************************************************************************)
(* The store and the two loops that write to it: what each save does to    *)
(* the types, how the environment moves, and the invariant that makes a    *)
(* recorded miss a fact; then, loop by loop, that each step keeps both.    *)
(***************************************************************************)
EXTENDS LeaderScheduler, LeaderReconciler, FiniteSetTheorems, TLAPS

\* ------------------------------------------------------------------ the store

\* Every set of slots is finite, so counting one gives a number.
LEMMA SlotCounts ==
    ASSUME NEW S \in SUBSET Slots
    PROVE  IsFiniteSet(S) /\ Cardinality(S) \in Nat
<1>1. IsFiniteSet(Slots)
  BY FS_Interval, SlotsAssumption DEF Slots
<1>2. IsFiniteSet(S)
  BY <1>1, FS_Subset
<1> QED
  BY <1>2, FS_CardinalityType

\* The epochs EpochsNeedingReconcile answers exist.
LEMMA NeedsReconcileEpochs ==
    ASSUME NEW e \in Epochs
    PROVE  NeedsReconcile(e) \subseteq Epochs
  BY DEF NeedsReconcile

\* Every slot of the instance lies in one of its epochs.
LEMMA EpochOfType == \A s \in 0..NSlots : EpochOf[s] \in Epochs
  BY EpochsAssumption

\* Writing one cell of a two-level table keeps its type.
LEMMA CellUpdate ==
    ASSUME NEW A, NEW B, NEW V, NEW f \in [A -> [B -> V]],
           NEW a \in A, NEW b \in B, NEW v \in V
    PROVE  [f EXCEPT ![a][b] = v] \in [A -> [B -> V]]
<1>1. [f[a] EXCEPT ![b] = v] \in [B -> V]
  OBVIOUS
<1> QED
  BY <1>1

\* Each save keeps its table well typed.
LEMMA SaveRowTypes ==
    ASSUME StoreTypeOK, NEW p \in Pools, NEW e \in Epochs, NEW ps \in Row,
           SavePoolSchedule(p, e, ps)
    PROVE  row' \in [Pools -> [Epochs -> Row]]
  BY CellUpdate, Zenon DEF StoreTypeOK, SavePoolSchedule

\* Saving an observed block keeps the table's type (SaveObservedBlock).
LEMMA SaveBlockTypes ==
    ASSUME StoreTypeOK, NEW p \in Pools, NEW s \in Slots, NEW v \in ObsState,
           SaveObservedBlock(p, s, v)
    PROVE  obs' \in [Pools -> [Slots -> ObsState]]
  BY CellUpdate, Zenon DEF StoreTypeOK, SaveObservedBlock

\* Saving a summary keeps the table's type (SaveEpochSummary).
LEMMA SaveSummaryTypes ==
    ASSUME StoreTypeOK, NEW p \in Pools, NEW e \in Epochs, NEW es \in Summary,
           SaveEpochSummary(p, e, es)
    PROVE  summ' \in [Pools -> [Epochs -> Summary]]
  BY CellUpdate, Zenon DEF StoreTypeOK, SaveEpochSummary

\* Saving a copy of a slot row keeps the table's type (SaveSlot).
LEMMA SaveSlotTypes ==
    ASSUME StoreTypeOK, NEW p \in Pools, NEW s \in Slots, NEW v \in SlotState,
           SaveSlot(p, s, v)
    PROVE  slotSt' \in [Pools -> [Slots -> SlotState]]
<1>1. [slotSt EXCEPT ![p][s] = v] \in [Pools -> [Slots -> SlotState]]
  BY CellUpdate, Zenon DEF StoreTypeOK
<1> QED
  BY <1>1 DEF StoreTypeOK, SaveSlot

\* Replacing an epoch's schedule keeps the table's type (ReplaceScheduledSlots).
LEMMA ReplaceTypes ==
    ASSUME StoreTypeOK, NEW p \in Pools, NEW e \in Epochs, NEW entries,
           ReplaceScheduledSlots(p, e, entries)
    PROVE  /\ slotSt' \in [Pools -> [Slots -> SlotState]]
           /\ held' \subseteq Pools \X Slots
  BY DEF StoreTypeOK, ReplaceScheduledSlots, SlotState

\* The empty database and the chain before its first block have their types.
LEMMA StoreInitTypes == StoreInit => StoreTypeOK
<1> SUFFICES ASSUME StoreInit PROVE StoreTypeOK
  OBVIOUS
<1>1. NoRow \in Row /\ NoSummary \in Summary
  BY DEF NoRow, Row, Status, NoSummary, Summary
<1>2. "none" \in SlotState /\ "none" \in ObsState
  BY DEF SlotState, ObsState
<1>3. 0 \in 0..NSlots
  BY SlotsAssumption
<1>4. row \in [Pools -> [Epochs -> Row]] /\ summ \in [Pools -> [Epochs -> Summary]]
  BY <1>1, Zenon DEF StoreInit
<1>5. /\ slotSt \in [Pools -> [Slots -> SlotState]]
      /\ obs \in [Pools -> [Slots -> ObsState]]
      /\ chain \in [Slots -> Pools \cup {Empty, Other}]
  BY <1>2 DEF StoreInit
<1> QED
  BY <1>3, <1>4, <1>5 DEF StoreInit, StoreTypeOK

\* A step that leaves the tables and the chain alone keeps their types.
LEMMA StoreFrame ==
    ASSUME StoreTypeOK, UNCHANGED <<storeVars, ctxDone>>
    PROVE  StoreTypeOK'
  BY DEF StoreTypeOK, storeVars

\* A block minted, indexed or switched keeps the types.
LEMMA EnvTypes ==
    ASSUME StoreTypeOK, EnvNext
    PROVE  StoreTypeOK'
<1>1. ASSUME NEW s \in Slots, NEW who \in Occupants(s), Mint(s, who)
      PROVE  StoreTypeOK'
  BY <1>1, SlotsAssumption DEF StoreTypeOK, Mint, Occupants, Slots
<1>2. ASSUME NEW s \in Slots, BfIndex(s)
      PROVE  StoreTypeOK'
  BY <1>2, SlotsAssumption DEF StoreTypeOK, BfIndex, Slots
<1>3. ASSUME NEW s \in Slots, NEW who \in Occupants(s) \cup {Empty}, Reorg(s, who)
      PROVE  StoreTypeOK'
  BY <1>3, SlotsAssumption DEF StoreTypeOK, Reorg, Occupants, Slots
<1> QED
  BY <1>1, <1>2, <1>3 DEF EnvNext

\* ------------------------------------------------------ when a miss is a fact

\* The indexer is never ahead of the node, and a slot recorded as missed is
\* deeper than the margin and without our block: no chain switch reaches it.
MissesAreDeep ==
    /\ bfTip <= tip
    /\ \A p \in Pools, s \in Slots :
          slotSt[p][s] = "missed" => chain[s] # p /\ s + SettleMargin < tip

\* The environment only adds blocks after the tip, lets the indexer follow it,
\* and switches slots that are within the margin.
LEMMA EnvMisses ==
    ASSUME StoreTypeOK, MissesAreDeep, EnvNext
    PROVE  MissesAreDeep' /\ bfTip' >= bfTip
<1> USE SlotsAssumption, MarginAssumption
<1>1. ASSUME NEW s \in Slots, NEW who \in Occupants(s), Mint(s, who)
      PROVE  MissesAreDeep' /\ bfTip' >= bfTip
  BY <1>1 DEF StoreTypeOK, MissesAreDeep, Mint, Slots
<1>2. ASSUME NEW s \in Slots, BfIndex(s)
      PROVE  MissesAreDeep' /\ bfTip' >= bfTip
  BY <1>2 DEF StoreTypeOK, MissesAreDeep, BfIndex, Slots
<1>3. ASSUME NEW s \in Slots, NEW who \in Occupants(s) \cup {Empty}, Reorg(s, who)
      PROVE  MissesAreDeep' /\ bfTip' >= bfTip
  BY <1>3 DEF StoreTypeOK, MissesAreDeep, Reorg, Slots
<1> QED
  BY <1>1, <1>2, <1>3 DEF EnvNext

\* A recompute makes no miss: it keeps those there were, or drops them.
LEMMA ReplaceMisses ==
    ASSUME StoreTypeOK, MissesAreDeep, UNCHANGED chainVars,
           NEW p \in Pools, NEW e, NEW entries, ReplaceScheduledSlots(p, e, entries)
    PROVE  MissesAreDeep'
  BY DEF StoreTypeOK, MissesAreDeep, chainVars, ReplaceScheduledSlots

\* Saving a slot makes no miss unless it is saved as one.
LEMMA SaveMisses ==
    ASSUME StoreTypeOK, MissesAreDeep, UNCHANGED chainVars,
           NEW p \in Pools, NEW s \in Slots, NEW v \in SlotState, SaveSlot(p, s, v),
           v = "missed" => chain[s] # p /\ s + SettleMargin < tip
    PROVE  MissesAreDeep'
  BY DEF StoreTypeOK, MissesAreDeep, chainVars, SaveSlot

\* A step that leaves the slot table and the chain alone adds no miss.
LEMMA MissesFrame ==
    ASSUME MissesAreDeep, UNCHANGED <<chainVars, slotSt>>
    PROVE  MissesAreDeep'
  BY DEF MissesAreDeep, chainVars

\* -------------------------------------------------------------- the scheduler

\* A job written in place of another keeps the worker table's type.
LEMMA JobUpdate ==
    ASSUME SchedulerTypeOK, NEW l \in Listings, NEW j \in Job,
           job' = [job EXCEPT ![l] = j]
    PROVE  job' \in [Listings -> Job]
  BY DEF SchedulerTypeOK

\* The empty job and the empty row have their types.
LEMMA NoJobType == NoJob \in Job /\ NoRow \in Row
  BY SlotsAssumption DEF NoJob, Job, JobPc, NoRow, Row, Status

\* A row with another status, and an attempt counted or refunded, is a row.
LEMMA RowUpdates ==
    ASSUME NEW ps \in Row, NEW status \in Status
    PROVE  /\ [ps EXCEPT !.status = status] \in Row
           /\ [ps EXCEPT !.status = status, !.attempts = @ + 1] \in Row
           /\ [ps EXCEPT !.status = status, !.attempts = @ - 1] \in Row
<1>1. ps.attempts + 1 \in Int /\ ps.attempts - 1 \in Int
  BY DEF Row
<1>2. [ps EXCEPT !.status = status] \in Row
  BY DEF Row
<1>3. \A n \in Int : [ps EXCEPT !.status = status, !.attempts = n] \in Row
  BY DEF Row
<1> QED
  BY <1>1, <1>2, <1>3

\* A listing names a configured pool.
LEMMA PoolOfType == ASSUME NEW l \in Listings PROVE PoolOf[l] \in Pools
  BY ListingsAssumption

\* The fields of a worker's job.
LEMMA JobFields ==
    ASSUME SchedulerTypeOK, NEW l \in Listings
    PROVE  /\ job[l] \in Job /\ job[l].pc \in JobPc /\ job[l].ps \in Row
           /\ job[l].slots \subseteq Slots /\ job[l].hand \in 0..NSlots
  BY DEF SchedulerTypeOK, Job

\* What a worker's step leaves alone is all of the loop but its jobs.
LEMMA WorkFrame ==
    ASSUME SchedulerTypeOK, UNCHANGED workUnchanged, job' \in [Listings -> Job],
           rolledOver' \in BOOLEAN
    PROVE  SchedulerTypeOK'
  BY DEF SchedulerTypeOK, workUnchanged, planVars, finVars

\* A worker that is done leaves no job behind.
LEMMA DropJobType ==
    ASSUME SchedulerTypeOK, NEW l \in Listings, DropJob(l)
    PROVE  job' \in [Listings -> Job]
  BY NoJobType, JobUpdate, Zenon DEF DropJob

\* A job that goes on rematching blocks, or has none left, is a job (rematchObserved).
LEMMA RematchingType ==
    ASSUME NEW j \in Job, NEW left \in SUBSET Slots
    PROVE  Rematching(j, left) \in Job
<1>1. 0 \in 0..NSlots /\ "classify" \in JobPc
  BY SlotsAssumption DEF JobPc
<1>2. [j EXCEPT !.pc = "classify", !.slots = left, !.hand = 0] \in Job
  BY <1>1 DEF Job
<1> QED
  BY <1>2, NoJobType DEF Rematching

\* -------------------------------------------------------------------- summary

\* What finalizeSummaries computes for a pool and epoch is a summary.
LEMMA SummariseType ==
    ASSUME StoreTypeOK, NEW p \in Pools, NEW e \in Epochs, NEW status
    PROVE  Summarise(p, e, status) \in Summary
<1> DEFINE all    == RowsIn(p, e, {"pending", "produced", "missed"})
           prod   == RowsIn(p, e, {"produced"})
           miss   == RowsIn(p, e, {"missed"})
           blocks == { s \in SlotsOf(e) : obs[p][s] # "none" }
<1>1. all \subseteq Slots /\ prod \subseteq Slots /\ miss \subseteq Slots
        /\ blocks \subseteq Slots
  BY DEF RowsIn, SlotsOf
<1>2. /\ Cardinality(all) \in Nat /\ Cardinality(prod) \in Nat
      /\ Cardinality(miss) \in Nat /\ Cardinality(blocks) \in Nat
  BY <1>1, SlotCounts
<1> HIDE DEF all, prod, miss, blocks
<1>3. (e < sEpoch /\ RowsIn(p, e, {"pending"}) = {}) \in BOOLEAN
        /\ (e < sEpoch /\ status # "pending") \in BOOLEAN
  OBVIOUS
<1> QED
  BY <1>2, <1>3 DEF Summarise, Summary, all, prod, miss, blocks

\* -------------------------------------------------------------- the type step

\* The scheduler starts idle, with its types.
LEMMA SchedulerInitTypes == SchedulerInit => SchedulerTypeOK
<1> SUFFICES ASSUME SchedulerInit PROVE SchedulerTypeOK
  OBVIOUS
<1>1. EpochOf[0] \in Epochs
  BY EpochOfType, SlotsAssumption
<1>2. [l \in Listings |-> NoJob] \in [Listings -> Job]
  BY NoJobType
<1> QED
  BY <1>1, <1>2 DEF SchedulerInit, SchedulerIdle, SchedulerTypeOK

\* The start of a scheduler tick keeps the types (schedulerTick).
LEMMA TickTypes ==
    ASSUME StoreTypeOK, SchedulerTypeOK, SchedulerTick
    PROVE  StoreTypeOK' /\ SchedulerTypeOK'
<1>1. EpochOf[tip] \in Epochs
  BY EpochOfType DEF StoreTypeOK
<1>2. StoreTypeOK'
  BY StoreFrame DEF SchedulerTick
<1> QED
  BY <1>1, <1>2 DEF SchedulerTick, SchedulerTypeOK, finVars

\* Planning and backfilling keep the types (schedulerTick, maybeBackfill).
LEMMA PlanTypes ==
    ASSUME StoreTypeOK, SchedulerTypeOK, NEW l \in Listings,
           Seed(l) \/ PlanPool(l) \/ \E e \in Epochs : BackfillSave(l, e)
    PROVE  StoreTypeOK' /\ SchedulerTypeOK'
<1> USE PoolOfType
<1>1. CASE Seed(l)
  <2>1. StoreTypeOK'
    BY <1>1, StoreFrame DEF Seed
  <2>2. ToBackfill(PoolOf[l]) \subseteq Epochs
    BY DEF ToBackfill
  <2> QED
    BY <1>1, <2>1, <2>2 DEF Seed, SchedulerTypeOK, finVars
<1>2. CASE PlanPool(l)
  <2>1. StoreTypeOK'
    BY <1>2, StoreFrame DEF PlanPool
  <2>2. sEpoch \in Epochs /\ row[PoolOf[l]][sEpoch] \in Row
    BY DEF SchedulerTypeOK, StoreTypeOK
  <2>3. [NoJob EXCEPT !.pc = "queued", !.ps = row[PoolOf[l]][sEpoch]] \in Job
    BY <2>2, NoJobType DEF Job, JobPc, NoJob
  <2>4. job' \in [Listings -> Job]
    BY <1>2, <2>3, JobUpdate DEF PlanPool, SchedulerTypeOK
  <2> QED
    BY <1>2, <2>1, <2>4 DEF PlanPool, SchedulerTypeOK, finVars
<1>3. ASSUME NEW e \in Epochs, BackfillSave(l, e)
      PROVE  StoreTypeOK' /\ SchedulerTypeOK'
  <2> DEFINE minted == Cardinality(MintedBy(PoolOf[l], e))
             es == [NoSummary EXCEPT !.exists = TRUE, !.actualsOnly = TRUE, !.finalized = TRUE,
                                     !.produced = minted]
  <2>1. minted \in Nat
    BY SlotCounts DEF MintedBy, SlotsOf
  <2>2. es \in Summary
    BY <2>1 DEF NoSummary, Summary
  <2>3. summ' \in [Pools -> [Epochs -> Summary]]
    BY <1>3, <2>2, SaveSummaryTypes DEF BackfillSave
  <2> QED
    BY <1>3, <2>3 DEF BackfillSave, StoreTypeOK, SchedulerTypeOK, finVars, chainVars
<1> QED
  BY <1>1, <1>2, <1>3

\* fail() writes the worker's row and drops the job.
LEMMA FailTypes ==
    ASSUME StoreTypeOK, SchedulerTypeOK, NEW l \in Listings, NEW ps \in Row,
           NEW status \in Status, Fail(l, ps, status)
    PROVE  StoreTypeOK' /\ SchedulerTypeOK'
<1>1. FailedRow(ps, status) \in Row
  BY RowUpdates DEF FailedRow, Status
<1>2. row' \in [Pools -> [Epochs -> Row]]
  BY <1>1, PoolOfType, SaveRowTypes DEF Fail, SchedulerTypeOK
<1>3. StoreTypeOK'
  BY <1>2 DEF Fail, StoreTypeOK, chainVars, workUnchanged
<1>4. job' \in [Listings -> Job]
  BY DropJobType DEF Fail
<1> QED
  BY <1>3, <1>4, WorkFrame DEF Fail, SchedulerTypeOK

\* A worker taking or skipping a queued pool keeps the types (schedulerTick).
LEMMA TakeTypes ==
    ASSUME StoreTypeOK, SchedulerTypeOK, NEW l \in Listings,
           SkipJob(l) \/ SeeRollover(l) \/ StartCompute(l)
    PROVE  StoreTypeOK' /\ SchedulerTypeOK'
<1> USE PoolOfType, JobFields
<1>1. CASE SkipJob(l)
  <2>1. StoreTypeOK'
    BY <1>1, StoreFrame DEF SkipJob, workUnchanged
  <2> QED
    BY <1>1, <2>1, DropJobType, WorkFrame DEF SkipJob, SchedulerTypeOK
<1>2. CASE SeeRollover(l)
  <2>1. StoreTypeOK'
    BY <1>2, StoreFrame DEF SeeRollover, workUnchanged
  <2> QED
    BY <1>2, <2>1, DropJobType, WorkFrame DEF SeeRollover, SchedulerTypeOK
<1>3. CASE StartCompute(l)
  <2> DEFINE ps == [job[l].ps EXCEPT !.status = "pending", !.attempts = @ + 1]
             j  == [job[l] EXCEPT !.pc = "verify", !.ps = ps]
  <2>1. ps \in Row
    BY RowUpdates DEF Status
  <2>2. j \in Job
    BY <2>1 DEF Job, JobPc
  <2>3. CASE DropJob(l) /\ UNCHANGED row
    <3>1. StoreTypeOK'
      BY <1>3, <2>3 DEF StartCompute, StoreTypeOK, chainVars, workUnchanged
    <3> QED
      BY <1>3, <2>3, <3>1, DropJobType, WorkFrame DEF StartCompute, SchedulerTypeOK
  <2>4. CASE job' = [job EXCEPT ![l] = j] /\ SavePoolSchedule(PoolOf[l], sEpoch, ps)
    <3>1. row' \in [Pools -> [Epochs -> Row]]
      BY <2>1, <2>4, SaveRowTypes DEF SchedulerTypeOK
    <3>2. StoreTypeOK'
      BY <1>3, <3>1 DEF StartCompute, StoreTypeOK, chainVars, workUnchanged
    <3> QED
      BY <1>3, <2>2, <2>4, <3>2, JobUpdate, WorkFrame DEF StartCompute, SchedulerTypeOK
  <2> QED
    BY <1>3, <2>3, <2>4 DEF StartCompute
<1> QED
  BY <1>1, <1>2, <1>3

\* Every outcome of the key checks and of the cli run keeps the types (computePool).
LEMMA VerifyTypes ==
    ASSUME StoreTypeOK, SchedulerTypeOK, NEW l \in Listings, NEW got \in BOOLEAN,
           \/ KeyMissing(l) \/ PoolLookupFails(l) \/ KeyStale(l)
           \/ CliFails(l, got) \/ CliAnswers(l, got)
    PROVE  StoreTypeOK' /\ SchedulerTypeOK'
<1> USE PoolOfType, JobFields
<1>1. {"pending", "key_missing", "key_stale", "cli_error"} \subseteq Status
  BY DEF Status
<1>2. CASE KeyMissing(l) \/ KeyStale(l)
  BY <1>1, <1>2, FailTypes DEF KeyMissing, KeyStale
<1>3. CASE PoolLookupFails(l)
  <2>1. [job[l].ps EXCEPT !.attempts = @ - 1] \in Row
    BY DEF Row
  <2> QED
    BY <1>1, <1>3, <2>1, FailTypes DEF PoolLookupFails
<1>4. WithEstimate(l, got) \in Row
  BY DEF WithEstimate, Row, Fillable
<1>5. CASE CliFails(l, got)
  BY <1>1, <1>4, <1>5, FailTypes DEF CliFails
<1>6. CASE CliAnswers(l, got)
  <2> DEFINE entries == CliEntries(PoolOf[l])
             j == [job[l] EXCEPT !.pc = "store", !.ps = WithEstimate(l, got), !.slots = entries]
  <2>1. entries \subseteq Slots
    BY DEF CliEntries, SlotsOf
  <2>2. j \in Job
    BY <1>4, <2>1 DEF Job, JobPc
  <2>3. CASE /\ job' = [job EXCEPT ![l] = j]
             /\ UNCHANGED <<storeVars, rolledOver, workUnchanged>>
    <3>1. StoreTypeOK'
      BY <2>3, StoreFrame DEF workUnchanged
    <3> QED
      BY <2>2, <2>3, <3>1, JobUpdate, WorkFrame DEF SchedulerTypeOK
  <2>4. CASE Fail(l, WithEstimate(l, got), "cli_error")
    BY <1>1, <1>4, <2>4, FailTypes
  <2> QED
    BY <1>6, <2>3, <2>4 DEF CliAnswers
<1> QED
  BY <1>2, <1>3, <1>5, <1>6

\* Storing a schedule and rematching blocks keep the types (computePool, rematchObserved).
LEMMA StoreTypes ==
    ASSUME StoreTypeOK, SchedulerTypeOK, NEW l \in Listings,
           \/ StoreSlots(l) \/ MarkOk(l) \/ SettleMatched(l)
           \/ \E s \in Slots : Classify(l, s)
    PROVE  StoreTypeOK' /\ SchedulerTypeOK'
<1> USE PoolOfType, JobFields
<1>1. CASE StoreSlots(l)
  <2>1. /\ slotSt' \in [Pools -> [Slots -> SlotState]]
        /\ held' \subseteq Pools \X Slots
    BY <1>1, ReplaceTypes DEF StoreSlots, SchedulerTypeOK
  <2>2. StoreTypeOK'
    BY <1>1, <2>1 DEF StoreSlots, StoreTypeOK, chainVars, workUnchanged
  <2>3. \A m \in Listings : /\ [job[m] EXCEPT !.pc = "mark", !.slots = {}] \in Job
                            /\ Rematching(job[m], job[m].slots) \in Job
    <3>1. ASSUME NEW m \in Listings
          PROVE  job[m] \in Job /\ job[m].slots \subseteq Slots
      BY DEF SchedulerTypeOK, Job
    <3>2. \A m \in Listings : [job[m] EXCEPT !.pc = "mark", !.slots = {}] \in Job
      BY <3>1 DEF Job, JobPc
    <3> QED
      BY <3>1, <3>2, RematchingType
  <2>4. job' \in [Listings -> Job]
    BY <1>1, <2>3 DEF StoreSlots
  <2> QED
    BY <1>1, <2>2, <2>4, WorkFrame DEF StoreSlots, SchedulerTypeOK
<1>2. CASE MarkOk(l)
  <2> DEFINE ps == [job[l].ps EXCEPT !.status = "ok"]
             j  == Rematching([job[l] EXCEPT !.ps = ps], Unclassified(PoolOf[l], sEpoch))
  <2>1. ps \in Row
    BY RowUpdates DEF Status
  <2>2. [job[l] EXCEPT !.ps = ps] \in Job
    BY <2>1 DEF Job
  <2>3. Unclassified(PoolOf[l], sEpoch) \subseteq Slots
    BY DEF Unclassified, SlotsOf
  <2>4. j \in Job
    BY <2>2, <2>3, RematchingType
  <2>5. row' \in [Pools -> [Epochs -> Row]]
    BY <1>2, <2>1, SaveRowTypes DEF MarkOk, SchedulerTypeOK
  <2>6. StoreTypeOK'
    BY <1>2, <2>5 DEF MarkOk, StoreTypeOK, chainVars, workUnchanged
  <2>7. job' \in [Listings -> Job]
    BY <1>2, <2>4, JobUpdate DEF MarkOk
  <2> QED
    BY <1>2, <2>6, <2>7, WorkFrame DEF MarkOk, SchedulerTypeOK
<1>3. CASE SettleMatched(l)
  <2>1. Rematching(job[l], job[l].slots) \in Job
    BY RematchingType
  <2>2. slotSt' \in [Pools -> [Slots -> SlotState]]
    BY <1>3 DEF SettleMatched, StoreTypeOK, SlotState
  <2>3. StoreTypeOK'
    BY <1>3, <2>2 DEF SettleMatched, StoreTypeOK, chainVars, workUnchanged
  <2>4. job' \in [Listings -> Job]
    BY <1>3, <2>1, JobUpdate DEF SettleMatched
  <2> QED
    BY <1>3, <2>3, <2>4, WorkFrame DEF SettleMatched, SchedulerTypeOK
<1>4. ASSUME NEW s \in Slots, Classify(l, s)
      PROVE  StoreTypeOK' /\ SchedulerTypeOK'
  <2> DEFINE v == IF Scheduled(PoolOf[l], s) THEN "yes" ELSE "no"
             waits == [job[l] EXCEPT !.pc = "settle", !.slots = job[l].slots \ {s}, !.hand = s]
             goes  == Rematching(job[l], job[l].slots \ {s})
  <2>1. v \in ObsState
    BY DEF ObsState
  <2>2. obs' \in [Pools -> [Slots -> ObsState]]
    <3>1. SaveObservedBlock(PoolOf[l], s, v)
      BY <1>4 DEF Classify
    <3> QED
      BY <2>1, <3>1, SaveBlockTypes, EpochOfType
  <2>3. StoreTypeOK'
    BY <1>4, <2>2 DEF Classify, StoreTypeOK, chainVars, workUnchanged
  <2>4. waits \in Job
    <3>1. s \in 0..NSlots /\ "settle" \in JobPc
      BY DEF Slots, JobPc
    <3> QED
      BY <3>1 DEF Job
  <2>5. goes \in Job
    BY RematchingType
  <2>6. job' \in [Listings -> Job]
    <3>1. CASE slotSt[PoolOf[l]][s] = "pending"
      <4>1. job' = [job EXCEPT ![l] = waits]
        BY <1>4, <3>1 DEF Classify
      <4> QED
        BY <2>4, <4>1, JobUpdate, Zenon
    <3>2. CASE slotSt[PoolOf[l]][s] # "pending"
      <4>1. job' = [job EXCEPT ![l] = goes]
        BY <1>4, <3>2 DEF Classify
      <4> QED
        BY <2>5, <4>1, JobUpdate, Zenon
    <3> QED
      BY <3>1, <3>2
  <2> QED
    BY <1>4, <2>3, <2>6, WorkFrame DEF Classify, SchedulerTypeOK
<1> QED
  BY <1>1, <1>2, <1>3, <1>4

\* The end of a pass, aborted or complete, keeps the types (schedulerTick).
LEMMA PassTypes ==
    ASSUME StoreTypeOK, SchedulerTypeOK, AbortPass \/ FinScan
    PROVE  StoreTypeOK' /\ SchedulerTypeOK'
<1>1. EpochOf[0] \in Epochs
  BY EpochOfType, SlotsAssumption
<1>2. CASE AbortPass
  <2>1. StoreTypeOK'
    BY <1>2, StoreFrame DEF AbortPass
  <2> QED
    BY <1>1, <1>2, <2>1 DEF AbortPass, SchedulerTypeOK, planVars, finVars
<1>3. CASE FinScan
  <2>1. StoreTypeOK'
    BY <1>3, StoreFrame DEF FinScan, finUnchanged
  <2>2. NeedsReconcile(sEpoch) \subseteq Epochs
    BY NeedsReconcileEpochs DEF SchedulerTypeOK
  <2> QED
    BY <1>3, <2>1, <2>2 DEF FinScan, finUnchanged, SchedulerTypeOK, planVars
<1> QED
  BY <1>2, <1>3

\* Expiring, counting and summarising an epoch keep the types (finalizeSummaries).
LEMMA FinTypes ==
    ASSUME StoreTypeOK, SchedulerTypeOK,
           \/ \E e \in Epochs : FinEpoch(e)
           \/ \E r \in finRows : FinCount(r)
           \/ FinSave
    PROVE  StoreTypeOK' /\ SchedulerTypeOK'
<1>1. ASSUME NEW rows, NEW epochs, FinGoOn(rows, epochs)
      PROVE  /\ sEpoch' \in Epochs
             /\ sPc' \in {"finRow", "finEpoch", "idle"}
  BY <1>1, EpochOfType, SlotsAssumption DEF FinGoOn, SchedulerTypeOK
<1>2. ASSUME NEW e \in Epochs, FinEpoch(e)
      PROVE  StoreTypeOK' /\ SchedulerTypeOK'
  <2>1. StoreTypeOK'
    BY <1>2, StoreFrame DEF FinEpoch, finUnchanged
  <2>2. finRows' \subseteq FinRow
    BY <1>2 DEF FinEpoch, FinRow, StoreTypeOK
  <2>3. sEpoch' \in Epochs /\ sPc' \in {"finRow", "finEpoch", "idle"}
    BY <1>1, <1>2 DEF FinEpoch
  <2> QED
    BY <1>2, <2>1, <2>2, <2>3 DEF FinEpoch, finUnchanged, SchedulerTypeOK, planVars
<1>3. ASSUME NEW r \in finRows, FinCount(r)
      PROVE  StoreTypeOK' /\ SchedulerTypeOK'
  <2> DEFINE expired == r.epoch < sEpoch /\ r.ps.status = "pending"
             es == Summarise(r.pool, r.epoch, IF expired THEN "expired" ELSE r.ps.status)
  <2>1. r \in FinRow /\ r.pool \in Pools /\ r.epoch \in Epochs /\ r.ps \in Row
    BY DEF SchedulerTypeOK, FinRow
  <2>2. es \in Summary
    BY <2>1, SummariseType
  <2>3. finHand' \subseteq FinHand
    <3>1. [pool |-> r.pool, epoch |-> r.epoch, es |-> es] \in FinHand
      BY <2>1, <2>2 DEF FinHand
    <3> QED
      BY <1>3, <3>1 DEF FinCount
  <2>4. row' \in [Pools -> [Epochs -> Row]]
    <3>1. [r.ps EXCEPT !.status = "expired"] \in Row
      BY <2>1, RowUpdates DEF Status
    <3>2. CASE SavePoolSchedule(r.pool, r.epoch, [r.ps EXCEPT !.status = "expired"])
      BY <2>1, <3>1, <3>2, SaveRowTypes
    <3>3. CASE UNCHANGED row
      BY <3>3 DEF StoreTypeOK
    <3> QED
      BY <1>3, <3>2, <3>3 DEF FinCount
  <2>5. StoreTypeOK'
    BY <1>3, <2>4 DEF FinCount, StoreTypeOK, chainVars, finUnchanged
  <2> QED
    BY <1>3, <2>3, <2>5 DEF FinCount, SchedulerTypeOK, finUnchanged, planVars
<1>4. CASE FinSave
  <2>1. PICK h \in finHand : SaveEpochSummary(h.pool, h.epoch, h.es)
    BY <1>4 DEF FinSave
  <2>2. h.pool \in Pools /\ h.epoch \in Epochs /\ h.es \in Summary
    BY DEF SchedulerTypeOK, FinHand
  <2>3. summ' \in [Pools -> [Epochs -> Summary]]
    BY <2>1, <2>2, SaveSummaryTypes
  <2>4. StoreTypeOK'
    BY <1>4, <2>3 DEF FinSave, StoreTypeOK, chainVars, finUnchanged
  <2>5. sEpoch' \in Epochs /\ sPc' \in {"finRow", "finEpoch", "idle"}
    BY <1>1, <1>4 DEF FinSave
  <2> QED
    BY <1>4, <2>4, <2>5 DEF FinSave, SchedulerTypeOK, finUnchanged, planVars
<1> QED
  BY <1>2, <1>3, <1>4

\* Every step of the scheduler keeps the store and the loop well typed.
THEOREM SchedulerTypes ==
    ASSUME StoreTypeOK, SchedulerTypeOK, SchedulerNext
    PROVE  StoreTypeOK' /\ SchedulerTypeOK'
<1>1. CASE SchedulerTick
  BY <1>1, TickTypes
<1>2. CASE AbortPass \/ FinScan
  BY <1>2, PassTypes
<1>3. CASE FinSave \/ (\E e \in Epochs : FinEpoch(e)) \/ (\E r \in finRows : FinCount(r))
  BY <1>3, FinTypes
<1>4. ASSUME NEW l \in Listings,
             Seed(l) \/ PlanPool(l) \/ \E e \in Epochs : BackfillSave(l, e)
      PROVE  StoreTypeOK' /\ SchedulerTypeOK'
  BY <1>4, PlanTypes
<1>5. ASSUME NEW l \in Listings, SkipJob(l) \/ SeeRollover(l) \/ StartCompute(l)
      PROVE  StoreTypeOK' /\ SchedulerTypeOK'
  BY <1>5, TakeTypes
<1>6. ASSUME NEW l \in Listings, NEW got \in BOOLEAN,
             \/ KeyMissing(l) \/ PoolLookupFails(l) \/ KeyStale(l)
             \/ CliFails(l, got) \/ CliAnswers(l, got)
      PROVE  StoreTypeOK' /\ SchedulerTypeOK'
  BY <1>6, VerifyTypes
<1>7. ASSUME NEW l \in Listings,
             \/ StoreSlots(l) \/ MarkOk(l) \/ SettleMatched(l)
             \/ \E s \in Slots : Classify(l, s)
      PROVE  StoreTypeOK' /\ SchedulerTypeOK'
  BY <1>7, StoreTypes
<1> QED
  BY <1>1, <1>2, <1>3, <1>4, <1>5, <1>6, <1>7 DEF SchedulerNext

\* -------------------------------------------------------------- the miss step

\* Only StoreSlots and SettleMatched write the slot table.
LEMMA SchedulerSlotWrites ==
    ASSUME SchedulerNext
    PROVE  /\ UNCHANGED chainVars
           /\ \/ UNCHANGED slotSt
              \/ \E l \in Listings : StoreSlots(l) \/ SettleMatched(l)
<1> USE DEF storeVars, chainVars, workUnchanged, finUnchanged, planVars, finVars
<1>1. CASE SchedulerTick \/ AbortPass \/ FinScan \/ FinSave
  BY <1>1 DEF SchedulerTick, AbortPass, FinScan, FinSave
<1>2. CASE (\E e \in Epochs : FinEpoch(e)) \/ (\E r \in finRows : FinCount(r))
  BY <1>2 DEF FinEpoch, FinCount
<1>3. ASSUME NEW l \in Listings,
             Seed(l) \/ PlanPool(l) \/ \E e \in Epochs : BackfillSave(l, e)
      PROVE  UNCHANGED <<chainVars, slotSt>>
  BY <1>3 DEF Seed, PlanPool, BackfillSave
<1>4. ASSUME NEW l \in Listings, SkipJob(l) \/ SeeRollover(l) \/ StartCompute(l)
      PROVE  UNCHANGED <<chainVars, slotSt>>
  BY <1>4 DEF SkipJob, SeeRollover, StartCompute
<1>5. ASSUME NEW l \in Listings, NEW ps, NEW status, Fail(l, ps, status)
      PROVE  UNCHANGED <<chainVars, slotSt>>
  BY <1>5 DEF Fail
<1>6. ASSUME NEW l \in Listings, NEW got \in BOOLEAN,
             \/ KeyMissing(l) \/ PoolLookupFails(l) \/ KeyStale(l)
             \/ CliFails(l, got) \/ CliAnswers(l, got)
      PROVE  UNCHANGED <<chainVars, slotSt>>
  BY <1>5, <1>6 DEF KeyMissing, PoolLookupFails, KeyStale, CliFails, CliAnswers
<1>7. ASSUME NEW l \in Listings, MarkOk(l) \/ \E s \in Slots : Classify(l, s)
      PROVE  UNCHANGED <<chainVars, slotSt>>
  BY <1>7 DEF MarkOk, Classify
<1>8. ASSUME NEW l \in Listings, StoreSlots(l) \/ SettleMatched(l)
      PROVE  UNCHANGED chainVars
  BY <1>8 DEF StoreSlots, SettleMatched
<1> QED
  BY <1>1, <1>2, <1>3, <1>4, <1>6, <1>7, <1>8 DEF SchedulerNext

\* The scheduler never makes a miss: a recompute keeps the ones there were.
LEMMA SchedulerMisses ==
    ASSUME StoreTypeOK, SchedulerTypeOK, MissesAreDeep, SchedulerNext
    PROVE  MissesAreDeep'
<1>1. UNCHANGED chainVars
  BY SchedulerSlotWrites
<1>2. CASE UNCHANGED slotSt
  BY <1>1, <1>2, MissesFrame
<1>3. ASSUME NEW l \in Listings, StoreSlots(l)
      PROVE  MissesAreDeep'
  BY <1>1, <1>3, PoolOfType, ReplaceMisses DEF StoreSlots
<1>4. ASSUME NEW l \in Listings, SettleMatched(l)
      PROVE  MissesAreDeep'
  BY <1>1, <1>4 DEF SettleMatched, MissesAreDeep, StoreTypeOK, chainVars
<1> QED
  BY <1>2, <1>3, <1>4, SchedulerSlotWrites

\* A tick takes its epoch from the tip once, and forgets it when it ends.
LEMMA SchedulerEpoch ==
    ASSUME SchedulerNext
    PROVE  sEpoch' \in {sEpoch, EpochOf[0], EpochOf[tip]}
<1> USE DEF workUnchanged, finUnchanged
<1>1. CASE SchedulerTick \/ AbortPass \/ FinScan
  BY <1>1 DEF SchedulerTick, AbortPass, FinScan
<1>2. CASE FinSave \/ (\E e \in Epochs : FinEpoch(e)) \/ (\E r \in finRows : FinCount(r))
  BY <1>2 DEF FinSave, FinEpoch, FinCount, FinGoOn
<1>3. ASSUME NEW l \in Listings,
             \/ Seed(l) \/ PlanPool(l) \/ SkipJob(l) \/ SeeRollover(l) \/ StartCompute(l)
             \/ \E e \in Epochs : BackfillSave(l, e)
      PROVE  sEpoch' = sEpoch
  BY <1>3 DEF Seed, PlanPool, BackfillSave, SkipJob, SeeRollover, StartCompute
<1>4. ASSUME NEW l \in Listings, NEW got \in BOOLEAN,
             \/ KeyMissing(l) \/ PoolLookupFails(l) \/ KeyStale(l)
             \/ CliFails(l, got) \/ CliAnswers(l, got)
      PROVE  sEpoch' = sEpoch
  BY <1>4 DEF KeyMissing, PoolLookupFails, KeyStale, CliFails, CliAnswers, Fail
<1>5. ASSUME NEW l \in Listings,
             \/ StoreSlots(l) \/ MarkOk(l) \/ SettleMatched(l)
             \/ \E s \in Slots : Classify(l, s)
      PROVE  sEpoch' = sEpoch
  BY <1>5 DEF StoreSlots, MarkOk, SettleMatched, Classify
<1> QED
  BY <1>1, <1>2, <1>3, <1>4, <1>5 DEF SchedulerNext

\* ------------------------------------------------------------- the reconciler

\* A reconciler back at its ticker has its types.
LEMMA EndTickTypes ==
    ASSUME EndTick
    PROVE  ReconcilerTypeOK'
<1>1. EpochOf[0] \in Epochs /\ 0 \in 0..NSlots
  BY EpochOfType, SlotsAssumption
<1> QED
  BY <1>1 DEF EndTick, ReconcilerTypeOK

\* AfterBlock yields the listing, the next page of it, or nothing.
LEMMA AfterBlockType ==
    ASSUME NEW g \in Listing
    PROVE  AfterBlock(g) \subseteq Listing
<1>1. [g EXCEPT !.page = g.page + 1] \in Listing
  <2>1. g.page + 1 \in Nat
    BY DEF Listing
  <2> QED
    BY <2>1 DEF Listing
<1> QED
  BY <1>1 DEF AfterBlock

\* The fields of a page of blocks.
LEMMA ListingFields ==
    ASSUME NEW g \in Listing
    PROVE  g.pool \in Pools /\ g.epoch \in Epochs /\ g.hashes \subseteq Slots
  BY DEF Listing

\* A page with a block taken off it is a page (ingestPoolBlocks).
LEMMA DropHash ==
    ASSUME NEW g \in Listing, NEW s
    PROVE  /\ [g EXCEPT !.hashes = @ \ {s}] \in Listing
           /\ [g EXCEPT !.hashes = @ \ {s}, !.new = TRUE] \in Listing
  BY DEF Listing

\* -------------------------------------------------------------- the type step

\* The start and the abandoned end of a reconciler tick keep the types (reconcileTick).
LEMMA TickStepTypes ==
    ASSUME StoreTypeOK, ReconcilerTypeOK, ReconcileTick \/ QuitTick
    PROVE  StoreTypeOK' /\ ReconcilerTypeOK'
<1>1. CASE ReconcileTick
  <2>1. EpochOf[tip] \in Epochs
    BY EpochOfType DEF StoreTypeOK
  <2>2. Pools \X NeedsReconcile(EpochOf[tip]) \subseteq Pools \X Epochs
    BY <2>1, NeedsReconcileEpochs
  <2>3. StoreTypeOK'
    BY <1>1, StoreFrame DEF ReconcileTick
  <2> QED
    BY <1>1, <2>1, <2>2, <2>3 DEF ReconcileTick, ReconcilerTypeOK, StoreTypeOK
<1>2. CASE QuitTick
  BY <1>2, EndTickTypes DEF QuitTick, StoreTypeOK, chainVars
<1> QED
  BY <1>1, <1>2

\* Asking for a page, answered or not, keeps the types (ingestPoolBlocks).
LEMMA ListTypes ==
    ASSUME StoreTypeOK, ReconcilerTypeOK, NEW p \in Pools, NEW e \in Epochs, NEW n \in 1..NSlots,
           ListFails(p, e, n) \/ ListPage(p, e, n)
    PROVE  StoreTypeOK' /\ ReconcilerTypeOK'
<1>1. StoreTypeOK'
  BY DEF ListFails, ListPage, ingestUnchanged, StoreTypeOK, chainVars
<1>2. CASE ListFails(p, e, n)
  BY <1>1, <1>2 DEF ListFails, ingestUnchanged, ReconcilerTypeOK, tickVars, estVars
<1>3. CASE ListPage(p, e, n)
  <2> DEFINE page == Page(p, e, n)
             g == [pool |-> p, epoch |-> e, page |-> n,
                   full |-> Cardinality(page) = PageSize, new |-> FALSE,
                   hashes |-> { s \in page : obs[p][s] = "none" }]
  <2>1. page \subseteq Slots
    BY DEF Page, MintedBy, SlotsOf
  <2>2. n \in Nat /\ (Cardinality(page) = PageSize) \in BOOLEAN
    BY SlotsAssumption
  <2> HIDE DEF page
  <2>3. g \in Listing
    BY <2>1, <2>2 DEF Listing
  <2>4. listing' = AfterBlock(g)
    BY <1>3, Zenon DEF ListPage, page
  <2>5. listing' \subseteq Listing
    BY <2>3, <2>4, AfterBlockType, Zenon
  <2> QED
    BY <1>1, <1>3, <2>5 DEF ListPage, ingestUnchanged, ReconcilerTypeOK, tickVars, estVars
<1> QED
  BY <1>2, <1>3

\* Fetching a listed block, or failing to, keeps the types (ingestBlock).
LEMMA BlockTypes ==
    ASSUME StoreTypeOK, ReconcilerTypeOK, NEW g \in listing, NEW s \in g.hashes,
           BlockFails(g, s) \/ FetchBlock(g, s)
    PROVE  StoreTypeOK' /\ ReconcilerTypeOK'
<1>1. StoreTypeOK'
  BY DEF BlockFails, FetchBlock, ingestUnchanged, StoreTypeOK, chainVars
<1>2. g \in Listing
  BY DEF ReconcilerTypeOK
<1>3. CASE BlockFails(g, s)
  <2>1. listing' \subseteq Listing
    BY <1>2, <1>3, DropHash, AfterBlockType DEF BlockFails
  <2> QED
    BY <1>1, <1>3, <2>1 DEF BlockFails, ingestUnchanged, ReconcilerTypeOK, tickVars, estVars
<1>4. CASE FetchBlock(g, s)
  <2>1. [pool |-> g.pool, slot |-> s, verdict |-> "null"] \in Hand
    BY <1>2, ListingFields DEF Hand, ObsState
  <2> QED
    BY <1>1, <1>4, <2>1 DEF FetchBlock, ingestUnchanged, ReconcilerTypeOK, tickVars, estVars
<1> QED
  BY <1>3, <1>4

\* Looking a block's slot up and marking it produced keep the types (ingestBlock).
LEMMA HandTypes ==
    ASSUME StoreTypeOK, ReconcilerTypeOK, NEW h \in hand, FindSlot(h) \/ MarkProduced(h)
    PROVE  StoreTypeOK' /\ ReconcilerTypeOK'
<1>1. h \in Hand /\ h.pool \in Pools /\ h.slot \in Slots
  BY DEF ReconcilerTypeOK, Hand
<1>2. CASE FindSlot(h)
  <2>1. \A v \in {"yes", "no"} : [h EXCEPT !.verdict = v] \in Hand
    BY <1>1 DEF Hand, ObsState
  <2>2. hand' \subseteq Hand
    BY <1>2, <2>1 DEF FindSlot
  <2>3. held' \subseteq Pools \X Slots
    BY <1>1, <1>2 DEF FindSlot
  <2> QED
    BY <1>2, <2>2, <2>3 DEF FindSlot, ingestUnchanged, StoreTypeOK, ReconcilerTypeOK,
       chainVars, tickVars, estVars
<1>3. CASE MarkProduced(h)
  <2>1. slotSt' \in [Pools -> [Slots -> SlotState]]
    BY <1>1, <1>3, SaveSlotTypes DEF MarkProduced, SlotState
  <2> QED
    BY <1>3, <2>1 DEF MarkProduced, StoreTypeOK, ReconcilerTypeOK, chainVars, tickVars, estVars
<1> QED
  BY <1>2, <1>3

\* Saving the observed block keeps the types (ingestBlock).
LEMMA RecordTypes ==
    ASSUME StoreTypeOK, ReconcilerTypeOK, NEW g \in listing, NEW h \in hand, RecordBlock(g, h)
    PROVE  StoreTypeOK' /\ ReconcilerTypeOK'
<1>1. h.pool \in Pools /\ h.slot \in Slots /\ h.verdict \in ObsState /\ g \in Listing
  BY DEF ReconcilerTypeOK, Hand
<1>2. obs' \in [Pools -> [Slots -> ObsState]]
  BY <1>1, SaveBlockTypes DEF RecordBlock
<1>3. listing' \subseteq Listing
  BY <1>1, DropHash, AfterBlockType DEF RecordBlock
<1> QED
  BY <1>2, <1>3 DEF RecordBlock, StoreTypeOK, ReconcilerTypeOK, chainVars, tickVars, estVars

\* Reading a row and writing it back keep the types (ensureRewardEstimates).
LEMMA EstimateTypes ==
    ASSUME StoreTypeOK, ReconcilerTypeOK,
           (\E p \in Pools, got \in SUBSET Fillable : EstimateRead(p, got)) \/ (\E x \in estHand : EstimateSave(x))
    PROVE  StoreTypeOK' /\ ReconcilerTypeOK'
<1>1. ASSUME NEW p \in Pools, NEW got \in SUBSET Fillable, EstimateRead(p, got)
      PROVE  StoreTypeOK' /\ ReconcilerTypeOK'
  <2>1. StoreTypeOK'
    BY <1>1, StoreFrame DEF EstimateRead
  <2>2. row[p][rEpoch] \in Row
    BY DEF StoreTypeOK, ReconcilerTypeOK
  <2>3. [row[p][rEpoch] EXCEPT !.est = @ \cup got] \in Row
    BY <2>2 DEF Row
  <2>4. estHand' \subseteq [pool : Pools, ps : Row]
    <3> DEFINE filled == [row[p][rEpoch] EXCEPT !.est = @ \cup got]
    <3>1. [pool |-> p, ps |-> filled] \in [pool : Pools, ps : Row]
      BY <2>3
    <3>2. estHand' = {[pool |-> p, ps |-> filled]} \/ estHand' = estHand
      BY <1>1 DEF EstimateRead
    <3> HIDE DEF filled
    <3> QED
      BY <3>1, <3>2 DEF ReconcilerTypeOK
  <2> QED
    BY <1>1, <2>1, <2>4 DEF EstimateRead, ReconcilerTypeOK, tickVars
<1>2. ASSUME NEW x \in estHand, EstimateSave(x)
      PROVE  StoreTypeOK' /\ ReconcilerTypeOK'
  <2>1. x.pool \in Pools /\ x.ps \in Row /\ rEpoch \in Epochs
    BY DEF ReconcilerTypeOK
  <2>2. row' \in [Pools -> [Epochs -> Row]]
    BY <1>2, <2>1, SaveRowTypes DEF EstimateSave
  <2> QED
    BY <1>2, <2>2 DEF EstimateSave, StoreTypeOK, ReconcilerTypeOK, chainVars, tickVars
<1> QED
  BY <1>1, <1>2

\* Listing the due slots, or giving the tick up, keeps the types (settlePendingSlots).
LEMMA SettleStartTypes ==
    ASSUME StoreTypeOK, ReconcilerTypeOK, LatestFails \/ SettleStart
    PROVE  StoreTypeOK' /\ ReconcilerTypeOK'
<1>1. CASE LatestFails
  BY <1>1, EndTickTypes, StoreFrame DEF LatestFails
<1>2. CASE SettleStart
  <2>1. held' \subseteq Pools \X Slots
    BY <1>2 DEF SettleStart, StoreTypeOK
  <2>2. StoreTypeOK'
    BY <1>2, <2>1 DEF SettleStart, StoreTypeOK, chainVars
  <2> QED
    BY <1>2, <2>2, EndTickTypes DEF SettleStart, ReconcilerTypeOK, tickVars, estVars
<1> QED
  BY <1>1, <1>2

\* Settling one due slot, or failing to, keeps the types (settlePendingSlots).
LEMMA SettleTypes ==
    ASSUME StoreTypeOK, ReconcilerTypeOK, NEW k \in due, LookupFails(k) \/ SettleSlot(k)
    PROVE  StoreTypeOK' /\ ReconcilerTypeOK'
<1>1. k[1] \in Pools /\ k[2] \in Slots
  BY DEF ReconcilerTypeOK
<1>2. SlotDone(k)
  BY DEF LookupFails, SettleSlot
<1>3. ReconcilerTypeOK'
  BY <1>2, EndTickTypes DEF SlotDone, ReconcilerTypeOK, tickVars, estVars
<1>4. held' \subseteq Pools \X Slots
  BY <1>2 DEF SlotDone, StoreTypeOK
<1>5. slotSt' \in [Pools -> [Slots -> SlotState]]
  <2>1. CASE LookupFails(k)
    BY <2>1 DEF LookupFails, StoreTypeOK
  <2>2. CASE SettleSlot(k)
    BY <1>1, <2>2, SaveSlotTypes DEF SettleSlot, SlotState
  <2> QED
    BY <2>1, <2>2
<1> QED
  BY <1>3, <1>4, <1>5 DEF LookupFails, SettleSlot, StoreTypeOK, chainVars

\* Every step of the reconciler keeps the store and the loop well typed.
THEOREM ReconcilerTypes ==
    ASSUME StoreTypeOK, ReconcilerTypeOK, ReconcilerNext
    PROVE  StoreTypeOK' /\ ReconcilerTypeOK'
<1>1. ASSUME NEW p \in Pools, NEW e \in Epochs, NEW n \in 1..NSlots,
             ListFails(p, e, n) \/ ListPage(p, e, n)
      PROVE  StoreTypeOK' /\ ReconcilerTypeOK'
  BY <1>1, ListTypes
<1>2. ASSUME NEW g \in listing, NEW s \in g.hashes, BlockFails(g, s) \/ FetchBlock(g, s)
      PROVE  StoreTypeOK' /\ ReconcilerTypeOK'
  BY <1>2, BlockTypes
<1>3. ASSUME NEW h \in hand, FindSlot(h) \/ MarkProduced(h)
      PROVE  StoreTypeOK' /\ ReconcilerTypeOK'
  BY <1>3, HandTypes
<1>4. ASSUME NEW g \in listing, NEW h \in hand, RecordBlock(g, h)
      PROVE  StoreTypeOK' /\ ReconcilerTypeOK'
  BY <1>4, RecordTypes
<1>5. CASE (\E p \in Pools, got \in SUBSET Fillable : EstimateRead(p, got)) \/ (\E x \in estHand : EstimateSave(x))
  BY <1>5, EstimateTypes
<1>6. ASSUME NEW k \in due, LookupFails(k) \/ SettleSlot(k)
      PROVE  StoreTypeOK' /\ ReconcilerTypeOK'
  BY <1>6, SettleTypes
<1> QED
  BY <1>1, <1>2, <1>3, <1>4, <1>5, <1>6, TickStepTypes, SettleStartTypes DEF ReconcilerNext

\* -------------------------------------------------------------- the miss step

\* Every slot the loop is about to look up is deeper than the margin in the
\* indexer's view, so the indexer knows what the slot holds.
DueIsDeep == \A k \in due : k[2] + SettleMargin < bfTip

\* A due slot stays deep while the list only shrinks and the indexer only advances.
LEMMA DueFrame ==
    ASSUME StoreTypeOK, ReconcilerTypeOK, DueIsDeep, due' \subseteq due,
           bfTip' \in 0..NSlots, bfTip' >= bfTip
    PROVE  DueIsDeep'
  BY MarginAssumption DEF DueIsDeep, ReconcilerTypeOK, StoreTypeOK, Slots

\* A slot read as not ours behind the indexer's tip is not ours on the chain:
\* this is the one write of a miss.
LEMMA SettleMisses ==
    ASSUME StoreTypeOK, ReconcilerTypeOK, MissesAreDeep, DueIsDeep, NEW k \in due, SettleSlot(k)
    PROVE  MissesAreDeep'
<1> DEFINE v == IF ShowsOurs(k[1], k[2]) THEN "produced" ELSE "missed"
<1>1. k[1] \in Pools /\ k[2] \in Slots /\ v \in SlotState
  BY DEF ReconcilerTypeOK, SlotState
<1>2. k[2] + SettleMargin < tip /\ k[2] <= bfTip
  BY <1>1, MarginAssumption, SlotsAssumption DEF DueIsDeep, MissesAreDeep, StoreTypeOK, Slots
<1>3. v = "missed" => chain[k[2]] # k[1]
  BY <1>2 DEF ShowsOurs
<1>4. SaveSlot(k[1], k[2], v) /\ UNCHANGED chainVars
  BY DEF SettleSlot
<1> QED
  BY <1>1, <1>2, <1>3, <1>4, SaveMisses

\* No step of the reconciler records a miss that is shallow or false.
LEMMA ReconcilerMisses ==
    ASSUME StoreTypeOK, ReconcilerTypeOK, MissesAreDeep, DueIsDeep, ReconcilerNext
    PROVE  MissesAreDeep' /\ DueIsDeep'
<1> USE DEF chainVars, storeVars
<1>1. UNCHANGED bfTip => \A d : d \subseteq due /\ due' = d => DueIsDeep'
  BY DEF DueIsDeep
<1>2. CASE ReconcileTick \/ QuitTick \/ LatestFails
  BY <1>1, <1>2, MissesFrame DEF ReconcileTick, QuitTick, LatestFails, EndTick
<1>3. CASE SettleStart
  <2>1. MissesAreDeep'
    BY <1>3, MissesFrame DEF SettleStart
  <2>2. DueIsDeep'
    BY <1>3 DEF SettleStart, EndTick, Settleable, DueIsDeep
  <2> QED
    BY <2>1, <2>2
<1>4. ASSUME NEW p \in Pools, NEW e \in Epochs, NEW n \in 1..NSlots,
             ListFails(p, e, n) \/ ListPage(p, e, n)
      PROVE  MissesAreDeep' /\ DueIsDeep'
  BY <1>1, <1>4, MissesFrame DEF ListFails, ListPage, ingestUnchanged
<1>5. ASSUME NEW g \in listing, NEW s \in g.hashes, BlockFails(g, s) \/ FetchBlock(g, s)
      PROVE  MissesAreDeep' /\ DueIsDeep'
  BY <1>1, <1>5, MissesFrame DEF BlockFails, FetchBlock, ingestUnchanged
<1>6. ASSUME NEW h \in hand, FindSlot(h)
      PROVE  MissesAreDeep' /\ DueIsDeep'
  BY <1>1, <1>6, MissesFrame DEF FindSlot, ingestUnchanged
<1>7. ASSUME NEW h \in hand, MarkProduced(h)
      PROVE  MissesAreDeep' /\ DueIsDeep'
  <2>1. h.pool \in Pools /\ h.slot \in Slots /\ "produced" \in SlotState
    BY DEF ReconcilerTypeOK, Hand, SlotState
  <2>2. MissesAreDeep'
    BY <1>7, <2>1, SaveMisses DEF MarkProduced
  <2> QED
    BY <1>1, <1>7, <2>2 DEF MarkProduced
<1>8. ASSUME NEW g \in listing, NEW h \in hand, RecordBlock(g, h)
      PROVE  MissesAreDeep' /\ DueIsDeep'
  BY <1>1, <1>8, MissesFrame DEF RecordBlock
<1>9. CASE (\E p \in Pools, got \in SUBSET Fillable : EstimateRead(p, got)) \/ (\E x \in estHand : EstimateSave(x))
  BY <1>1, <1>9, MissesFrame DEF EstimateRead, EstimateSave
<1>10. ASSUME NEW k \in due, LookupFails(k)
       PROVE  MissesAreDeep' /\ DueIsDeep'
  BY <1>1, <1>10, MissesFrame DEF LookupFails, SlotDone, EndTick
<1>11. ASSUME NEW k \in due, SettleSlot(k)
       PROVE  MissesAreDeep' /\ DueIsDeep'
  BY <1>1, <1>11, SettleMisses DEF SettleSlot, SlotDone, EndTick
<1> QED
  BY <1>2, <1>3, <1>4, <1>5, <1>6, <1>7, <1>8, <1>9, <1>10, <1>11 DEF ReconcilerNext

\* The reconciler only reads the chain, and writes no summary.
LEMMA ReconcilerReadsChain ==
    ASSUME ReconcilerNext
    PROVE  UNCHANGED <<chainVars, summ, ctxDone>>
<1> USE DEF storeVars, chainVars, ingestUnchanged
<1>1. CASE ReconcileTick \/ QuitTick \/ LatestFails \/ SettleStart
  BY <1>1 DEF ReconcileTick, QuitTick, LatestFails, SettleStart
<1>2. CASE \E p \in Pools, e \in Epochs, n \in 1..NSlots : ListFails(p, e, n) \/ ListPage(p, e, n)
  BY <1>2 DEF ListFails, ListPage
<1>3. CASE \E g \in listing : \E s \in g.hashes : BlockFails(g, s) \/ FetchBlock(g, s)
  BY <1>3 DEF BlockFails, FetchBlock
<1>4. CASE \/ \E h \in hand : FindSlot(h) \/ MarkProduced(h)
           \/ \E g \in listing, h \in hand : RecordBlock(g, h)
  BY <1>4 DEF FindSlot, MarkProduced, RecordBlock
<1>5. CASE (\E p \in Pools, got \in SUBSET Fillable : EstimateRead(p, got)) \/ (\E x \in estHand : EstimateSave(x))
  BY <1>5 DEF EstimateRead, EstimateSave
<1>6. CASE \E k \in due : LookupFails(k) \/ SettleSlot(k)
  BY <1>6 DEF LookupFails, SettleSlot
<1> QED
  BY <1>1, <1>2, <1>3, <1>4, <1>5, <1>6 DEF ReconcilerNext
=============================================================================
