------------------------ MODULE LeaderLedger_proofs ------------------------
(***************************************************************************)
(* What the daemon's tables say of the schedules and of the chain, for     *)
(* every instance in which a pool that leads in an epoch leads in every    *)
(* later one: an ok row has its whole schedule, and, on a chain without    *)
(* switches, the slot table is the ledger of SlotLedger and a finalized    *)
(* summary is true.                                                        *)
(***************************************************************************)
EXTENDS LeaderLog_proofs

\* The hypothesis: a pool that leads a slot of an epoch leads one of every later
\* epoch.  The finding empty_schedule shows what happens otherwise: the window
\* check compares the slots of an answer, and an answer for a later epoch with
\* no slot in it passes as the schedule of this one.
LeadsOnward ==
    \A p \in Pools, e \in Epochs, f \in Epochs :
        e < f /\ Leader[p] \cap SlotsOf(e) # {} => Leader[p] \cap SlotsOf(f) # {}

\* ------------------------------------------------------------- whole schedules

\* Every slot that the pool leads in the epoch has its row.
Whole(p, e) == \A s \in Leader[p] : EpochOf[s] = e => Scheduled(p, s)

\* No slot of the epoch has a row.
Absent(p, e) == \A s \in Slots : EpochOf[s] = e => ~Scheduled(p, s)

\* The slot table holds only slots the pool leads, and an epoch's all together.
SlotsAreLed ==
    /\ \A p \in Pools, s \in Slots : Scheduled(p, s) => s \in Leader[p]
    /\ \A p \in Pools, e \in Epochs : Whole(p, e) \/ Absent(p, e)

\* A row marked ok, in the table or in a copy a loop holds, has its schedule.
RowsAreWhole ==
    \A p \in Pools, e \in Epochs : row[p][e].status = "ok" => Whole(p, e)
FinRowsAreWhole ==
    \A r \in finRows : r.ps.status = "ok" => Whole(r.pool, r.epoch)
EstimatesAreWhole ==
    \A x \in estHand : rPc = "estSave" /\ (x.ps.status = "ok" => Whole(x.pool, rEpoch))

\* What a worker's job has reached: what it is about to store is the schedule
\* of the tick's epoch, and from then on that schedule is in the table.
JobIsWhole(l) ==
    /\ job[l].pc # "none" => sPc \in {"plan", "work"}
    /\ job[l].pc \notin {"none", "queued"} => sPc = "work"
    /\ job[l].pc \in {"queued", "verify", "store", "mark"} => job[l].ps.status # "ok"
    /\ job[l].pc = "store" => job[l].slots = Leader[PoolOf[l]] \cap SlotsOf(sEpoch)
    /\ job[l].pc \in {"mark", "classify", "settle"} => Whole(PoolOf[l], sEpoch)
    /\ job[l].pc \in {"classify", "settle"} => job[l].slots \subseteq SlotsOf(sEpoch)
    /\ job[l].pc = "settle" => job[l].hand \in Slots /\ Scheduled(PoolOf[l], job[l].hand)
JobsAreWhole == \A l \in Listings : JobIsWhole(l)

\* The reconciler's block in hand: it is looked up in a whole schedule, and
\* it is marked in a row that is there.
HandIsWhole ==
    \A h \in hand :
        /\ rPc = "find" => Whole(h.pool, EpochOf[h.slot])
        /\ rPc = "mark" => Scheduled(h.pool, h.slot)
        /\ h.verdict = "no" => h.slot \notin Leader[h.pool]
ListingIsOfEpoch == \A g \in listing : \A s \in g.hashes : EpochOf[s] = g.epoch
DueIsScheduled == \A k \in due : Scheduled(k[1], k[2])

\* The inductive invariant, in the parts the tables and the two loops keep.
TablesWhole     == SlotsAreLed /\ RowsAreWhole /\ NoFalseAnomaly
SchedulerWhole  == FinRowsAreWhole /\ JobsAreWhole
ReconcilerWhole == EstimatesAreWhole /\ HandIsWhole /\ ListingIsOfEpoch /\ DueIsScheduled
WholeInv        == TypeOK /\ EpochIsSeen /\ TablesWhole /\ SchedulerWhole /\ ReconcilerWhole

\* No step takes a row of the slot table away.
SlotsKept ==
    \A p \in Pools, s \in Slots : slotSt[p][s] # "none" => slotSt'[p][s] # "none"

\* The step leaves every slot that the pool leads in the epoch with a row.
WholeNext(p, e) == \A s \in Leader[p] : EpochOf[s] = e => slotSt'[p][s] # "none"

\* A whole schedule stays whole while no row is taken away.
LEMMA WholeKept ==
    ASSUME SlotsKept, NEW p \in Pools, NEW e, Whole(p, e)
    PROVE  WholeNext(p, e) /\ Whole(p, e)'
<1>1. Leader[p] \subseteq Slots
  BY LeaderAssumption
<1> QED
  BY <1>1 DEF SlotsKept, Whole, WholeNext, Scheduled

\* A step that does not touch the slot table keeps what it holds.
LEMMA SlotsFrame ==
    ASSUME SlotsAreLed, UNCHANGED slotSt
    PROVE  SlotsKept /\ SlotsAreLed'
  BY DEF SlotsKept, SlotsAreLed, Whole, Absent, Scheduled

\* Writing a row that is there with another status keeps the table's shape.
LEMMA SlotWrite ==
    ASSUME StoreTypeOK, SlotsAreLed, NEW p \in Pools, NEW s \in Slots, Scheduled(p, s),
           NEW v \in SlotState \ {"none"},
           slotSt' = [slotSt EXCEPT ![p][s] = v] \/ UNCHANGED slotSt
    PROVE  SlotsKept /\ SlotsAreLed'
<1>1. \A q \in Pools, t \in Slots : slotSt'[q][t] = "none" <=> slotSt[q][t] = "none"
  <2>1. CASE slotSt' = [slotSt EXCEPT ![p][s] = v]
    BY <2>1 DEF StoreTypeOK, Scheduled
  <2>2. CASE UNCHANGED slotSt
    BY <2>2
  <2> QED
    BY <2>1, <2>2
<1>2. \A q \in Pools, e \in Epochs : Whole(q, e)' <=> Whole(q, e)
  BY <1>1, LeaderAssumption DEF Whole, Scheduled
<1>3. \A q \in Pools, e \in Epochs : Absent(q, e)' <=> Absent(q, e)
  BY <1>1 DEF Absent, Scheduled
<1> QED
  BY <1>1, <1>2, <1>3 DEF SlotsKept, SlotsAreLed, Scheduled

\* A recompute that stores the pool's schedule of the epoch makes it whole and
\* takes no row away (ReplaceScheduledSlots).
LEMMA ReplaceWhole ==
    ASSUME StoreTypeOK, SlotsAreLed, NEW p \in Pools, NEW e \in Epochs,
           ReplaceScheduledSlots(p, e, Leader[p] \cap SlotsOf(e))
    PROVE  SlotsKept /\ SlotsAreLed' /\ WholeNext(p, e)
<1> USE LeaderAssumption
<1>1. \A q \in Pools, s \in Slots :
        slotSt'[q][s] = IF q # p \/ EpochOf[s] # e THEN slotSt[q][s]
                        ELSE IF s \notin Leader[p] THEN "none"
                        ELSE IF slotSt[q][s] \in {"produced", "missed"} THEN slotSt[q][s]
                        ELSE "pending"
  BY DEF ReplaceScheduledSlots, StoreTypeOK, SlotsOf
<1>2. SlotsKept
  BY <1>1 DEF SlotsKept, SlotsAreLed, Scheduled
<1>3. \A q \in Pools, s \in Slots : Scheduled(q, s)' => s \in Leader[q]
  BY <1>1 DEF SlotsAreLed, Scheduled
<1>4. WholeNext(p, e)
  BY <1>1 DEF WholeNext
<1>5. ASSUME NEW q \in Pools, NEW f \in Epochs
      PROVE  Whole(q, f)' \/ Absent(q, f)'
  <2>1. CASE q = p /\ f = e
    BY <1>4, <2>1 DEF Whole, WholeNext, Scheduled
  <2>2. CASE q # p \/ f # e
    <3>1. \A s \in Slots : EpochOf[s] = f => slotSt'[q][s] = slotSt[q][s]
      BY <1>1, <2>2
    <3> QED
      BY <3>1 DEF SlotsAreLed, Whole, Absent, Scheduled
  <2> QED
    BY <2>1, <2>2
<1> QED
  BY <1>2, <1>3, <1>4, <1>5 DEF SlotsAreLed

\* A row may be saved as ok when its schedule is whole (SavePoolSchedule).
LEMMA RowWrite ==
    ASSUME StoreTypeOK, RowsAreWhole, SlotsKept, NEW p \in Pools, NEW e \in Epochs, NEW ps,
           SavePoolSchedule(p, e, ps), ps.status = "ok" => Whole(p, e)
    PROVE  RowsAreWhole'
<1>1. \A q \in Pools, f \in Epochs : row'[q][f] = IF q = p /\ f = e THEN ps ELSE row[q][f]
  BY DEF SavePoolSchedule, StoreTypeOK
<1>2. ASSUME NEW q \in Pools, NEW f \in Epochs, row'[q][f].status = "ok"
      PROVE  Whole(q, f)'
  BY <1>1, <1>2, WholeKept DEF RowsAreWhole
<1> QED
  BY <1>2 DEF RowsAreWhole

\* Rows that are not written stay backed by their schedules.
LEMMA RowsFrame ==
    ASSUME RowsAreWhole, SlotsKept, UNCHANGED row
    PROVE  RowsAreWhole'
  BY WholeKept DEF RowsAreWhole

\* ---------------------------------------------- the scheduler and the schedules

\* The copies finalizeSummaries has still to visit stay backed by schedules.
LEMMA FinRowsFrame ==
    ASSUME SchedulerTypeOK, FinRowsAreWhole, SlotsKept, finRows' \subseteq finRows
    PROVE  FinRowsAreWhole'
<1>1. \A r \in finRows : r.pool \in Pools
  BY DEF SchedulerTypeOK, FinRow
<1> QED
  BY <1>1, WholeKept DEF FinRowsAreWhole

\* A job that a step leaves alone is as far as it was.
LEMMA JobFrame ==
    ASSUME NEW l \in Listings, JobIsWhole(l), SlotsKept,
           sPc' = sPc, sEpoch' = sEpoch, job'[l] = job[l]
    PROVE  JobIsWhole(l)'
<1>1. PoolOf[l] \in Pools
  BY PoolOfType
<1>2. job[l].pc \in {"mark", "classify", "settle"} => Whole(PoolOf[l], sEpoch)'
  BY <1>1, WholeKept DEF JobIsWhole, Whole, WholeNext, Scheduled
<1>3. job[l].pc = "settle" => Scheduled(PoolOf[l], job[l].hand)'
  BY <1>1 DEF JobIsWhole, SlotsKept, Scheduled
<1> QED
  BY <1>2, <1>3 DEF JobIsWhole, SlotsOf

\* A step that moves one job keeps the others where they were.
LEMMA JobStep ==
    ASSUME SchedulerTypeOK, JobsAreWhole, SlotsKept, NEW l \in Listings, NEW j,
           job' = [job EXCEPT ![l] = j], sPc' = sPc, sEpoch' = sEpoch,
           job'[l] = j => JobIsWhole(l)'
    PROVE  JobsAreWhole'
<1>1. job'[l] = j /\ \A m \in Listings : m # l => job'[m] = job[m]
  BY DEF SchedulerTypeOK
<1> QED
  BY <1>1, JobFrame DEF JobsAreWhole

\* With no job there is nothing to keep.
LEMMA NoJobs ==
    ASSUME \A l \in Listings : job'[l].pc = "none"
    PROVE  JobsAreWhole'
  BY DEF JobsAreWhole, JobIsWhole

\* A worker that is done leaves its job empty.
LEMMA DropJobWhole ==
    ASSUME SchedulerTypeOK, JobsAreWhole, SlotsKept, NEW l \in Listings, DropJob(l),
           sPc' = sPc, sEpoch' = sEpoch
    PROVE  JobsAreWhole'
<1>1. job'[l] = NoJob => JobIsWhole(l)'
  BY DEF JobIsWhole, NoJob
<1> QED
  BY <1>1, JobStep, Zenon DEF DropJob

\* What a scheduler step keeps of the invariant.
SchedulerKeeps == SlotsKept /\ TablesWhole' /\ SchedulerWhole'

\* A step of the loop that writes neither slots, rows nor blocks.
LEMMA TablesFrame ==
    ASSUME TablesWhole, UNCHANGED <<row, slotSt, obs>>
    PROVE  SlotsKept /\ TablesWhole'
<1>1. SlotsKept /\ SlotsAreLed'
  BY SlotsFrame DEF TablesWhole
<1>2. RowsAreWhole'
  BY <1>1, RowsFrame DEF TablesWhole
<1> QED
  BY <1>1, <1>2 DEF TablesWhole, NoFalseAnomaly

\* Starting a tick, planning and backfilling: only rows that are not ok are queued.
LEMMA PlanWhole ==
    ASSUME WholeInv,
           \/ SchedulerTick
           \/ \E l \in Listings :
                Seed(l) \/ PlanPool(l) \/ \E e \in Epochs : BackfillSave(l, e)
    PROVE  SchedulerKeeps
<1> USE DEF WholeInv, TypeOK, SchedulerWhole, SchedulerKeeps
<1>1. CASE SchedulerTick
  <2>1. SlotsKept /\ TablesWhole'
    BY <1>1, TablesFrame DEF SchedulerTick, storeVars
  <2>2. FinRowsAreWhole'
    BY <1>1, <2>1, FinRowsFrame DEF SchedulerTick, finVars
  <2>3. \A l \in Listings : job'[l].pc = "none"
    BY <1>1 DEF SchedulerTick, JobsAreWhole, JobIsWhole
  <2> QED
    BY <2>1, <2>2, <2>3, NoJobs
<1>2. ASSUME NEW l \in Listings, Seed(l) \/ \E e \in Epochs : BackfillSave(l, e)
      PROVE  SchedulerKeeps
  <2>1. UNCHANGED <<row, slotSt, obs, sPc, sEpoch, job, finRows>>
    BY <1>2 DEF Seed, BackfillSave, storeVars, finVars
  <2>2. SlotsKept /\ TablesWhole'
    BY <2>1, TablesFrame
  <2>3. FinRowsAreWhole'
    BY <2>1, <2>2, FinRowsFrame
  <2> QED
    BY <2>1, <2>2, <2>3, JobFrame DEF JobsAreWhole
<1>3. ASSUME NEW l \in Listings, PlanPool(l)
      PROVE  SchedulerKeeps
  <2> DEFINE ps == row[PoolOf[l]][sEpoch]
  <2>1. SlotsKept /\ TablesWhole'
    BY <1>3, TablesFrame DEF PlanPool, storeVars
  <2>2. FinRowsAreWhole'
    BY <1>3, <2>1, FinRowsFrame DEF PlanPool, finVars
  <2>3. \A m \in Listings : job[m].pc \in {"none", "queued"} /\
                            (job[m].pc = "queued" => job[m].ps.status # "ok")
    BY <1>3 DEF PlanPool, JobsAreWhole, JobIsWhole
  <2>4. \A m \in Listings : job'[m].pc \in {"none", "queued"} /\
                            (job'[m].pc = "queued" => job'[m].ps.status # "ok")
    <3>1. CASE job' = job
      BY <2>3, <3>1
    <3>2. CASE /\ job' = [job EXCEPT ![l] = [NoJob EXCEPT !.pc = "queued", !.ps = ps]]
               /\ ps.status = "none" \/ NeedsCompute(ps)
      <4>1. ps.status # "ok"
        BY <3>2 DEF NeedsCompute
      <4>2. \A m \in Listings : job'[m] = IF m = l THEN [NoJob EXCEPT !.pc = "queued", !.ps = ps]
                                          ELSE job[m]
        BY <3>2 DEF SchedulerTypeOK
      <4>3. [NoJob EXCEPT !.pc = "queued", !.ps = ps].pc = "queued" /\
            [NoJob EXCEPT !.pc = "queued", !.ps = ps].ps = ps
        BY DEF NoJob
      <4> HIDE DEF ps
      <4> QED
        BY <2>3, <4>1, <4>2, <4>3
    <3> QED
      BY <1>3, <3>1, <3>2 DEF PlanPool
  <2>5. \A m \in Listings : job'[m].pc # "none" => sPc' \in {"plan", "work"}
    BY <1>3, <2>4 DEF PlanPool
  <2>6. JobsAreWhole'
    BY <2>4, <2>5 DEF JobsAreWhole, JobIsWhole
  <2> QED
    BY <2>1, <2>2, <2>6
<1> QED
  BY <1>1, <1>2, <1>3

\* fail() saves a status other than ok and drops the job.
LEMMA FailWhole ==
    ASSUME WholeInv, NEW l \in Listings, NEW ps \in Row, NEW status \in Status \ {"ok"},
           Fail(l, ps, status)
    PROVE  SchedulerKeeps
<1> USE DEF WholeInv, TypeOK, SchedulerWhole, SchedulerKeeps
<1>1. SlotsKept /\ SlotsAreLed'
  BY SlotsFrame DEF Fail, TablesWhole
<1>2. FailedRow(ps, status).status # "ok"
  BY DEF FailedRow, Row
<1>3. RowsAreWhole'
  BY <1>1, <1>2, RowWrite, PoolOfType DEF Fail, TablesWhole, SchedulerTypeOK
<1>4. FinRowsAreWhole'
  BY <1>1, FinRowsFrame DEF Fail, workUnchanged, finVars
<1>5. JobsAreWhole'
  BY <1>1, DropJobWhole DEF Fail, workUnchanged
<1> QED
  BY <1>1, <1>3, <1>4, <1>5 DEF Fail, TablesWhole, NoFalseAnomaly

\* A worker that takes a job saves its row as pending, or drops the job.
LEMMA TakeWhole ==
    ASSUME WholeInv, NEW l \in Listings, SkipJob(l) \/ SeeRollover(l) \/ StartCompute(l)
    PROVE  SchedulerKeeps
<1> USE DEF WholeInv, TypeOK, SchedulerWhole, SchedulerKeeps
<1>1. UNCHANGED <<slotSt, obs, sPc, sEpoch, finRows>>
  BY DEF SkipJob, SeeRollover, StartCompute, storeVars, workUnchanged, finVars
<1>2. SlotsKept /\ SlotsAreLed'
  BY <1>1, SlotsFrame DEF TablesWhole
<1>3. FinRowsAreWhole' /\ NoFalseAnomaly'
  BY <1>1, <1>2, FinRowsFrame DEF TablesWhole, NoFalseAnomaly
<1>4. CASE DropJob(l) /\ UNCHANGED row
  <2>1. RowsAreWhole'
    BY <1>2, <1>4, RowsFrame DEF TablesWhole
  <2> QED
    BY <1>1, <1>2, <1>3, <1>4, <2>1, DropJobWhole DEF TablesWhole
<1>5. CASE StartCompute(l) /\ ~(DropJob(l) /\ UNCHANGED row)
  <2> DEFINE ps == [job[l].ps EXCEPT !.status = "pending", !.attempts = @ + 1]
             j  == [job[l] EXCEPT !.pc = "verify", !.ps = ps]
  <2>1. /\ job' = [job EXCEPT ![l] = j]
        /\ SavePoolSchedule(PoolOf[l], sEpoch, ps)
    BY <1>5 DEF StartCompute
  <2>2. ps.status = "pending" /\ j.pc = "verify" /\ j.ps = ps
    BY JobFields DEF Row, Job
  <2>3. sPc = "work"
    BY <1>5 DEF StartCompute, Takes
  <2> HIDE DEF ps, j
  <2>4. RowsAreWhole'
    BY <1>2, <2>1, <2>2, RowWrite, PoolOfType DEF TablesWhole, SchedulerTypeOK
  <2>5. job'[l] = j => JobIsWhole(l)'
    BY <1>1, <2>2, <2>3 DEF JobIsWhole
  <2>6. JobsAreWhole'
    BY <1>1, <1>2, <2>1, <2>5, JobStep
  <2> QED
    BY <1>2, <1>3, <2>4, <2>6 DEF TablesWhole
<1> QED
  BY <1>4, <1>5 DEF SkipJob, SeeRollover, storeVars

\* A run that answers for the tick's epoch has that epoch's schedule; one that
\* answers for another epoch has a slot outside of the window, and fails.
LEMMA VerifyWhole ==
    ASSUME LeadsOnward, WholeInv, NEW l \in Listings, NEW got \in BOOLEAN,
           \/ KeyMissing(l) \/ PoolLookupFails(l) \/ KeyStale(l)
           \/ CliFails(l, got) \/ CliAnswers(l, got)
    PROVE  SchedulerKeeps
<1> USE DEF WholeInv, TypeOK
<1>1. {"pending", "key_missing", "key_stale", "cli_error"} \subseteq Status \ {"ok"}
  BY DEF Status
<1>2. job[l].ps \in Row /\ [job[l].ps EXCEPT !.attempts = @ - 1] \in Row
        /\ WithEstimate(l, got) \in Row
  BY JobFields DEF Row, WithEstimate, Fillable
<1>3. CASE KeyMissing(l) \/ KeyStale(l) \/ PoolLookupFails(l) \/ CliFails(l, got)
  BY <1>1, <1>2, <1>3, FailWhole DEF KeyMissing, KeyStale, PoolLookupFails, CliFails
<1>4. CASE CliAnswers(l, got) /\ CliEntries(PoolOf[l]) \subseteq SlotsOf(sEpoch)
  <2> DEFINE entries == CliEntries(PoolOf[l])
             j == [job[l] EXCEPT !.pc = "store", !.ps = WithEstimate(l, got), !.slots = entries]
  <2>1. /\ job' = [job EXCEPT ![l] = j]
        /\ UNCHANGED <<row, slotSt, obs, sPc, sEpoch, finRows>>
    BY <1>4 DEF CliAnswers, storeVars, workUnchanged, finVars
  <2>2. EpochOf[tip] \in Epochs
    BY EpochOfType DEF StoreTypeOK
  <2>3. sEpoch \in Epochs /\ sEpoch <= EpochOf[tip] /\ Epochs \subseteq Nat
    BY EpochsAssumption DEF SchedulerTypeOK, EpochIsSeen
  <2>4. entries = Leader[PoolOf[l]] \cap SlotsOf(sEpoch)
    <3>1. CASE EpochOf[tip] = sEpoch
      BY <3>1 DEF CliEntries
    <3>2. CASE sEpoch < EpochOf[tip]
      <4>1. Leader[PoolOf[l]] \cap SlotsOf(EpochOf[tip]) = {}
        BY <1>4, <2>3, <3>2 DEF CliEntries, SlotsOf
      <4>2. Leader[PoolOf[l]] \cap SlotsOf(sEpoch) = {}
        BY <2>2, <2>3, <3>2, <4>1, PoolOfType DEF LeadsOnward
      <4> QED
        BY <4>1, <4>2 DEF CliEntries
    <3> QED
      BY <2>2, <2>3, <3>1, <3>2
  <2>5. job[l].pc = "verify" /\ sPc = "work" /\ job[l].ps.status # "ok"
    BY <1>4 DEF CliAnswers, Verified, SchedulerWhole, JobsAreWhole, JobIsWhole
  <2>6. j.pc = "store" /\ j.slots = entries /\ j.ps.status = job[l].ps.status
    BY JobFields DEF Job, WithEstimate, Row
  <2> HIDE DEF entries, j
  <2>7. SlotsKept /\ TablesWhole'
    BY <2>1, TablesFrame
  <2>8. job'[l] = j => JobIsWhole(l)'
    BY <2>1, <2>4, <2>5, <2>6 DEF JobIsWhole, SlotsOf
  <2>9. JobsAreWhole'
    BY <2>1, <2>7, <2>8, JobStep DEF SchedulerWhole
  <2> QED
    BY <2>1, <2>7, <2>9, FinRowsFrame DEF SchedulerKeeps, SchedulerWhole
<1>5. CASE CliAnswers(l, got) /\ ~(CliEntries(PoolOf[l]) \subseteq SlotsOf(sEpoch))
  BY <1>1, <1>2, <1>5, FailWhole DEF CliAnswers
<1> QED
  BY <1>3, <1>4, <1>5

\* A job that goes on with blocks of its epoch, or ends, is as far as a whole
\* schedule lets it be (rematchObserved).
LEMMA RematchWhole ==
    ASSUME NEW l \in Listings, NEW j \in Job, NEW left \in SUBSET SlotsOf(sEpoch),
           job'[l] = Rematching(j, left), WholeNext(PoolOf[l], sEpoch), sPc' = "work",
           sEpoch' = sEpoch
    PROVE  JobIsWhole(l)'
<1> USE DEF WholeNext, Whole, Scheduled
<1>1. CASE left = {}
  BY <1>1 DEF Rematching, JobIsWhole, NoJob
<1>2. CASE left # {}
  <2>1. job'[l] = [j EXCEPT !.pc = "classify", !.slots = left, !.hand = 0]
    BY <1>2 DEF Rematching
  <2>2. job'[l].pc = "classify" /\ job'[l].slots = left
    BY <2>1 DEF Job
  <2> QED
    BY <2>2 DEF JobIsWhole, SlotsOf
<1> QED
  BY <1>1, <1>2

\* Storing the schedule makes it whole; another job of the pool that was about
\* to settle a slot goes on in the same whole schedule.
LEMMA StoreSlotsWhole ==
    ASSUME WholeInv, NEW l \in Listings, StoreSlots(l)
    PROVE  SchedulerKeeps
<1> USE DEF WholeInv, TypeOK, SchedulerWhole
<1>1. job[l].slots = Leader[PoolOf[l]] \cap SlotsOf(sEpoch) /\ sPc = "work"
        /\ job[l].ps.status # "ok"
  BY DEF StoreSlots, JobsAreWhole, JobIsWhole
<1>2. SlotsKept /\ SlotsAreLed' /\ WholeNext(PoolOf[l], sEpoch)
  BY <1>1, ReplaceWhole, PoolOfType DEF StoreSlots, TablesWhole, SchedulerTypeOK
<1>3. UNCHANGED <<row, obs, sPc, sEpoch, finRows>>
  BY DEF StoreSlots, workUnchanged, finVars
<1>4. TablesWhole' /\ FinRowsAreWhole'
  BY <1>2, <1>3, RowsFrame, FinRowsFrame DEF TablesWhole, NoFalseAnomaly
<1>5. ASSUME NEW m \in Listings
      PROVE  JobIsWhole(m)'
  <2> USE DEF WholeNext, Whole, Scheduled
  <2>1. CASE m = l
    <3>1. job'[m] = [job[m] EXCEPT !.pc = "mark", !.slots = {}]
      BY <2>1 DEF StoreSlots
    <3>2. job'[m].pc = "mark" /\ job'[m].ps = job[m].ps
      BY <3>1, JobFields DEF Job
    <3> QED
      BY <1>1, <1>2, <1>3, <2>1, <3>2 DEF JobIsWhole
  <2>2. CASE /\ m # l /\ PoolOf[m] = PoolOf[l] /\ job[m].pc = "settle"
             /\ job[m].hand \in job[l].slots
    <3>1. job'[m] = Rematching(job[m], job[m].slots)
      BY <2>2 DEF StoreSlots
    <3>2. job[m] \in Job /\ job[m].slots \subseteq SlotsOf(sEpoch)
      BY <2>2 DEF JobsAreWhole, JobIsWhole, SchedulerTypeOK
    <3>3. WholeNext(PoolOf[m], sEpoch) /\ sPc' = "work" /\ sEpoch' = sEpoch
      BY <1>1, <1>2, <1>3, <2>2
    <3> QED
      BY <3>1, <3>2, <3>3, RematchWhole
  <2>3. CASE /\ m # l
             /\ ~(/\ PoolOf[m] = PoolOf[l] /\ job[m].pc = "settle"
                  /\ job[m].hand \in job[l].slots)
    <3>1. job'[m] = job[m]
      BY <2>3 DEF StoreSlots
    <3> QED
      BY <1>2, <1>3, <3>1, JobFrame DEF JobsAreWhole
  <2> QED
    BY <2>1, <2>2, <2>3
<1> QED
  BY <1>2, <1>4, <1>5 DEF SchedulerKeeps, JobsAreWhole

\* Marking the row ok, classifying a block and settling its slot all happen
\* after the whole schedule was stored.
LEMMA RematchStepWhole ==
    ASSUME WholeInv, NEW l \in Listings,
           MarkOk(l) \/ SettleMatched(l) \/ \E s \in Slots : Classify(l, s)
    PROVE  SchedulerKeeps
<1> USE DEF WholeInv, TypeOK, SchedulerWhole
<1>1. Whole(PoolOf[l], sEpoch) /\ sPc = "work" /\ PoolOf[l] \in Pools /\ sEpoch \in Epochs
  BY PoolOfType DEF MarkOk, SettleMatched, Classify, JobsAreWhole, JobIsWhole, SchedulerTypeOK
<1>2. UNCHANGED <<sPc, sEpoch, finRows>>
  BY DEF MarkOk, SettleMatched, Classify, workUnchanged, finVars
<1>3. CASE MarkOk(l)
  <2> DEFINE ps == [job[l].ps EXCEPT !.status = "ok"]
             left == Unclassified(PoolOf[l], sEpoch)
             j == [job[l] EXCEPT !.ps = ps]
  <2>1. SlotsKept /\ SlotsAreLed'
    BY <1>3, SlotsFrame DEF MarkOk, TablesWhole
  <2>2. RowsAreWhole'
    BY <1>1, <1>3, <2>1, RowWrite DEF MarkOk, TablesWhole
  <2>3. j \in Job
    BY RowUpdates, JobFields DEF Job, Status
  <2>4. left \in SUBSET SlotsOf(sEpoch) /\ job' = [job EXCEPT ![l] = Rematching(j, left)]
    BY <1>3 DEF MarkOk, Unclassified
  <2>5. WholeNext(PoolOf[l], sEpoch)
    BY <1>1, <2>1, WholeKept
  <2> HIDE DEF j, left
  <2>6. JobsAreWhole'
    <3>1. job'[l] = Rematching(j, left) => JobIsWhole(l)'
      BY <1>1, <1>2, <2>3, <2>4, <2>5, RematchWhole
    <3> QED
      BY <1>2, <2>1, <2>4, <3>1, JobStep
  <2> QED
    BY <1>2, <1>3, <2>1, <2>2, <2>6, FinRowsFrame DEF MarkOk, TablesWhole, NoFalseAnomaly, SchedulerKeeps
<1>4. CASE SettleMatched(l)
  <2>1. job[l].hand \in Slots /\ Scheduled(PoolOf[l], job[l].hand)
          /\ job[l].slots \in SUBSET SlotsOf(sEpoch)
    BY <1>4 DEF SettleMatched, JobsAreWhole, JobIsWhole
  <2>2. SlotsKept /\ SlotsAreLed'
    <3>1. "produced" \in SlotState \ {"none"}
      BY DEF SlotState
    <3>2. slotSt' = [slotSt EXCEPT ![PoolOf[l]][job[l].hand] = "produced"]
      BY <1>4 DEF SettleMatched
    <3> QED
      BY <1>1, <2>1, <3>1, <3>2, SlotWrite DEF TablesWhole
  <2>3. RowsAreWhole'
    BY <1>4, <2>2, RowsFrame DEF SettleMatched, TablesWhole
  <2>4. JobsAreWhole'
    <3>1. job' = [job EXCEPT ![l] = Rematching(job[l], job[l].slots)]
      BY <1>4 DEF SettleMatched
    <3>2. WholeNext(PoolOf[l], sEpoch)
      BY <1>1, <2>2, WholeKept
    <3>3. job'[l] = Rematching(job[l], job[l].slots) => JobIsWhole(l)'
      BY <1>1, <1>2, <2>1, <3>2, RematchWhole, JobFields
    <3> QED
      BY <1>2, <2>2, <3>1, <3>3, JobStep
  <2> QED
    BY <1>2, <1>4, <2>2, <2>3, <2>4, FinRowsFrame
       DEF SettleMatched, TablesWhole, NoFalseAnomaly, SchedulerKeeps
<1>5. ASSUME NEW s \in Slots, Classify(l, s)
      PROVE  SchedulerKeeps
  <2> DEFINE p == PoolOf[l]
             left == job[l].slots \ {s}
  <2>1. job[l].slots \subseteq SlotsOf(sEpoch) /\ EpochOf[s] = sEpoch
    BY <1>5 DEF Classify, JobsAreWhole, JobIsWhole, SlotsOf
  <2>2. SlotsKept /\ SlotsAreLed'
    BY <1>5, SlotsFrame DEF Classify, TablesWhole
  <2>3. RowsAreWhole'
    BY <1>5, <2>2, RowsFrame DEF Classify, TablesWhole
  <2>4. NoFalseAnomaly'
    <3>1. ~Scheduled(p, s) => s \notin Leader[p]
      BY <1>1, <2>1 DEF Whole
    <3>2. \A q \in Pools, t \in Slots :
            obs'[q][t] = IF q = p /\ t = s THEN (IF Scheduled(p, s) THEN "yes" ELSE "no")
                         ELSE obs[q][t]
      BY <1>1, <1>5 DEF Classify, SaveObservedBlock, StoreTypeOK
    <3> QED
      BY <3>1, <3>2 DEF TablesWhole, NoFalseAnomaly
  <2>5. WholeNext(PoolOf[l], sEpoch)
    BY <1>1, <2>2, WholeKept
  <2>6. JobsAreWhole'
    <3>1. CASE slotSt[p][s] = "pending"
      <4> DEFINE j == [job[l] EXCEPT !.pc = "settle", !.slots = left, !.hand = s]
      <4>1. job' = [job EXCEPT ![l] = j] /\ slotSt' = slotSt
        BY <1>5, <3>1 DEF Classify
      <4>2. j.pc = "settle" /\ j.slots = left /\ j.hand = s
        BY JobFields DEF Job
      <4> HIDE DEF j
      <4>3. Scheduled(p, s)'
        BY <3>1, <4>1 DEF Scheduled
      <4>4. job'[l] = j => JobIsWhole(l)'
        BY <1>1, <1>2, <2>1, <2>5, <4>2, <4>3 DEF JobIsWhole, SlotsOf, Whole, WholeNext, Scheduled
      <4> QED
        BY <1>2, <2>2, <4>1, <4>4, JobStep
    <3>2. CASE slotSt[p][s] # "pending"
      <4>1. job' = [job EXCEPT ![l] = Rematching(job[l], left)]
        BY <1>5, <3>2 DEF Classify
      <4>2. left \in SUBSET SlotsOf(sEpoch)
        BY <2>1
      <4>3. job'[l] = Rematching(job[l], left) => JobIsWhole(l)'
        BY <1>1, <1>2, <2>5, <4>2, RematchWhole, JobFields
      <4> QED
        BY <1>2, <2>2, <4>1, <4>3, JobStep
    <3> QED
      BY <3>1, <3>2
  <2> QED
    BY <1>2, <2>2, <2>3, <2>4, <2>6, FinRowsFrame DEF TablesWhole, SchedulerKeeps
<1> QED
  BY <1>3, <1>4, <1>5

\* The end of a pass and the summaries: no job is left, and the only row
\* written is one that expires.
LEMMA FinWhole ==
    ASSUME WholeInv,
           \/ AbortPass \/ FinScan \/ FinSave
           \/ \E e \in Epochs : FinEpoch(e)
           \/ \E r \in finRows : FinCount(r)
    PROVE  SchedulerKeeps
<1> USE DEF WholeInv, TypeOK, SchedulerWhole
<1>1. \A l \in Listings : job[l].pc = "none"
  BY DEF AbortPass, FinScan, FinSave, FinEpoch, FinCount, WorkersDone, JobsAreWhole, JobIsWhole
<1>2. UNCHANGED <<slotSt, obs, job>>
  BY DEF AbortPass, FinScan, FinSave, FinEpoch, FinCount, finUnchanged, storeVars
<1>3. JobsAreWhole'
  BY <1>1, <1>2, NoJobs
<1>4. SlotsKept /\ SlotsAreLed' /\ NoFalseAnomaly'
  BY <1>2, SlotsFrame DEF TablesWhole, NoFalseAnomaly
<1>5. RowsAreWhole'
  <2>1. CASE UNCHANGED row
    BY <1>4, <2>1, RowsFrame DEF TablesWhole
  <2>2. ASSUME NEW r \in finRows, FinCount(r), ~UNCHANGED row
        PROVE  RowsAreWhole'
    <3> DEFINE ps == [r.ps EXCEPT !.status = "expired"]
    <3>1. r.pool \in Pools /\ r.epoch \in Epochs /\ r.ps \in Row
      BY DEF SchedulerTypeOK, FinRow
    <3>2. SavePoolSchedule(r.pool, r.epoch, ps)
      BY <2>2 DEF FinCount
    <3>3. ps.status # "ok"
      BY <3>1 DEF Row
    <3> HIDE DEF ps
    <3> QED
      BY <1>4, <3>1, <3>2, <3>3, RowWrite DEF TablesWhole
  <2> QED
    BY <2>1, <2>2 DEF AbortPass, FinScan, FinSave, FinEpoch, storeVars
<1>6. FinRowsAreWhole'
  <2>1. CASE finRows' \subseteq finRows
    BY <1>4, <2>1, FinRowsFrame
  <2>2. ASSUME NEW e \in Epochs, FinEpoch(e)
        PROVE  FinRowsAreWhole'
    <3>1. \A r \in finRows' : /\ r.pool \in Pools /\ r.epoch = e
                              /\ r.ps = row[r.pool][e]
      BY <2>2 DEF FinEpoch
    <3>2. \A p \in Pools : row[p][e].status = "ok" => Whole(p, e)'
      BY <1>4, WholeKept DEF TablesWhole, RowsAreWhole
    <3> QED
      BY <3>1, <3>2 DEF FinRowsAreWhole
  <2> QED
    BY <2>1, <2>2 DEF AbortPass, FinScan, FinSave, FinCount, finVars
<1> QED
  BY <1>3, <1>4, <1>5, <1>6 DEF TablesWhole, SchedulerKeeps

\* No step of the scheduler takes a slot row away, marks a schedule ok that is
\* not whole, or raises a false anomaly.
LEMMA SchedulerStepWhole ==
    ASSUME LeadsOnward, WholeInv, SchedulerNext
    PROVE  SchedulerKeeps
<1>1. CASE SchedulerTick \/ (\E l \in Listings : Seed(l) \/ PlanPool(l) \/
                                 \E e \in Epochs : BackfillSave(l, e))
  BY <1>1, PlanWhole
<1>2. CASE \E l \in Listings : SkipJob(l) \/ SeeRollover(l) \/ StartCompute(l)
  BY <1>2, TakeWhole
<1>3. ASSUME NEW l \in Listings, NEW got \in BOOLEAN,
             \/ KeyMissing(l) \/ PoolLookupFails(l) \/ KeyStale(l)
             \/ CliFails(l, got) \/ CliAnswers(l, got)
      PROVE  SchedulerKeeps
  BY <1>3, VerifyWhole
<1>4. CASE \E l \in Listings : \/ StoreSlots(l) \/ MarkOk(l) \/ SettleMatched(l)
                               \/ \E s \in Slots : Classify(l, s)
  BY <1>4, StoreSlotsWhole, RematchStepWhole
<1>5. CASE AbortPass \/ FinScan \/ FinSave \/ (\E e \in Epochs : FinEpoch(e))
             \/ (\E r \in finRows : FinCount(r))
  BY <1>5, FinWhole
<1> QED
  BY <1>1, <1>2, <1>3, <1>4, <1>5 DEF SchedulerNext

\* --------------------------------------------- the reconciler and the schedules

\* What a reconciler step keeps of the invariant.
ReconcilerKeeps == SlotsKept /\ TablesWhole' /\ ReconcilerWhole'

\* Each part of what the reconciler holds stays true while no row goes away and
\* the loop does not change it, or drops some of it.
LEMMA EstimatesFrame ==
    ASSUME ReconcilerTypeOK, EstimatesAreWhole, SlotsKept,
           estHand' \subseteq estHand,
           rPc # "estSave" \/ (rPc' = rPc /\ rEpoch' = rEpoch)
    PROVE  EstimatesAreWhole'
<1>1. \A x \in estHand : x.pool \in Pools
  BY DEF ReconcilerTypeOK
<1>2. \A x \in estHand' : rPc' = "estSave" /\ rEpoch' = rEpoch
  BY DEF EstimatesAreWhole
<1>3. ASSUME NEW x \in estHand', x.ps.status = "ok"
      PROVE  Whole(x.pool, rEpoch)'
  <2>1. Whole(x.pool, rEpoch) /\ rEpoch' = rEpoch /\ x.pool \in Pools
    BY <1>1, <1>2, <1>3 DEF EstimatesAreWhole
  <2>2. WholeNext(x.pool, rEpoch)
    BY <2>1, WholeKept
  <2> QED
    BY <2>1, <2>2 DEF WholeNext, Whole, Scheduled
<1> QED
  BY <1>2, <1>3 DEF EstimatesAreWhole

\* The block in hand keeps its verdict and its reasons.
LEMMA HandFrame ==
    ASSUME ReconcilerTypeOK, HandIsWhole, SlotsKept, hand' \subseteq hand, rPc' = rPc
    PROVE  HandIsWhole'
<1>1. ASSUME NEW h \in hand'
      PROVE  /\ rPc' = "find" => Whole(h.pool, EpochOf[h.slot])'
             /\ rPc' = "mark" => Scheduled(h.pool, h.slot)'
             /\ h.verdict = "no" => h.slot \notin Leader[h.pool]
  <2>1. h \in hand /\ h.pool \in Pools /\ h.slot \in Slots
    BY DEF ReconcilerTypeOK, Hand
  <2>2. Whole(h.pool, EpochOf[h.slot]) => Whole(h.pool, EpochOf[h.slot])'
    BY <2>1, WholeKept
  <2>3. Scheduled(h.pool, h.slot) => Scheduled(h.pool, h.slot)'
    BY <2>1 DEF SlotsKept, Scheduled
  <2> QED
    BY <2>1, <2>2, <2>3 DEF HandIsWhole
<1> QED
  BY <1>1 DEF HandIsWhole

\* Slots still to look up stay scheduled.
LEMMA DueSlotsFrame ==
    ASSUME ReconcilerTypeOK, DueIsScheduled, SlotsKept, due' \subseteq due
    PROVE  DueIsScheduled'
<1>1. \A k \in due : k[1] \in Pools /\ k[2] \in Slots
  BY DEF ReconcilerTypeOK
<1> QED
  BY <1>1 DEF DueIsScheduled, SlotsKept, Scheduled

\* Steps outside of the reconciler leave what it holds true.
LEMMA ReconcilerWholeFrame ==
    ASSUME ReconcilerTypeOK, ReconcilerWhole, SlotsKept, UNCHANGED reconVars
    PROVE  ReconcilerWhole'
<1>1. EstimatesAreWhole' /\ HandIsWhole' /\ DueIsScheduled'
  BY EstimatesFrame, HandFrame, DueSlotsFrame DEF ReconcilerWhole, reconVars
<1> QED
  BY <1>1 DEF ReconcilerWhole, ListingIsOfEpoch, reconVars

\* A loop that has ended its tick holds nothing.
LEMMA EndTickWhole ==
    ASSUME EndTick
    PROVE  ReconcilerWhole'
  BY DEF EndTick, ReconcilerWhole, EstimatesAreWhole, HandIsWhole, ListingIsOfEpoch,
     DueIsScheduled

\* A listing that loses a block, or goes on to its next page, stays of its epoch.
LEMMA AfterBlockEpoch ==
    ASSUME NEW g \in Listing, \A s \in g.hashes : EpochOf[s] = g.epoch
    PROVE  \A f \in AfterBlock(g) : \A s \in f.hashes : EpochOf[s] = f.epoch
<1>1. CASE g.hashes # {}
  BY <1>1 DEF AfterBlock
<1>2. CASE g.hashes = {}
  <2>1. [g EXCEPT !.page = g.page + 1].hashes = {}
    BY <1>2 DEF Listing
  <2>2. \A f \in AfterBlock(g) : f.hashes = {}
    BY <1>2, <2>1 DEF AfterBlock
  <2> QED
    BY <2>2
<1> QED
  BY <1>1, <1>2

\* Starting and ending a tick: only slots with a row become due.
LEMMA TickWhole ==
    ASSUME WholeInv, ReconcileTick \/ QuitTick \/ LatestFails \/ SettleStart
    PROVE  ReconcilerKeeps
<1> USE DEF WholeInv, TypeOK
<1>1. UNCHANGED <<row, slotSt, obs>>
  BY DEF ReconcileTick, QuitTick, LatestFails, SettleStart, storeVars
<1>2. SlotsKept /\ TablesWhole'
  BY <1>1, TablesFrame
<1>3. CASE EndTick
  BY <1>2, <1>3, EndTickWhole DEF ReconcilerKeeps
<1>4. CASE ReconcileTick
  <2>1. UNCHANGED <<listing, hand, estHand, due>> /\ rPc' = "tick"
    BY <1>4 DEF ReconcileTick
  <2>2. DueIsScheduled' /\ ListingIsOfEpoch'
    BY <1>2, <2>1, DueSlotsFrame DEF ReconcilerWhole, ListingIsOfEpoch
  <2>3. HandIsWhole'
    BY <2>1 DEF ReconcilerWhole, HandIsWhole
  <2>4. EstimatesAreWhole'
    BY <1>2, <1>4, <2>1, EstimatesFrame DEF ReconcilerWhole, ReconcileTick
  <2> QED
    BY <1>2, <2>2, <2>3, <2>4 DEF ReconcilerKeeps, ReconcilerWhole
<1>5. CASE SettleStart /\ ~EndTick
  <2>1. /\ UNCHANGED <<rEpoch, listing, hand, estHand>> /\ rPc' = "settle"
        /\ \A k \in due' : slotSt[k[1]][k[2]] = "pending"
    BY <1>5 DEF SettleStart, tickVars, estVars
  <2>2. DueIsScheduled'
    BY <1>1, <2>1 DEF DueIsScheduled, Scheduled
  <2>3. HandIsWhole' /\ ListingIsOfEpoch'
    BY <2>1 DEF ReconcilerWhole, HandIsWhole, ListingIsOfEpoch
  <2>4. EstimatesAreWhole'
    BY <1>2, <1>5, <2>1, EstimatesFrame DEF ReconcilerWhole, SettleStart, EstimatesDone, IngestDone
  <2> QED
    BY <1>2, <2>2, <2>3, <2>4 DEF ReconcilerKeeps, ReconcilerWhole
<1> QED
  BY <1>3, <1>4, <1>5 DEF QuitTick, LatestFails

\* Listing and fetching blocks: a block of the listing's epoch is looked up only
\* in the schedule of that epoch, when its row is ok (ingestPoolBlocks).
LEMMA IngestWhole ==
    ASSUME WholeInv,
           \/ \E p \in Pools, e \in Epochs, n \in 1..NSlots : ListFails(p, e, n) \/ ListPage(p, e, n)
           \/ \E g \in listing : \E s \in g.hashes : BlockFails(g, s) \/ FetchBlock(g, s)
    PROVE  ReconcilerKeeps
<1> USE DEF WholeInv, TypeOK
<1>1. UNCHANGED <<row, slotSt, obs, rEpoch, estHand, due>> /\ rPc = "tick"
  BY DEF ListFails, ListPage, Asks, BlockFails, FetchBlock, ingestUnchanged, tickVars, estVars
<1>2. SlotsKept /\ TablesWhole'
  BY <1>1, TablesFrame
<1>3. EstimatesAreWhole' /\ DueIsScheduled'
  BY <1>1, <1>2, EstimatesFrame, DueSlotsFrame DEF ReconcilerWhole
<1>4. HandIsWhole' /\ ListingIsOfEpoch'
  <2>1. ASSUME NEW p \in Pools, NEW e \in Epochs, NEW n \in 1..NSlots, ListFails(p, e, n)
        PROVE  HandIsWhole' /\ ListingIsOfEpoch'
    BY <1>2, <2>1, HandFrame DEF ListFails, ReconcilerWhole, ListingIsOfEpoch
  <2>2. ASSUME NEW p \in Pools, NEW e \in Epochs, NEW n \in 1..NSlots, ListPage(p, e, n)
        PROVE  HandIsWhole' /\ ListingIsOfEpoch'
    <3> DEFINE page == Page(p, e, n)
               g == [pool |-> p, epoch |-> e, page |-> n,
                     full |-> Cardinality(page) = PageSize, new |-> FALSE,
                     hashes |-> { s \in page : obs[p][s] = "none" }]
    <3>1. page \subseteq SlotsOf(e)
      BY DEF Page, MintedBy
    <3>2. n \in Nat /\ (Cardinality(page) = PageSize) \in BOOLEAN /\ page \subseteq Slots
      BY <3>1, SlotsAssumption DEF SlotsOf
    <3>3. listing' = AfterBlock(g)
      BY <2>2, Zenon DEF ListPage
    <3> HIDE DEF page
    <3>4. g \in Listing /\ \A s \in g.hashes : EpochOf[s] = g.epoch
      BY <3>1, <3>2 DEF Listing, SlotsOf
    <3> HIDE DEF g
    <3>5. ListingIsOfEpoch'
      BY <3>3, <3>4, AfterBlockEpoch DEF ListingIsOfEpoch
    <3> QED
      BY <1>2, <2>2, <3>5, HandFrame DEF ListPage, ReconcilerWhole
  <2>3. ASSUME NEW g \in listing, NEW s \in g.hashes, BlockFails(g, s)
        PROVE  HandIsWhole' /\ ListingIsOfEpoch'
    <3> DEFINE f == [g EXCEPT !.hashes = @ \ {s}]
    <3>1. g \in Listing /\ f \in Listing
      BY DropHash DEF ReconcilerTypeOK
    <3>2. f.hashes \subseteq g.hashes /\ f.epoch = g.epoch
      BY <3>1 DEF Listing
    <3>3. listing' = AfterBlock(f)
      BY <2>3 DEF BlockFails
    <3> HIDE DEF f
    <3>4. ListingIsOfEpoch'
      BY <3>1, <3>2, <3>3, AfterBlockEpoch DEF ReconcilerWhole, ListingIsOfEpoch
    <3> QED
      BY <1>2, <2>3, <3>4, HandFrame DEF BlockFails, ReconcilerWhole
  <2>4. ASSUME NEW g \in listing, NEW s \in g.hashes, FetchBlock(g, s)
        PROVE  HandIsWhole' /\ ListingIsOfEpoch'
    <3>1. g.pool \in Pools /\ g.epoch \in Epochs /\ EpochOf[s] = g.epoch
      BY ListingFields DEF ReconcilerTypeOK, ReconcilerWhole, ListingIsOfEpoch
    <3>2. rPc' = "find" => Whole(g.pool, EpochOf[s])'
      BY <1>2, <2>4, <3>1, WholeKept DEF FetchBlock, TablesWhole, RowsAreWhole
    <3>3. rPc' \in {"find", "record"} /\ listing' = listing
            /\ hand' = {[pool |-> g.pool, slot |-> s, verdict |-> "null"]}
      BY <2>4 DEF FetchBlock
    <3> QED
      BY <3>2, <3>3 DEF HandIsWhole, ReconcilerWhole, ListingIsOfEpoch
  <2> QED
    BY <2>1, <2>2, <2>3, <2>4
<1> QED
  BY <1>2, <1>3, <1>4 DEF ReconcilerKeeps, ReconcilerWhole

\* The verdict on the block in hand is reached in a whole schedule, marking it
\* writes a row that is there, and it is recorded with that verdict (ingestBlock).
LEMMA HandStepWhole ==
    ASSUME WholeInv,
           \/ \E h \in hand : FindSlot(h) \/ MarkProduced(h)
           \/ \E g \in listing, h \in hand : RecordBlock(g, h)
    PROVE  ReconcilerKeeps
<1> USE DEF WholeInv, TypeOK
<1>0. \A h \in hand : h \in Hand /\ h.pool \in Pools /\ h.slot \in Slots
  BY DEF ReconcilerTypeOK, Hand
<1>1. UNCHANGED <<row, rEpoch, estHand, due>> /\ rPc # "estSave"
  BY DEF FindSlot, MarkProduced, RecordBlock, ingestUnchanged, tickVars, estVars
<1>2. ASSUME SlotsKept /\ SlotsAreLed', NoFalseAnomaly', HandIsWhole', ListingIsOfEpoch'
      PROVE  ReconcilerKeeps
  <2>1. RowsAreWhole'
    BY <1>1, <1>2, RowsFrame DEF TablesWhole
  <2>2. EstimatesAreWhole' /\ DueIsScheduled'
    BY <1>1, <1>2, EstimatesFrame, DueSlotsFrame DEF ReconcilerWhole
  <2> QED
    BY <1>2, <2>1, <2>2 DEF ReconcilerKeeps, ReconcilerWhole, TablesWhole
<1>3. ASSUME NEW h \in hand, FindSlot(h)
      PROVE  ReconcilerKeeps
  <2> DEFINE found == Scheduled(h.pool, h.slot)
             x == [h EXCEPT !.verdict = IF found THEN "yes" ELSE "no"]
  <2>1. UNCHANGED <<slotSt, obs, listing>> /\ hand' = {x}
          /\ rPc' \in {"mark", "record"} /\ (rPc' = "mark" => found)
    BY <1>3 DEF FindSlot, ingestUnchanged
  <2>2. x.pool = h.pool /\ x.slot = h.slot /\ (x.verdict = "no" => ~found)
    BY <1>0 DEF Hand
  <2>3. h.pool \in Pools /\ h.slot \in Slots /\ (~found => h.slot \notin Leader[h.pool])
    BY <1>0, <1>3 DEF FindSlot, ReconcilerWhole, HandIsWhole, Whole
  <2> HIDE DEF x
  <2>4. found => Scheduled(h.pool, h.slot)'
    BY <2>1 DEF Scheduled
  <2>5. HandIsWhole'
    BY <2>1, <2>2, <2>3, <2>4 DEF HandIsWhole
  <2>6. NoFalseAnomaly' /\ ListingIsOfEpoch'
    BY <2>1 DEF TablesWhole, NoFalseAnomaly, ReconcilerWhole, ListingIsOfEpoch
  <2> QED
    BY <1>2, <2>1, <2>5, <2>6, SlotsFrame DEF TablesWhole
<1>4. ASSUME NEW h \in hand, MarkProduced(h)
      PROVE  ReconcilerKeeps
  <2>1. Scheduled(h.pool, h.slot) /\ "produced" \in SlotState \ {"none"}
    BY <1>4 DEF MarkProduced, ReconcilerWhole, HandIsWhole, SlotState
  <2>2. SlotsKept /\ SlotsAreLed'
    BY <1>0, <1>4, <2>1, SlotWrite DEF MarkProduced, SaveSlot, TablesWhole
  <2>3. HandIsWhole'
    BY <1>4 DEF MarkProduced, ReconcilerWhole, HandIsWhole
  <2>4. NoFalseAnomaly' /\ ListingIsOfEpoch'
    BY <1>4 DEF MarkProduced, TablesWhole, NoFalseAnomaly, ReconcilerWhole, ListingIsOfEpoch
  <2> QED
    BY <1>2, <2>2, <2>3, <2>4
<1>5. ASSUME NEW g \in listing, NEW h \in hand, RecordBlock(g, h)
      PROVE  ReconcilerKeeps
  <2> DEFINE f == [g EXCEPT !.hashes = @ \ {h.slot}, !.new = TRUE]
  <2>1. SlotsKept /\ SlotsAreLed'
    BY <1>5, SlotsFrame DEF RecordBlock, TablesWhole
  <2>2. HandIsWhole'
    BY <1>5 DEF RecordBlock, HandIsWhole
  <2>3. NoFalseAnomaly'
    <3>1. \A q \in Pools, t \in Slots :
            obs'[q][t] = IF q = h.pool /\ t = h.slot THEN h.verdict ELSE obs[q][t]
      BY <1>0, <1>5 DEF RecordBlock, SaveObservedBlock, StoreTypeOK
    <3> QED
      BY <1>0, <3>1 DEF TablesWhole, NoFalseAnomaly, ReconcilerWhole, HandIsWhole
  <2>4. ListingIsOfEpoch'
    <3>1. g \in Listing /\ f \in Listing
      BY DropHash DEF ReconcilerTypeOK
    <3>2. f.hashes \subseteq g.hashes /\ f.epoch = g.epoch
      BY <3>1 DEF Listing
    <3>3. listing' = AfterBlock(f)
      BY <1>5 DEF RecordBlock
    <3> HIDE DEF f
    <3> QED
      BY <3>1, <3>2, <3>3, AfterBlockEpoch DEF ReconcilerWhole, ListingIsOfEpoch
  <2> QED
    BY <1>2, <2>1, <2>2, <2>3, <2>4
<1> QED
  BY <1>3, <1>4, <1>5

\* The copy of a row read for its estimate is written back with the status it
\* was read with: if that was ok, its schedule is still whole.
LEMMA EstimateWhole ==
    ASSUME WholeInv,
           (\E p \in Pools, got \in SUBSET Fillable : EstimateRead(p, got)) \/ (\E x \in estHand : EstimateSave(x))
    PROVE  ReconcilerKeeps
<1> USE DEF WholeInv, TypeOK
<1>1. UNCHANGED <<slotSt, obs, rEpoch, listing, hand, due>> /\ rPc \notin {"find", "mark"}
        /\ rPc' \notin {"find", "mark"}
  BY DEF EstimateRead, EstimateSave, IngestDone, storeVars, tickVars
<1>2. SlotsKept /\ SlotsAreLed'
  BY <1>1, SlotsFrame DEF TablesWhole
<1>3. NoFalseAnomaly' /\ ListingIsOfEpoch' /\ HandIsWhole' /\ DueIsScheduled'
  <2>1. DueIsScheduled'
    BY <1>1, <1>2, DueSlotsFrame DEF ReconcilerWhole
  <2> QED
    BY <1>1, <2>1 DEF TablesWhole, NoFalseAnomaly, ReconcilerWhole, ListingIsOfEpoch, HandIsWhole
<1>4. ASSUME NEW p \in Pools, NEW got \in SUBSET Fillable, EstimateRead(p, got)
      PROVE  RowsAreWhole' /\ EstimatesAreWhole'
  <2> DEFINE ps == row[p][rEpoch]
             x == [pool |-> p, ps |-> [ps EXCEPT !.est = @ \cup got]]
  <2>1. RowsAreWhole'
    BY <1>2, <1>4, RowsFrame DEF EstimateRead, TablesWhole, storeVars
  <2>2. CASE UNCHANGED <<estHand, rPc>>
    BY <1>1, <1>2, <2>1, <2>2, EstimatesFrame DEF ReconcilerWhole
  <2>3. CASE estHand' = {x} /\ rPc' = "estSave"
    <3>1. ps \in Row /\ rEpoch \in Epochs
      BY DEF StoreTypeOK, ReconcilerTypeOK
    <3>2. x.pool = p /\ x.ps.status = ps.status
      BY <3>1 DEF Row
    <3>3. ps.status = "ok" => Whole(p, rEpoch)
      BY <3>1 DEF TablesWhole, RowsAreWhole
    <3> HIDE DEF ps, x
    <3> QED
      BY <1>1, <2>1, <2>3, <3>2, <3>3 DEF EstimatesAreWhole, Whole, Scheduled
  <2> QED
    BY <1>4, <2>2, <2>3 DEF EstimateRead
<1>5. ASSUME NEW x \in estHand, EstimateSave(x)
      PROVE  RowsAreWhole' /\ EstimatesAreWhole'
  <2>1. x.pool \in Pools /\ rEpoch \in Epochs /\ (x.ps.status = "ok" => Whole(x.pool, rEpoch))
    BY DEF ReconcilerTypeOK, ReconcilerWhole, EstimatesAreWhole
  <2>2. RowsAreWhole'
    BY <1>2, <1>5, <2>1, RowWrite DEF EstimateSave, TablesWhole
  <2> QED
    BY <1>5, <2>2 DEF EstimateSave, EstimatesAreWhole
<1> QED
  BY <1>2, <1>3, <1>4, <1>5 DEF ReconcilerKeeps, ReconcilerWhole, TablesWhole

\* A due slot is saved in the row it was read from, which is still there
\* (settlePendingSlots).
LEMMA SettleWhole ==
    ASSUME WholeInv, NEW k \in due, LookupFails(k) \/ SettleSlot(k)
    PROVE  ReconcilerKeeps
<1> USE DEF WholeInv, TypeOK
<1> DEFINE v == IF ShowsOurs(k[1], k[2]) THEN "produced" ELSE "missed"
<1>1. k[1] \in Pools /\ k[2] \in Slots /\ Scheduled(k[1], k[2]) /\ v \in SlotState \ {"none"}
  BY DEF ReconcilerTypeOK, ReconcilerWhole, DueIsScheduled, SlotState
<1>2. slotSt' = [slotSt EXCEPT ![k[1]][k[2]] = v] \/ UNCHANGED slotSt
  BY DEF LookupFails, SettleSlot, SaveSlot
<1> HIDE DEF v
<1>3. SlotsKept /\ SlotsAreLed'
  BY <1>1, <1>2, SlotWrite DEF TablesWhole
<1>4. TablesWhole'
  BY <1>3, RowsFrame DEF LookupFails, SettleSlot, TablesWhole, NoFalseAnomaly
<1>5. ReconcilerWhole'
  <2>1. CASE EndTick
    BY <2>1, EndTickWhole
  <2>2. CASE UNCHANGED <<rPc, tickVars, listing, hand, estVars>> /\ due' \subseteq due
    BY <1>3, <2>2, EstimatesFrame, HandFrame, DueSlotsFrame
       DEF ReconcilerWhole, ListingIsOfEpoch, tickVars, estVars
  <2> QED
    BY <2>1, <2>2 DEF LookupFails, SettleSlot, SlotDone
<1> QED
  BY <1>3, <1>4, <1>5 DEF ReconcilerKeeps

\* No step of the reconciler takes a slot row away, saves a row as ok without
\* its schedule, or raises a false anomaly.
LEMMA ReconcilerStepWhole ==
    ASSUME WholeInv, ReconcilerNext
    PROVE  ReconcilerKeeps
  BY TickWhole, IngestWhole, HandStepWhole, EstimateWhole, SettleWhole DEF ReconcilerNext

\* ------------------------------------------------------------- the whole daemon

\* In an empty database no row is ok and no slot scheduled.
LEMMA WholeInit == Init => WholeInv
<1> SUFFICES ASSUME Init PROVE TablesWhole /\ SchedulerWhole /\ ReconcilerWhole
  BY InitTypes, EpochIsSeenInit DEF WholeInv
<1> USE DEF Init, StoreInit, SchedulerInit, SchedulerIdle, ReconcilerIdle
<1>1. SlotsAreLed
  BY DEF SlotsAreLed, Absent, Scheduled
<1>2. RowsAreWhole /\ NoFalseAnomaly
  BY DEF RowsAreWhole, NoRow, NoFalseAnomaly
<1>3. \A l \in Listings : job[l].pc = "none"
  BY DEF NoJob
<1>4. SchedulerWhole
  BY <1>3 DEF SchedulerWhole, FinRowsAreWhole, JobsAreWhole, JobIsWhole
<1>5. ReconcilerWhole
  BY DEF ReconcilerWhole, EstimatesAreWhole, HandIsWhole, ListingIsOfEpoch, DueIsScheduled
<1> QED
  BY <1>1, <1>2, <1>4, <1>5 DEF TablesWhole

\* Steps outside of the scheduler leave what it holds true.
LEMMA SchedulerWholeFrame ==
    ASSUME SchedulerTypeOK, SchedulerWhole, SlotsKept, UNCHANGED schedVars
    PROVE  SchedulerWhole'
<1>1. FinRowsAreWhole'
  BY FinRowsFrame DEF SchedulerWhole, schedVars
<1>2. JobsAreWhole'
  BY JobFrame DEF SchedulerWhole, JobsAreWhole, schedVars
<1> QED
  BY <1>1, <1>2 DEF SchedulerWhole

\* Every step of the daemon and its environment keeps the invariant, and takes
\* no row of the slot table away.
LEMMA WholeNextStep ==
    ASSUME LeadsOnward, WholeInv, [Next]_vars
    PROVE  SlotsKept /\ WholeInv'
<1> USE DEF WholeInv, TypeOK
<1>1. TypeOK' /\ EpochIsSeen'
  BY NextTypes, EpochIsSeenNext
<1>2. CASE SchedulerStep
  <2>1. SchedulerKeeps
    BY <1>2, SchedulerStepWhole DEF SchedulerStep
  <2> QED
    BY <1>1, <1>2, <2>1, ReconcilerWholeFrame DEF SchedulerKeeps, SchedulerStep
<1>3. CASE ReconcilerStep
  <2>1. ReconcilerKeeps
    BY <1>3, ReconcilerStepWhole DEF ReconcilerStep
  <2> QED
    BY <1>1, <1>3, <2>1, SchedulerWholeFrame DEF ReconcilerKeeps, ReconcilerStep
<1>4. CASE EnvStep \/ Shutdown \/ UNCHANGED vars
  <2>1. UNCHANGED <<row, slotSt, obs, schedVars, reconVars>>
    BY <1>4 DEF EnvStep, EnvNext, Mint, BfIndex, Reorg, Shutdown, vars, storeVars
  <2>2. SlotsKept /\ TablesWhole'
    BY <2>1, TablesFrame
  <2> QED
    BY <1>1, <2>1, <2>2, SchedulerWholeFrame, ReconcilerWholeFrame
<1>5. CASE Restart
  <2>1. UNCHANGED <<row, slotSt, obs, sPc, sEpoch, job, finRows, reconVars>>
    BY <1>5 DEF Restart, storeVars, finVars
  <2>2. SlotsKept /\ TablesWhole'
    BY <2>1, TablesFrame
  <2>3. SchedulerWhole'
    BY <2>1, <2>2, FinRowsFrame, JobFrame DEF SchedulerWhole, JobsAreWhole
  <2> QED
    BY <1>1, <2>1, <2>2, <2>3, ReconcilerWholeFrame
<1>6. CASE Crash
  <2>1. SlotsKept /\ TablesWhole'
    BY <1>6, TablesFrame DEF Crash
  <2>2. \A l \in Listings : job'[l].pc = "none"
    BY <1>6 DEF Crash, SchedulerLost, NoJob
  <2>3. SchedulerWhole'
    BY <1>6, <2>2, NoJobs DEF Crash, SchedulerLost, SchedulerWhole, FinRowsAreWhole
  <2> QED
    BY <1>1, <1>6, <2>1, <2>3, EndTickWhole DEF Crash
<1> QED
  BY <1>2, <1>3, <1>4, <1>5, <1>6 DEF Next

\* The table's rows of an epoch that has its whole schedule are that schedule.
LEMMA WholeIsShown ==
    ASSUME WholeInv, NEW p \in Pools, NEW e \in Epochs, Whole(p, e)
    PROVE  RowsIn(p, e, {"pending", "produced", "missed"}) = Leader[p] \cap SlotsOf(e)
<1>1. \A s \in SlotsOf(e) : slotSt[p][s] \in {"pending", "produced", "missed"} <=> s \in Leader[p]
  BY DEF WholeInv, TypeOK, StoreTypeOK, SlotState, TablesWhole, SlotsAreLed, Whole, Scheduled, SlotsOf
<1> QED
  BY <1>1 DEF RowsIn

\* If every pool that leads in an epoch leads in every later one, a schedule
\* marked ok is the pool's whole schedule of that epoch and nothing else:
\* whatever rollover, crash, shutdown, chain switch, failure or recompute by
\* another listing came between the run of cardano-cli and the writes of
\* computePool and ensureRewardEstimates.
THEOREM OkIsWhole == ASSUME LeadsOnward PROVE Spec => []TrustworthyOk
<1>1. WholeInv /\ [Next]_vars => WholeInv'
  BY WholeNextStep
<1>2. WholeInv => TrustworthyOk
  BY WholeIsShown DEF WholeInv, TablesWhole, RowsAreWhole, TrustworthyOk
<1> QED
  BY <1>1, <1>2, WholeInit, PTL DEF Spec

\* What is ok stays whole: from the moment at which a pool's row of an epoch is
\* ok, the slot table holds the whole schedule for ever, whatever status the row
\* has later and whatever recompute, settlement, shutdown, crash or chain switch
\* comes in between.  So handleOverview, which reads the status in one store call
\* and counts the slots in a later one, shows the schedule its status speaks of.
THEOREM OkStaysWhole ==
    ASSUME LeadsOnward, NEW p \in Pools, NEW e \in Epochs
    PROVE  Spec => [](row[p][e].status = "ok" =>
                        [](RowsIn(p, e, {"pending", "produced", "missed"}) = Leader[p] \cap SlotsOf(e)))
<1> DEFINE ok == row[p][e].status = "ok"
           shown == RowsIn(p, e, {"pending", "produced", "missed"}) = Leader[p] \cap SlotsOf(e)
<1>1. WholeInv /\ [Next]_vars => WholeInv'
  BY WholeNextStep
<1>2. WholeInv /\ ok => Whole(p, e)
  BY DEF WholeInv, TablesWhole, RowsAreWhole
<1>3. WholeInv /\ Whole(p, e) /\ [Next]_vars => Whole(p, e)'
  <2> SUFFICES ASSUME WholeInv, Whole(p, e), [Next]_vars PROVE Whole(p, e)'
    OBVIOUS
  <2>1. SlotsKept
    BY WholeNextStep
  <2> QED
    BY <2>1, WholeKept
<1>4. WholeInv /\ Whole(p, e) => shown
  BY WholeIsShown
<1> QED
  BY <1>1, <1>2, <1>3, <1>4, WholeInit, PTL DEF Spec

\* Under the same hypothesis a block classified as outside the schedule is
\* outside the pool's leadership: neither rematchObserved nor ingestBlock raises
\* a false anomaly while a schedule is being replaced.
THEOREM AnomaliesAreReal == ASSUME LeadsOnward PROVE Spec => []NoFalseAnomaly
<1>1. WholeInv /\ [Next]_vars => WholeInv'
  BY WholeNextStep
<1>2. WholeInv => NoFalseAnomaly
  BY DEF WholeInv, TablesWhole
<1> QED
  BY <1>1, <1>2, WholeInit, PTL DEF Spec

\* ---------------------------------------------------------- truth of the slots

\* The chain holds the pool's block in the slot, and has passed it.
Ours(p, s) == chain[s] = p /\ s <= tip

\* Without chain switches what a block was seen in, stays.
NoSwitches == "reorg" \notin Faults

ProducedIsOurs == \A p \in Pools, s \in Slots : slotSt[p][s] = "produced" => Ours(p, s)
ObservedIsOurs == \A p \in Pools, s \in Slots : obs[p][s] # "none" => Ours(p, s)
ListingIsOurs  == \A g \in listing : \A s \in g.hashes : Ours(g.pool, s)
HandIsOurs     == \A h \in hand : Ours(h.pool, h.slot)
JobIsOurs(l) ==
    /\ job[l].pc \in {"classify", "settle"} => \A s \in job[l].slots : Ours(PoolOf[l], s)
    /\ job[l].pc = "settle" => Ours(PoolOf[l], job[l].hand)
JobsAreOurs == \A l \in Listings : JobIsOurs(l)

\* A summary finalized from a schedule counts the epoch as the chain has it,
\* and the chain has passed all of its slots.
IsTrue(p, e, es) ==
    LET led == Leader[p] \cap SlotsOf(e)
        minted == { s \in led : chain[s] = p } IN
    es.finalized /\ ~es.actualsOnly =>
        /\ \A s \in led : s <= tip
        /\ es.scheduled = Cardinality(led)
        /\ es.produced  = Cardinality(minted)
        /\ es.missed    = Cardinality(led \ minted)
SummariesAreTrue == \A p \in Pools, e \in Epochs : IsTrue(p, e, summ[p][e])
FinHandIsTrue    == \A h \in finHand : IsTrue(h.pool, h.epoch, h.es)

\* The inductive invariant for a chain without switches: every block the loops
\* hold, stored, or settled a slot by, is on the chain behind the tip.
SchedulerTrue  == JobsAreOurs /\ SummariesAreTrue /\ FinHandIsTrue
ReconcilerTrue == ListingIsOurs /\ HandIsOurs
TruthInv == WholeInv /\ MissInv /\ ProducedIsOurs /\ ObservedIsOurs
              /\ SchedulerTrue /\ ReconcilerTrue

\* The chain only grows, with its tip, and what lies behind the tip stays.
ChainGrows ==
    /\ tip <= tip'
    /\ tip' = tip => chain' = chain
    /\ \A s \in Slots : s <= tip => chain'[s] = chain[s]

\* What every step does on a chain without switches.
LEMMA ChainStep ==
    ASSUME NoSwitches, TypeOK, [Next]_vars
    PROVE  ChainGrows /\ (UNCHANGED chainVars \/ UNCHANGED <<row, slotSt, obs, summ, schedVars, reconVars>>)
<1> USE DEF TypeOK, StoreTypeOK, ChainGrows
<1>1. tip \in Nat
  BY SlotsAssumption
<1>2. CASE UNCHANGED chainVars
  BY <1>1, <1>2 DEF chainVars
<1>3. CASE EnvStep
  <2>1. ASSUME NEW s \in Slots, NEW who, Mint(s, who)
        PROVE  ChainGrows
    BY <1>1, <2>1 DEF Mint, Slots
  <2>2. ASSUME NEW s \in Slots, BfIndex(s)
        PROVE  ChainGrows
    BY <1>1, <2>2 DEF BfIndex
  <2>3. ~\E s, who : Reorg(s, who)
    BY DEF Reorg, NoSwitches
  <2>4. UNCHANGED <<row, slotSt, obs, summ, schedVars, reconVars>>
    BY <1>3 DEF EnvStep, EnvNext, Mint, BfIndex, Reorg
  <2> QED
    BY <1>3, <2>1, <2>2, <2>3, <2>4 DEF EnvStep, EnvNext
<1>4. CASE SchedulerStep
  BY <1>2, <1>4, SchedulerSlotWrites DEF SchedulerStep
<1>5. CASE ReconcilerStep
  BY <1>2, <1>5, ReconcilerReadsChain DEF ReconcilerStep
<1>6. CASE Shutdown \/ Restart \/ Crash \/ UNCHANGED vars
  BY <1>2, <1>6 DEF Shutdown, Restart, Crash, vars, storeVars, chainVars
<1> QED
  BY <1>3, <1>4, <1>5, <1>6 DEF Next

\* ----------------------------------------------- what a step does to the slots

\* A slot with a row is settled truthfully.
Settles(p, s, v) ==
    /\ Scheduled(p, s)
    /\ v = "produced" => Ours(p, s)
    /\ v = "missed" => chain[s] # p /\ s + SettleMargin < tip
    /\ slotSt' = [slotSt EXCEPT ![p][s] = v]

\* A step leaves the slots alone, stores one whole schedule, or settles one slot.
SlotStep ==
    \/ UNCHANGED slotSt
    \/ /\ UNCHANGED chainVars
       /\ \/ \E p \in Pools, e \in Epochs :
               ReplaceScheduledSlots(p, e, Leader[p] \cap SlotsOf(e))
          \/ \E p \in Pools, s \in Slots : \E v \in {"produced", "missed"} : Settles(p, s, v)

\* Of the scheduler's steps, StoreSlots stores and SettleMatched settles.
LEMMA SchedulerSlotStep ==
    ASSUME TruthInv, SchedulerNext
    PROVE  SlotStep
<1> USE DEF TruthInv, WholeInv, TypeOK
<1>1. UNCHANGED chainVars
  BY SchedulerSlotWrites
<1>2. ASSUME NEW l \in Listings, StoreSlots(l)
      PROVE  SlotStep
  <2>1. ReplaceScheduledSlots(PoolOf[l], sEpoch, Leader[PoolOf[l]] \cap SlotsOf(sEpoch))
    BY <1>2 DEF StoreSlots, SchedulerWhole, JobsAreWhole, JobIsWhole
  <2>2. PoolOf[l] \in Pools /\ sEpoch \in Epochs
    BY PoolOfType DEF SchedulerTypeOK
  <2> QED
    BY <1>1, <2>1, <2>2 DEF SlotStep
<1>3. ASSUME NEW l \in Listings, SettleMatched(l)
      PROVE  SlotStep
  <2>1. job[l].pc = "settle" /\ slotSt' = [slotSt EXCEPT ![PoolOf[l]][job[l].hand] = "produced"]
    BY <1>3 DEF SettleMatched
  <2>2. job[l].hand \in Slots /\ Scheduled(PoolOf[l], job[l].hand)
    BY <2>1 DEF SchedulerWhole, JobsAreWhole, JobIsWhole
  <2>3. Ours(PoolOf[l], job[l].hand) /\ PoolOf[l] \in Pools
    BY <2>1, PoolOfType DEF SchedulerTrue, JobsAreOurs, JobIsOurs
  <2>4. Settles(PoolOf[l], job[l].hand, "produced")
    BY <2>1, <2>2, <2>3 DEF Settles
  <2> QED
    BY <1>1, <2>2, <2>3, <2>4 DEF SlotStep
<1> QED
  BY <1>2, <1>3, SchedulerSlotWrites DEF SlotStep

\* Of the reconciler's steps, MarkProduced and SettleSlot settle.
LEMMA ReconcilerSlotStep ==
    ASSUME TruthInv, ReconcilerNext
    PROVE  SlotStep
<1> USE DEF TruthInv, WholeInv, TypeOK
<1>1. UNCHANGED chainVars
  BY ReconcilerReadsChain
<1>2. ASSUME NEW h \in hand, MarkProduced(h)
      PROVE  SlotStep
  <2>1. h.pool \in Pools /\ h.slot \in Slots
    BY DEF ReconcilerTypeOK, Hand
  <2>2. Scheduled(h.pool, h.slot) /\ Ours(h.pool, h.slot)
    BY <1>2 DEF MarkProduced, ReconcilerWhole, HandIsWhole, ReconcilerTrue, HandIsOurs
  <2>3. Settles(h.pool, h.slot, "produced") \/ UNCHANGED slotSt
    BY <1>2, <2>2 DEF MarkProduced, SaveSlot, Settles
  <2> QED
    BY <1>1, <2>1, <2>3 DEF SlotStep
<1>3. ASSUME NEW k \in due, SettleSlot(k)
      PROVE  SlotStep
  <2> DEFINE v == IF ShowsOurs(k[1], k[2]) THEN "produced" ELSE "missed"
  <2>1. k[1] \in Pools /\ k[2] \in Slots
    BY DEF ReconcilerTypeOK
  <2>2. k[2] + SettleMargin < tip /\ k[2] <= bfTip /\ k[2] <= tip
    BY <2>1, MarginAssumption, SlotsAssumption
       DEF MissInv, DueIsDeep, MissesAreDeep, StoreTypeOK, Slots
  <2>3. Scheduled(k[1], k[2])
    BY DEF ReconcilerWhole, DueIsScheduled
  <2>4. v = "produced" => Ours(k[1], k[2])
    BY <2>2 DEF ShowsOurs, Ours
  <2>5. v = "missed" => chain[k[2]] # k[1]
    BY <2>2 DEF ShowsOurs
  <2>6. slotSt' = [slotSt EXCEPT ![k[1]][k[2]] = v] \/ UNCHANGED slotSt
    BY <1>3 DEF SettleSlot, SaveSlot
  <2>7. v \in {"produced", "missed"}
    OBVIOUS
  <2> HIDE DEF v
  <2>8. Settles(k[1], k[2], v) \/ UNCHANGED slotSt
    BY <2>2, <2>3, <2>4, <2>5, <2>6 DEF Settles
  <2> QED
    BY <1>1, <2>1, <2>7, <2>8 DEF SlotStep
<1>4. CASE ReconcileTick \/ QuitTick \/ LatestFails \/ SettleStart
  BY <1>4 DEF ReconcileTick, QuitTick, LatestFails, SettleStart, storeVars, SlotStep
<1>5. CASE \E p \in Pools, e \in Epochs, n \in 1..NSlots : ListFails(p, e, n) \/ ListPage(p, e, n)
  BY <1>5 DEF ListFails, ListPage, ingestUnchanged, SlotStep
<1>6. CASE \/ \E g \in listing : \E s \in g.hashes : BlockFails(g, s) \/ FetchBlock(g, s)
           \/ \E h \in hand : FindSlot(h)
           \/ \E g \in listing, h \in hand : RecordBlock(g, h)
  BY <1>6 DEF BlockFails, FetchBlock, FindSlot, RecordBlock, ingestUnchanged, SlotStep
<1>7. CASE \/ \E p \in Pools, got \in SUBSET Fillable : EstimateRead(p, got)
           \/ \E x \in estHand : EstimateSave(x)
           \/ \E k \in due : LookupFails(k)
  BY <1>7 DEF EstimateRead, EstimateSave, LookupFails, storeVars, SlotStep
<1> QED
  BY <1>2, <1>3, <1>4, <1>5, <1>6, <1>7 DEF ReconcilerNext

\* So does every step of the daemon and its environment.
LEMMA SlotStepOf ==
    ASSUME TruthInv, [Next]_vars
    PROVE  SlotStep
<1>1. CASE SchedulerStep \/ ReconcilerStep
  BY <1>1, SchedulerSlotStep, ReconcilerSlotStep DEF SchedulerStep, ReconcilerStep
<1>2. CASE EnvStep \/ Shutdown \/ Restart \/ Crash \/ UNCHANGED vars
  <2>1. UNCHANGED slotSt
    BY <1>2 DEF EnvStep, EnvNext, Mint, BfIndex, Reorg, Shutdown, Restart, Crash, vars, storeVars
  <2> QED
    BY <2>1 DEF SlotStep
<1> QED
  BY <1>1, <1>2 DEF Next

\* A block behind the tip stays the pool's.
LEMMA OursKept ==
    ASSUME StoreTypeOK, StoreTypeOK', ChainGrows, NEW p, NEW s \in Slots, Ours(p, s)
    PROVE  Ours(p, s)'
<1>1. tip \in Nat /\ tip' \in Nat /\ s \in Nat
  BY SlotsAssumption DEF StoreTypeOK, Slots
<1> QED
  BY <1>1 DEF ChainGrows, Ours

\* A slot that such a step turns into produced holds our block.
LEMMA ProducedStep ==
    ASSUME StoreTypeOK, StoreTypeOK', ProducedIsOurs, ChainGrows, SlotStep
    PROVE  ProducedIsOurs'
<1>1. \A p \in Pools, s \in Slots : Ours(p, s) => Ours(p, s)'
  BY OursKept
<1>2. ASSUME NEW p \in Pools, NEW s \in Slots, slotSt'[p][s] = "produced"
      PROVE  Ours(p, s)
  <2>1. CASE UNCHANGED slotSt
    BY <1>2, <2>1 DEF ProducedIsOurs
  <2>2. ASSUME NEW q \in Pools, NEW e \in Epochs, ReplaceScheduledSlots(q, e, Leader[q] \cap SlotsOf(e))
        PROVE  Ours(p, s)
    <3>1. slotSt[p][s] = "produced"
      BY <1>2, <2>2 DEF ReplaceScheduledSlots, StoreTypeOK
    <3> QED
      BY <3>1 DEF ProducedIsOurs
  <2>3. ASSUME NEW q \in Pools, NEW t \in Slots, NEW v \in {"produced", "missed"}, Settles(q, t, v)
        PROVE  Ours(p, s)
    <3>1. slotSt'[p][s] = IF p = q /\ s = t THEN v ELSE slotSt[p][s]
      BY <2>3 DEF Settles, StoreTypeOK
    <3> QED
      BY <1>2, <2>3, <3>1 DEF ProducedIsOurs, Settles
  <2> QED
    BY <2>1, <2>2, <2>3 DEF SlotStep
<1> QED
  BY <1>1, <1>2 DEF ProducedIsOurs

\* -------------------------------------------- what is held stays on the chain

\* A job that a step leaves alone keeps its blocks.
LEMMA JobOursFrame ==
    ASSUME StoreTypeOK, StoreTypeOK', SchedulerTypeOK, SchedulerWhole, ChainGrows,
           NEW l \in Listings, JobIsOurs(l), job'[l] = job[l]
    PROVE  JobIsOurs(l)'
<1>1. \A s \in job[l].slots : Ours(PoolOf[l], s) => Ours(PoolOf[l], s)'
  BY OursKept, JobFields
<1>2. job[l].pc = "settle" => job[l].hand \in Slots
  BY DEF SchedulerWhole, JobsAreWhole, JobIsWhole
<1>3. job[l].pc = "settle" => Ours(PoolOf[l], job[l].hand)'
  <2>1. \A s \in Slots : Ours(PoolOf[l], s) => Ours(PoolOf[l], s)'
    BY OursKept
  <2> QED
    BY <1>2, <2>1 DEF JobIsOurs, Ours
<1> QED
  BY <1>1, <1>3 DEF JobIsOurs, Ours

\* A true summary stays true: all its slots lie behind the tip.
LEMMA TrueKept ==
    ASSUME StoreTypeOK, StoreTypeOK', ChainGrows, NEW p, NEW e, NEW es, IsTrue(p, e, es)
    PROVE  IsTrue(p, e, es)'
<1> DEFINE led == Leader[p] \cap SlotsOf(e)
           minted == { s \in led : chain[s] = p }
<1> SUFFICES ASSUME es.finalized /\ ~es.actualsOnly
             PROVE  /\ \A s \in led : s <= tip'
                    /\ es.scheduled = Cardinality(led)
                    /\ es.produced  = Cardinality({ s \in led : chain'[s] = p })
                    /\ es.missed    = Cardinality(led \ { s \in led : chain'[s] = p })
  BY DEF IsTrue, SlotsOf
<1>1. /\ \A s \in led : s <= tip
      /\ es.scheduled = Cardinality(led)
      /\ es.produced  = Cardinality(minted)
      /\ es.missed    = Cardinality(led \ minted)
  BY DEF IsTrue
<1>2. led \subseteq Slots /\ tip \in Nat /\ tip' \in Nat
  BY SlotsAssumption DEF SlotsOf, StoreTypeOK
<1>3. \A s \in led : s <= tip' /\ chain'[s] = chain[s]
  BY <1>1, <1>2 DEF ChainGrows, Slots
<1> HIDE DEF led
<1>4. { s \in led : chain'[s] = p } = minted
  BY <1>3
<1> QED
  BY <1>1, <1>3, <1>4

\* What finalizeSummaries counts for an ok schedule with no pending slot is the
\* truth: each slot has a row, and each row is settled as the chain says.
LEMMA SummariseTrue ==
    ASSUME TruthInv, NEW p \in Pools, NEW e \in Epochs, NEW status,
           status = "ok" => Whole(p, e)
    PROVE  IsTrue(p, e, Summarise(p, e, status))
<1> DEFINE led == Leader[p] \cap SlotsOf(e)
           minted == { s \in led : chain[s] = p }
           es == Summarise(p, e, status)
<1> USE DEF TruthInv, WholeInv, TypeOK
<1> SUFFICES ASSUME es.finalized, ~es.actualsOnly
             PROVE  /\ \A s \in led : s <= tip
                    /\ es.scheduled = Cardinality(led)
                    /\ es.produced  = Cardinality(minted)
                    /\ es.missed    = Cardinality(led \ minted)
  BY Zenon DEF IsTrue
<1>1. status = "ok"
  BY DEF Summarise
<1>2. /\ es.scheduled = Cardinality(RowsIn(p, e, {"pending", "produced", "missed"}))
      /\ es.produced = Cardinality(RowsIn(p, e, {"produced"}))
      /\ es.missed = Cardinality(RowsIn(p, e, {"missed"}))
      /\ RowsIn(p, e, {"pending"}) = {}
  BY <1>1 DEF Summarise
<1>3. \A s \in SlotsOf(e) : /\ s \in Slots /\ slotSt[p][s] \in SlotState
                            /\ slotSt[p][s] # "none" <=> s \in Leader[p]
                            /\ slotSt[p][s] # "pending"
                            /\ slotSt[p][s] = "produced" => chain[s] = p /\ s <= tip
                            /\ slotSt[p][s] = "missed" => chain[s] # p
  BY <1>1, <1>2 DEF SlotsOf, StoreTypeOK, TablesWhole, SlotsAreLed, Whole, Scheduled, RowsIn,
     ProducedIsOurs, Ours, MissInv, MissesAreDeep
<1>4. \A s \in SlotsOf(e) : slotSt[p][s] = "missed" => s <= tip
  BY <1>3, MarginAssumption, SlotsAssumption
     DEF SlotsOf, StoreTypeOK, MissInv, MissesAreDeep, Slots
<1>5. RowsIn(p, e, {"pending", "produced", "missed"}) = led
  BY <1>3 DEF RowsIn, SlotState
<1>6. RowsIn(p, e, {"produced"}) = minted
  BY <1>3 DEF RowsIn, SlotState
<1>7. RowsIn(p, e, {"missed"}) = led \ minted
  BY <1>3 DEF RowsIn, SlotState
<1>8. \A s \in led : s <= tip
  BY <1>3, <1>4 DEF SlotState
<1> QED
  BY <1>2, <1>5, <1>6, <1>7, <1>8

\* Blocks stored stay on the chain, whatever is stored with them.
LEMMA ObservedFrame ==
    ASSUME StoreTypeOK, StoreTypeOK', ChainGrows, ObservedIsOurs, UNCHANGED obs
    PROVE  ObservedIsOurs'
  BY OursKept DEF ObservedIsOurs

\* A block is stored when it is on the chain (SaveObservedBlock).
LEMMA ObservedWrite ==
    ASSUME StoreTypeOK, ObservedIsOurs, UNCHANGED chainVars, NEW p \in Pools, NEW s \in Slots,
           NEW v, SaveObservedBlock(p, s, v), Ours(p, s)
    PROVE  ObservedIsOurs'
<1>1. \A q \in Pools, t \in Slots : obs'[q][t] = IF q = p /\ t = s THEN v ELSE obs[q][t]
  BY DEF SaveObservedBlock, StoreTypeOK
<1> QED
  BY <1>1 DEF ObservedIsOurs, Ours, chainVars

\* Steps outside of the scheduler keep what it holds, and the summaries.
LEMMA SchedulerTrueFrame ==
    ASSUME StoreTypeOK, StoreTypeOK', SchedulerTypeOK, SchedulerWhole, SchedulerTrue, ChainGrows,
           UNCHANGED <<summ, job, finHand>>
    PROVE  SchedulerTrue'
<1>1. JobsAreOurs'
  BY JobOursFrame DEF SchedulerTrue, JobsAreOurs
<1>2. SummariesAreTrue'
  BY TrueKept, Zenon DEF SchedulerTrue, SummariesAreTrue
<1>3. FinHandIsTrue'
  BY TrueKept, Zenon DEF SchedulerTrue, FinHandIsTrue
<1> QED
  BY <1>1, <1>2, <1>3 DEF SchedulerTrue

\* Steps outside of the reconciler keep what it holds.
LEMMA ReconcilerTrueFrame ==
    ASSUME StoreTypeOK, StoreTypeOK', ReconcilerTypeOK, ReconcilerTrue, ChainGrows,
           UNCHANGED <<listing, hand>>
    PROVE  ReconcilerTrue'
<1>1. \A g \in listing : g.hashes \subseteq Slots
  BY ListingFields DEF ReconcilerTypeOK
<1>2. \A h \in hand : h.slot \in Slots
  BY DEF ReconcilerTypeOK, Hand
<1>3. ListingIsOurs'
  BY <1>1, OursKept DEF ReconcilerTrue, ListingIsOurs
<1>4. HandIsOurs'
  <2>1. \A q \in Pools, t \in Slots : Ours(q, t) => Ours(q, t)'
    BY OursKept
  <2> QED
    BY <1>2, <2>1 DEF ReconcilerTrue, HandIsOurs, ReconcilerTypeOK, Hand
<1> QED
  BY <1>3, <1>4 DEF ReconcilerTrue

\* The steps that put no block into a worker's hand.
LEMMA QuietJobs ==
    ASSUME SchedulerTypeOK, SchedulerNext,
           ~\E l \in Listings : \/ StoreSlots(l) \/ MarkOk(l) \/ SettleMatched(l)
                                \/ \E s \in Slots : Classify(l, s)
    PROVE  /\ UNCHANGED obs
           /\ \A m \in Listings : job'[m] = job[m] \/ job'[m].pc \notin {"classify", "settle"}
<1> DEFINE Quiet == /\ UNCHANGED obs
                    /\ \A m \in Listings : job'[m] = job[m] \/ job'[m].pc \notin {"classify", "settle"}
<1>1. CASE SchedulerTick \/ AbortPass \/ FinScan \/ FinSave
  BY <1>1 DEF SchedulerTick, AbortPass, FinScan, FinSave, storeVars, finUnchanged
<1>2. CASE (\E e \in Epochs : FinEpoch(e)) \/ (\E r \in finRows : FinCount(r))
  BY <1>2 DEF FinEpoch, FinCount, storeVars, finUnchanged
<1>3. ASSUME NEW l \in Listings, Seed(l) \/ \E e \in Epochs : BackfillSave(l, e)
      PROVE  Quiet
  BY <1>3 DEF Seed, BackfillSave, storeVars
<1>4. ASSUME NEW l \in Listings, DropJob(l), UNCHANGED obs
      PROVE  Quiet
  BY <1>4 DEF DropJob, NoJob, SchedulerTypeOK
<1>5. ASSUME NEW l \in Listings, NEW j, job' = [job EXCEPT ![l] = j], UNCHANGED obs,
             j.pc \in {"queued", "verify", "store"}
      PROVE  Quiet
  BY <1>5 DEF SchedulerTypeOK
<1>6. ASSUME NEW l \in Listings, PlanPool(l)
      PROVE  Quiet
  <2> DEFINE j == [NoJob EXCEPT !.pc = "queued", !.ps = row[PoolOf[l]][sEpoch]]
  <2>1. UNCHANGED obs /\ (job' = job \/ job' = [job EXCEPT ![l] = j])
    BY <1>6 DEF PlanPool, storeVars
  <2>2. j.pc = "queued"
    BY DEF NoJob
  <2> HIDE DEF j
  <2> QED
    BY <1>5, <2>1, <2>2
<1>7. ASSUME NEW l \in Listings, SkipJob(l) \/ SeeRollover(l) \/ StartCompute(l)
      PROVE  Quiet
  <2> DEFINE j == [job[l] EXCEPT !.pc = "verify",
                     !.ps = [job[l].ps EXCEPT !.status = "pending", !.attempts = @ + 1]]
  <2>1. UNCHANGED obs /\ (DropJob(l) \/ job' = [job EXCEPT ![l] = j])
    BY <1>7 DEF SkipJob, SeeRollover, StartCompute, storeVars
  <2>2. j.pc = "verify"
    BY JobFields DEF Job
  <2> HIDE DEF j
  <2> QED
    BY <1>4, <1>5, <2>1, <2>2
<1>8. ASSUME NEW l \in Listings, NEW got \in BOOLEAN,
             \/ KeyMissing(l) \/ PoolLookupFails(l) \/ KeyStale(l)
             \/ CliFails(l, got) \/ CliAnswers(l, got)
      PROVE  Quiet
  <2> DEFINE j == [job[l] EXCEPT !.pc = "store", !.ps = WithEstimate(l, got),
                                 !.slots = CliEntries(PoolOf[l])]
  <2>1. CASE \E ps, status : Fail(l, ps, status)
    BY <1>4, <2>1 DEF Fail
  <2>2. CASE job' = [job EXCEPT ![l] = j] /\ UNCHANGED obs
    <3>1. j.pc = "store"
      BY JobFields DEF Job
    <3> HIDE DEF j
    <3> QED
      BY <1>5, <2>2, <3>1
  <2>3. \/ \E ps, status : Fail(l, ps, status)
        \/ job' = [job EXCEPT ![l] = j] /\ UNCHANGED obs
    <3>1. CASE KeyMissing(l) \/ PoolLookupFails(l) \/ KeyStale(l) \/ CliFails(l, got)
      BY <3>1 DEF KeyMissing, PoolLookupFails, KeyStale, CliFails
    <3>2. CASE CliAnswers(l, got)
      BY <3>2 DEF CliAnswers, storeVars
    <3> QED
      BY <1>8, <3>1, <3>2
  <2> QED
    BY <2>1, <2>2, <2>3
<1> QED
  BY <1>1, <1>2, <1>3, <1>6, <1>7, <1>8 DEF SchedulerNext

\* Rematching goes on with blocks that are the pool's (rematchObserved).
LEMMA RematchOurs ==
    ASSUME UNCHANGED chainVars, NEW l \in Listings, NEW j \in Job, NEW left,
           \A s \in left : Ours(PoolOf[l], s), job'[l] = Rematching(j, left)
    PROVE  JobIsOurs(l)'
<1>1. CASE left = {}
  BY <1>1 DEF Rematching, NoJob, JobIsOurs
<1>2. CASE left # {}
  <2>1. job'[l] = [j EXCEPT !.pc = "classify", !.slots = left, !.hand = 0]
    BY <1>2 DEF Rematching
  <2>2. job'[l].pc = "classify" /\ job'[l].slots = left
    BY <2>1 DEF Job
  <2> QED
    BY <2>2 DEF JobIsOurs, Ours, chainVars
<1> QED
  BY <1>1, <1>2

\* The workers' blocks are the pool's: rematchObserved lists stored ones, and
\* what is classified and settled next is one of them.
LEMMA JobsTrue ==
    ASSUME TruthInv, StoreTypeOK', SchedulerNext
    PROVE  ObservedIsOurs' /\ JobsAreOurs'
<1> USE DEF TruthInv, WholeInv, TypeOK
<1>1. UNCHANGED chainVars
  BY SchedulerSlotWrites
<1>2. ChainGrows
  BY <1>1, SlotsAssumption DEF ChainGrows, chainVars, StoreTypeOK
<1>3. \A m \in Listings : job'[m] = job[m] \/ job'[m].pc \notin {"classify", "settle"} => JobIsOurs(m)'
  <2>1. ASSUME NEW m \in Listings, job'[m] = job[m]
        PROVE  JobIsOurs(m)'
    BY <1>2, <2>1, JobOursFrame DEF SchedulerTrue, JobsAreOurs
  <2>2. ASSUME NEW m \in Listings, job'[m].pc \notin {"classify", "settle"}
        PROVE  JobIsOurs(m)'
    BY <2>2 DEF JobIsOurs
  <2> QED
    BY <2>1, <2>2
<1>4. ASSUME NEW l \in Listings, NEW j, job' = [job EXCEPT ![l] = j], job'[l] = j => JobIsOurs(l)'
      PROVE  JobsAreOurs'
  <2>1. job'[l] = j /\ \A m \in Listings : m # l => job'[m] = job[m]
    BY <1>4 DEF SchedulerTypeOK
  <2> QED
    BY <1>3, <1>4, <2>1 DEF JobsAreOurs
<1>5. ASSUME NEW l \in Listings, StoreSlots(l)
      PROVE  ObservedIsOurs' /\ JobsAreOurs'
  <2>1. ObservedIsOurs'
    BY <1>2, <1>5, ObservedFrame DEF StoreSlots
  <2>2. ASSUME NEW m \in Listings
        PROVE  JobIsOurs(m)'
    <3>1. CASE m = l
      <4>1. job'[m] = [job[m] EXCEPT !.pc = "mark", !.slots = {}]
        BY <1>5, <3>1 DEF StoreSlots
      <4>2. job'[m].pc = "mark"
        BY <4>1, JobFields DEF Job
      <4> QED
        BY <1>3, <4>2
    <3>2. CASE /\ m # l /\ PoolOf[m] = PoolOf[l] /\ job[m].pc = "settle"
               /\ job[m].hand \in job[l].slots
      <4>1. job'[m] = Rematching(job[m], job[m].slots)
        BY <1>5, <3>2 DEF StoreSlots
      <4>2. job[m] \in Job /\ \A s \in job[m].slots : Ours(PoolOf[m], s)
        BY <3>2 DEF SchedulerTrue, JobsAreOurs, JobIsOurs, SchedulerTypeOK
      <4> QED
        BY <1>1, <4>1, <4>2, RematchOurs
    <3>3. CASE /\ m # l
               /\ ~(/\ PoolOf[m] = PoolOf[l] /\ job[m].pc = "settle"
                    /\ job[m].hand \in job[l].slots)
      BY <1>3, <1>5, <3>3 DEF StoreSlots
    <3> QED
      BY <3>1, <3>2, <3>3
  <2> QED
    BY <2>1, <2>2 DEF JobsAreOurs
<1>6. ASSUME NEW l \in Listings, MarkOk(l)
      PROVE  ObservedIsOurs' /\ JobsAreOurs'
  <2> DEFINE left == Unclassified(PoolOf[l], sEpoch)
             j == [job[l] EXCEPT !.ps = [job[l].ps EXCEPT !.status = "ok"]]
  <2>1. job' = [job EXCEPT ![l] = Rematching(j, left)] /\ UNCHANGED obs
    BY <1>6 DEF MarkOk
  <2>2. j \in Job
    BY RowUpdates, JobFields DEF Job, Status
  <2>3. \A s \in left : Ours(PoolOf[l], s)
    BY PoolOfType DEF Unclassified, SlotsOf, ObservedIsOurs
  <2> HIDE DEF left, j
  <2>4. job'[l] = Rematching(j, left) => JobIsOurs(l)'
    BY <1>1, <2>2, <2>3, RematchOurs
  <2> QED
    BY <1>2, <1>4, <2>1, <2>4, ObservedFrame
<1>7. ASSUME NEW l \in Listings, SettleMatched(l)
      PROVE  ObservedIsOurs' /\ JobsAreOurs'
  <2>1. job' = [job EXCEPT ![l] = Rematching(job[l], job[l].slots)] /\ UNCHANGED obs
    BY <1>7 DEF SettleMatched
  <2>2. \A s \in job[l].slots : Ours(PoolOf[l], s)
    BY <1>7 DEF SettleMatched, SchedulerTrue, JobsAreOurs, JobIsOurs
  <2>3. job'[l] = Rematching(job[l], job[l].slots) => JobIsOurs(l)'
    BY <1>1, <2>2, RematchOurs, JobFields
  <2> QED
    BY <1>2, <1>4, <2>1, <2>3, ObservedFrame
<1>8. ASSUME NEW l \in Listings, NEW s \in Slots, Classify(l, s)
      PROVE  ObservedIsOurs' /\ JobsAreOurs'
  <2> DEFINE left == job[l].slots \ {s}
             waits == [job[l] EXCEPT !.pc = "settle", !.slots = left, !.hand = s]
             v == IF Scheduled(PoolOf[l], s) THEN "yes" ELSE "no"
  <2>1. (\A t \in job[l].slots : Ours(PoolOf[l], t)) /\ Ours(PoolOf[l], s)
    BY <1>8 DEF Classify, SchedulerTrue, JobsAreOurs, JobIsOurs
  <2>2. ObservedIsOurs'
    <3>1. SaveObservedBlock(PoolOf[l], s, v)
      BY <1>8 DEF Classify
    <3> HIDE DEF v
    <3> QED
      BY <1>1, <2>1, <3>1, ObservedWrite, PoolOfType
  <2>3. job' = [job EXCEPT ![l] = waits] \/ job' = [job EXCEPT ![l] = Rematching(job[l], left)]
    BY <1>8 DEF Classify
  <2>4. waits.pc = "settle" /\ waits.slots = left /\ waits.hand = s
    BY JobFields DEF Job
  <2> HIDE DEF waits
  <2>5. job'[l] = waits => JobIsOurs(l)'
    BY <1>1, <2>1, <2>4 DEF JobIsOurs, Ours, chainVars
  <2>6. job'[l] = Rematching(job[l], left) => JobIsOurs(l)'
    BY <1>1, <2>1, RematchOurs, JobFields
  <2> HIDE DEF left
  <2> QED
    BY <1>4, <2>2, <2>3, <2>5, <2>6
<1>9. CASE ~\E l \in Listings : \/ StoreSlots(l) \/ MarkOk(l) \/ SettleMatched(l)
                                \/ \E s \in Slots : Classify(l, s)
  BY <1>2, <1>3, <1>9, QuietJobs, ObservedFrame DEF JobsAreOurs
<1> QED
  BY <1>5, <1>6, <1>7, <1>8, <1>9

\* Summaries are written by the backfill, from actuals only, and from the hand
\* of finalizeSummaries, which counts whole schedules.
LEMMA SummariesTrue ==
    ASSUME TruthInv, StoreTypeOK', SchedulerNext
    PROVE  SummariesAreTrue' /\ FinHandIsTrue'
<1> USE DEF TruthInv, WholeInv, TypeOK
<1>1. UNCHANGED chainVars
  BY SchedulerSlotWrites
<1>2. ChainGrows
  BY <1>1, SlotsAssumption DEF ChainGrows, chainVars, StoreTypeOK
<1>3. ASSUME NEW p, NEW e, NEW es, IsTrue(p, e, es)
      PROVE  IsTrue(p, e, es)'
  BY <1>2, <1>3, TrueKept
<1>4. UNCHANGED summ => SummariesAreTrue'
  BY <1>3, Zenon DEF SchedulerTrue, SummariesAreTrue
<1>5. finHand' \subseteq finHand => FinHandIsTrue'
  BY <1>3 DEF SchedulerTrue, FinHandIsTrue
<1>6. ASSUME NEW p \in Pools, NEW e \in Epochs, NEW es, SaveEpochSummary(p, e, es), IsTrue(p, e, es)
      PROVE  SummariesAreTrue'
  <2>1. \A q \in Pools, f \in Epochs :
          summ'[q][f] = IF q = p /\ f = e THEN es ELSE summ[q][f]
    BY <1>6 DEF SaveEpochSummary, StoreTypeOK
  <2>2. ASSUME NEW q \in Pools, NEW f \in Epochs
        PROVE  IsTrue(q, f, summ[q][f])'
    <3>1. \A x : IsTrue(q, f, x) => IsTrue(q, f, x)'
      BY <1>3
    <3>2. CASE q = p /\ f = e
      <4>1. IsTrue(q, f, es)
        BY <1>6, <3>2
      <4>2. summ'[q][f] = es
        BY <2>1, <3>2
      <4> QED
        BY <3>1, <4>1, <4>2 DEF IsTrue
    <3>3. CASE ~(q = p /\ f = e)
      <4>1. IsTrue(q, f, summ[q][f])
        BY DEF SchedulerTrue, SummariesAreTrue
      <4>2. summ'[q][f] = summ[q][f]
        BY <2>1, <3>3
      <4> QED
        BY <3>1, <4>1, <4>2 DEF IsTrue
    <3> QED
      BY <3>2, <3>3
  <2> QED
    BY <2>2 DEF SummariesAreTrue
<1>7. ASSUME NEW l \in Listings, NEW e \in Epochs, BackfillSave(l, e)
      PROVE  SummariesAreTrue' /\ FinHandIsTrue'
  <2> DEFINE es == [NoSummary EXCEPT !.exists = TRUE, !.actualsOnly = TRUE, !.finalized = TRUE,
                       !.produced = Cardinality(MintedBy(PoolOf[l], e))]
  <2>1. SaveEpochSummary(PoolOf[l], e, es) /\ UNCHANGED finHand
    BY <1>7 DEF BackfillSave, finVars
  <2>2. es.actualsOnly
    BY DEF NoSummary
  <2> HIDE DEF es
  <2>3. IsTrue(PoolOf[l], e, es)
    BY <2>2 DEF IsTrue
  <2> QED
    BY <1>5, <1>6, <2>1, <2>3, PoolOfType
<1>8. ASSUME NEW r \in finRows, FinCount(r)
      PROVE  SummariesAreTrue' /\ FinHandIsTrue'
  <2> DEFINE status == IF r.epoch < sEpoch /\ r.ps.status = "pending" THEN "expired" ELSE r.ps.status
             h == [pool |-> r.pool, epoch |-> r.epoch, es |-> Summarise(r.pool, r.epoch, status)]
  <2>1. finHand' = {h} /\ UNCHANGED summ
    BY <1>8 DEF FinCount
  <2>2. r.pool \in Pools /\ r.epoch \in Epochs
    BY DEF SchedulerTypeOK, FinRow
  <2>3. status = "ok" => Whole(r.pool, r.epoch)
    BY DEF SchedulerWhole, FinRowsAreWhole
  <2> HIDE DEF status
  <2>4. IsTrue(r.pool, r.epoch, Summarise(r.pool, r.epoch, status))
    BY <2>2, <2>3, SummariseTrue
  <2> DEFINE es == Summarise(r.pool, r.epoch, status)
  <2>5. h.pool = r.pool /\ h.epoch = r.epoch /\ h.es = es
    OBVIOUS
  <2> HIDE DEF h, es
  <2>6. IsTrue(h.pool, h.epoch, h.es)
    BY <2>4, <2>5 DEF es
  <2>7. FinHandIsTrue'
    BY <1>3, <2>1, <2>6 DEF FinHandIsTrue
  <2> QED
    BY <1>4, <2>1, <2>7
<1>9. CASE FinSave
  <2>1. PICK h \in finHand : SaveEpochSummary(h.pool, h.epoch, h.es)
    BY <1>9 DEF FinSave
  <2>2. h.pool \in Pools /\ h.epoch \in Epochs /\ IsTrue(h.pool, h.epoch, h.es)
    BY DEF SchedulerTypeOK, FinHand, SchedulerTrue, FinHandIsTrue
  <2>3. FinHandIsTrue'
    BY <1>9 DEF FinSave, FinHandIsTrue
  <2> QED
    BY <1>6, <2>1, <2>2, <2>3
<1>10. UNCHANGED <<summ, finHand>> => SummariesAreTrue' /\ FinHandIsTrue'
  BY <1>4, <1>5
<1>11. CASE SchedulerTick \/ AbortPass \/ FinScan \/ \E e \in Epochs : FinEpoch(e)
  BY <1>10, <1>11 DEF SchedulerTick, AbortPass, FinScan, FinEpoch, storeVars, finVars
<1>12. ASSUME NEW l \in Listings, Seed(l) \/ PlanPool(l) \/ SkipJob(l) \/ SeeRollover(l) \/ StartCompute(l)
       PROVE  SummariesAreTrue' /\ FinHandIsTrue'
  BY <1>10, <1>12 DEF Seed, PlanPool, SkipJob, SeeRollover, StartCompute, storeVars,
     workUnchanged, finVars
<1>13. ASSUME NEW l \in Listings, NEW got \in BOOLEAN,
              \/ KeyMissing(l) \/ PoolLookupFails(l) \/ KeyStale(l)
              \/ CliFails(l, got) \/ CliAnswers(l, got)
       PROVE  SummariesAreTrue' /\ FinHandIsTrue'
  <2>1. UNCHANGED <<summ, finHand>>
    BY <1>13 DEF KeyMissing, PoolLookupFails, KeyStale, CliFails, CliAnswers, Fail, storeVars,
       workUnchanged, finVars
  <2> QED
    BY <1>10, <2>1
<1>14. ASSUME NEW l \in Listings, \/ StoreSlots(l) \/ MarkOk(l) \/ SettleMatched(l)
                                  \/ \E s \in Slots : Classify(l, s)
       PROVE  SummariesAreTrue' /\ FinHandIsTrue'
  BY <1>10, <1>14 DEF StoreSlots, MarkOk, SettleMatched, Classify, workUnchanged, finVars
<1> QED
  BY <1>7, <1>8, <1>9, <1>11, <1>12, <1>13, <1>14 DEF SchedulerNext

\* A listing that loses a block, or goes on to its next page, keeps only blocks
\* it had.
LEMMA AfterBlockOurs ==
    ASSUME NEW g \in Listing, \A s \in g.hashes : Ours(g.pool, s)
    PROVE  \A f \in AfterBlock(g) : \A s \in f.hashes : Ours(f.pool, s)
<1>1. CASE g.hashes # {}
  BY <1>1 DEF AfterBlock
<1>2. CASE g.hashes = {}
  <2>1. [g EXCEPT !.page = g.page + 1].hashes = {}
    BY <1>2 DEF Listing
  <2>2. \A f \in AfterBlock(g) : f.hashes = {}
    BY <1>2, <2>1 DEF AfterBlock
  <2> QED
    BY <2>2
<1> QED
  BY <1>1, <1>2

\* What the indexer lists is on the chain behind the tip, and it is recorded as
\* it was listed (ingestPoolBlocks, ingestBlock).
LEMMA ReconcilerStepTrue ==
    ASSUME TruthInv, StoreTypeOK', ReconcilerNext
    PROVE  ObservedIsOurs' /\ ReconcilerTrue'
<1> USE DEF TruthInv, WholeInv, TypeOK
<1>1. UNCHANGED chainVars
  BY ReconcilerReadsChain
<1>2. ChainGrows
  BY <1>1, SlotsAssumption DEF ChainGrows, chainVars, StoreTypeOK
<1>3. UNCHANGED obs => ObservedIsOurs'
  BY <1>2, ObservedFrame
<1>4. UNCHANGED <<listing, hand>> => ReconcilerTrue'
  BY <1>2, ReconcilerTrueFrame
<1>5. listing' = {} /\ hand' = {} => ReconcilerTrue'
  BY DEF ReconcilerTrue, ListingIsOurs, HandIsOurs
<1>6. \A p, s : Ours(p, s)' <=> Ours(p, s)
  BY <1>1 DEF Ours, chainVars
<1>7. ASSUME NEW g \in Listing, listing' = AfterBlock(g), \A s \in g.hashes : Ours(g.pool, s),
             hand' \subseteq hand
      PROVE  ReconcilerTrue'
  BY <1>6, <1>7, AfterBlockOurs DEF ReconcilerTrue, ListingIsOurs, HandIsOurs
<1>8. CASE ReconcileTick \/ QuitTick \/ LatestFails \/ SettleStart
  BY <1>3, <1>4, <1>5, <1>8 DEF ReconcileTick, QuitTick, LatestFails, SettleStart, EndTick, storeVars
<1>9. ASSUME NEW p \in Pools, NEW e \in Epochs, NEW n \in 1..NSlots, ListFails(p, e, n)
      PROVE  ObservedIsOurs' /\ ReconcilerTrue'
  <2>1. UNCHANGED <<obs, hand>> /\ listing' = {}
    BY <1>9 DEF ListFails, ingestUnchanged
  <2> QED
    BY <1>3, <1>6, <2>1 DEF ReconcilerTrue, ListingIsOurs, HandIsOurs
<1>10. ASSUME NEW p \in Pools, NEW e \in Epochs, NEW n \in 1..NSlots, ListPage(p, e, n)
       PROVE  ObservedIsOurs' /\ ReconcilerTrue'
  <2> DEFINE page == Page(p, e, n)
             g == [pool |-> p, epoch |-> e, page |-> n,
                   full |-> Cardinality(page) = PageSize, new |-> FALSE,
                   hashes |-> { s \in page : obs[p][s] = "none" }]
  <2>1. page \subseteq Slots /\ \A s \in page : s <= bfTip /\ chain[s] = p
    BY DEF Page, MintedBy, SlotsOf
  <2>2. \A s \in page : Ours(p, s)
    BY <2>1, SlotsAssumption DEF Ours, MissInv, MissesAreDeep, StoreTypeOK, Slots
  <2>3. n \in Nat /\ (Cardinality(page) = PageSize) \in BOOLEAN
    BY SlotsAssumption
  <2>4. listing' = AfterBlock(g) /\ UNCHANGED <<obs, hand>>
    BY <1>10, Zenon DEF ListPage, ingestUnchanged
  <2> HIDE DEF page
  <2>5. g \in Listing /\ \A s \in g.hashes : Ours(g.pool, s)
    BY <2>1, <2>2, <2>3 DEF Listing
  <2> HIDE DEF g
  <2> QED
    BY <1>3, <1>7, <2>4, <2>5
<1>11. ASSUME NEW g \in listing, NEW s \in g.hashes, BlockFails(g, s)
       PROVE  ObservedIsOurs' /\ ReconcilerTrue'
  <2> DEFINE f == [g EXCEPT !.hashes = @ \ {s}]
  <2>1. g \in Listing /\ f \in Listing
    BY DropHash DEF ReconcilerTypeOK
  <2>2. f.hashes \subseteq g.hashes /\ f.pool = g.pool
    BY <2>1 DEF Listing
  <2>3. listing' = AfterBlock(f) /\ UNCHANGED <<obs, hand>>
    BY <1>11 DEF BlockFails, ingestUnchanged
  <2> HIDE DEF f
  <2> QED
    BY <1>3, <1>7, <2>1, <2>2, <2>3 DEF ReconcilerTrue, ListingIsOurs
<1>12. ASSUME NEW g \in listing, NEW s \in g.hashes, FetchBlock(g, s)
       PROVE  ObservedIsOurs' /\ ReconcilerTrue'
  <2>1. UNCHANGED <<obs, listing>> /\ hand' = {[pool |-> g.pool, slot |-> s, verdict |-> "null"]}
    BY <1>12 DEF FetchBlock, ingestUnchanged
  <2>2. Ours(g.pool, s)
    BY DEF ReconcilerTrue, ListingIsOurs
  <2> QED
    BY <1>3, <1>6, <2>1, <2>2 DEF ReconcilerTrue, ListingIsOurs, HandIsOurs
<1>13. ASSUME NEW h \in hand, FindSlot(h)
       PROVE  ObservedIsOurs' /\ ReconcilerTrue'
  <2> DEFINE x == [h EXCEPT !.verdict = IF Scheduled(h.pool, h.slot) THEN "yes" ELSE "no"]
  <2>1. UNCHANGED <<obs, listing>> /\ hand' = {x}
    BY <1>13 DEF FindSlot, ingestUnchanged
  <2>2. x.pool = h.pool /\ x.slot = h.slot
    BY DEF ReconcilerTypeOK, Hand
  <2> HIDE DEF x
  <2> QED
    BY <1>3, <1>6, <2>1, <2>2 DEF ReconcilerTrue, ListingIsOurs, HandIsOurs
<1>14. ASSUME NEW h \in hand, MarkProduced(h)
       PROVE  ObservedIsOurs' /\ ReconcilerTrue'
  BY <1>3, <1>4, <1>14 DEF MarkProduced
<1>15. ASSUME NEW g \in listing, NEW h \in hand, RecordBlock(g, h)
       PROVE  ObservedIsOurs' /\ ReconcilerTrue'
  <2> DEFINE f == [g EXCEPT !.hashes = @ \ {h.slot}, !.new = TRUE]
  <2>1. g \in Listing /\ f \in Listing
    BY DropHash DEF ReconcilerTypeOK
  <2>2. f.hashes \subseteq g.hashes /\ f.pool = g.pool
    BY <2>1 DEF Listing
  <2>3. listing' = AfterBlock(f) /\ hand' = {}
    BY <1>15 DEF RecordBlock
  <2> HIDE DEF f
  <2>4. ReconcilerTrue'
    BY <1>7, <2>1, <2>2, <2>3 DEF ReconcilerTrue, ListingIsOurs
  <2>5. h.pool \in Pools /\ h.slot \in Slots /\ Ours(h.pool, h.slot)
    BY DEF ReconcilerTypeOK, Hand, ReconcilerTrue, HandIsOurs
  <2>6. ObservedIsOurs'
    BY <1>1, <1>15, <2>5, ObservedWrite DEF RecordBlock
  <2> QED
    BY <2>4, <2>6
<1>16. CASE (\E p \in Pools, got \in SUBSET Fillable : EstimateRead(p, got)) \/ (\E x \in estHand : EstimateSave(x))
  BY <1>3, <1>4, <1>16 DEF EstimateRead, EstimateSave, storeVars
<1>17. ASSUME NEW k \in due, LookupFails(k) \/ SettleSlot(k)
       PROVE  ObservedIsOurs' /\ ReconcilerTrue'
  BY <1>3, <1>4, <1>5, <1>17 DEF LookupFails, SettleSlot, SlotDone, EndTick
<1> QED
  BY <1>8, <1>9, <1>10, <1>11, <1>12, <1>13, <1>14, <1>15, <1>16, <1>17 DEF ReconcilerNext

\* In an empty database nothing is produced, stored or finalized.
LEMMA TruthInit == Init => TruthInv
<1> SUFFICES ASSUME Init
             PROVE  ProducedIsOurs /\ ObservedIsOurs /\ SchedulerTrue /\ ReconcilerTrue
  BY WholeInit, MissInit DEF TruthInv
<1> USE DEF Init, StoreInit, SchedulerInit, SchedulerIdle, ReconcilerIdle
<1>1. ProducedIsOurs /\ ObservedIsOurs
  BY DEF ProducedIsOurs, ObservedIsOurs
<1>2. JobsAreOurs
  BY DEF JobsAreOurs, JobIsOurs, NoJob
<1>3. ~NoSummary.finalized
  BY DEF NoSummary
<1>4. SummariesAreTrue
  BY <1>3 DEF SummariesAreTrue, IsTrue
<1>5. FinHandIsTrue
  BY DEF FinHandIsTrue
<1>6. ReconcilerTrue
  BY DEF ReconcilerTrue, ListingIsOurs, HandIsOurs
<1> QED
  BY <1>1, <1>2, <1>4, <1>5, <1>6 DEF SchedulerTrue

\* Every step of the daemon and its environment keeps the invariant.
LEMMA TruthNext ==
    ASSUME LeadsOnward, NoSwitches, TruthInv, [Next]_vars
    PROVE  TruthInv' /\ ChainGrows /\ SlotStep
<1> USE DEF TruthInv
<1>1. WholeInv' /\ MissInv' /\ TypeOK /\ StoreTypeOK /\ StoreTypeOK'
  BY WholeNextStep, MissNext DEF WholeInv, TypeOK
<1>2. /\ ChainGrows
      /\ UNCHANGED chainVars \/ UNCHANGED <<row, slotSt, obs, summ, schedVars, reconVars>>
  BY <1>1, ChainStep
<1>3. SlotStep /\ ProducedIsOurs'
  BY <1>1, <1>2, SlotStepOf, ProducedStep
<1>4. SchedulerTypeOK /\ ReconcilerTypeOK /\ SchedulerWhole
  BY <1>1 DEF TypeOK, WholeInv
<1>5. UNCHANGED <<summ, job, finHand>> => SchedulerTrue'
  BY <1>1, <1>2, <1>4, SchedulerTrueFrame
<1>6. UNCHANGED <<listing, hand>> => ReconcilerTrue'
  BY <1>1, <1>2, <1>4, ReconcilerTrueFrame
<1>7. UNCHANGED obs => ObservedIsOurs'
  BY <1>1, <1>2, ObservedFrame
<1>8. CASE SchedulerStep
  BY <1>1, <1>2, <1>3, <1>6, <1>8, JobsTrue, SummariesTrue DEF SchedulerStep, SchedulerTrue, reconVars
<1>9. CASE ReconcilerStep
  BY <1>1, <1>2, <1>3, <1>5, <1>9, ReconcilerStepTrue, ReconcilerReadsChain
     DEF ReconcilerStep, schedVars, finVars
<1>10. CASE EnvStep \/ Shutdown \/ Restart \/ UNCHANGED vars
  <2>1. UNCHANGED <<obs, summ, job, finHand, listing, hand>>
    BY <1>10 DEF EnvStep, EnvNext, Mint, BfIndex, Reorg, Shutdown, Restart, vars, storeVars,
       schedVars, finVars, reconVars
  <2> QED
    BY <1>1, <1>2, <1>3, <1>5, <1>6, <1>7, <2>1
<1>11. CASE Crash
  <2>1. JobsAreOurs'
    BY <1>11 DEF Crash, SchedulerLost, JobsAreOurs, JobIsOurs, NoJob
  <2>2. SummariesAreTrue' /\ FinHandIsTrue'
    <3>1. UNCHANGED <<summ, chainVars>> /\ finHand' = {}
      BY <1>11 DEF Crash, SchedulerLost
    <3> QED
      BY <3>1 DEF SchedulerTrue, SummariesAreTrue, FinHandIsTrue, IsTrue, chainVars
  <2>3. ReconcilerTrue'
    BY <1>11 DEF Crash, EndTick, ReconcilerTrue, ListingIsOurs, HandIsOurs
  <2> QED
    BY <1>1, <1>2, <1>3, <1>7, <1>11, <2>1, <2>2, <2>3 DEF Crash, SchedulerTrue
<1> QED
  BY <1>8, <1>9, <1>10, <1>11 DEF Next

\* ------------------------------------------------------------------- theorems

\* Without chain switches, a summary finalized from a schedule is the truth about
\* its epoch: all the pool's slots, split into those it minted in and those it did
\* not, although finalizeSummaries works on a copy of the rows while the slots
\* are stored and settled by other goroutines, and the process may die at any step.
THEOREM SummariesAreFacts ==
    ASSUME LeadsOnward, NoSwitches
    PROVE  Spec => []FinalizedIsTrue
<1>1. TruthInv /\ [Next]_vars => TruthInv'
  BY TruthNext
<1>2. TruthInv => FinalizedIsTrue
  BY DEF TruthInv, SchedulerTrue, SummariesAreTrue, IsTrue, FinalizedIsTrue
<1> QED
  BY <1>1, <1>2, TruthInit, PTL DEF Spec

\* What a step does to the slots takes no settled slot back: a recompute keeps
\* it, and a copy saved late agrees with it.
LEMMA SettledStep ==
    ASSUME TruthInv, SlotStep, NEW p \in Pools, NEW s \in Slots,
           slotSt[p][s] \in {"produced", "missed"}
    PROVE  slotSt'[p][s] = slotSt[p][s]
<1> USE DEF TruthInv, WholeInv, TypeOK
<1>1. CASE UNCHANGED slotSt
  BY <1>1
<1>2. ASSUME NEW q \in Pools, NEW e \in Epochs, ReplaceScheduledSlots(q, e, Leader[q] \cap SlotsOf(e))
      PROVE  slotSt'[p][s] = slotSt[p][s]
  BY <1>2 DEF ReplaceScheduledSlots, StoreTypeOK, TablesWhole, SlotsAreLed, Scheduled, SlotsOf
<1>3. ASSUME NEW q \in Pools, NEW t \in Slots, NEW v \in {"produced", "missed"}, Settles(q, t, v)
      PROVE  slotSt'[p][s] = slotSt[p][s]
  <2>1. slotSt'[p][s] = IF p = q /\ s = t THEN v ELSE slotSt[p][s]
    BY <1>3 DEF Settles, StoreTypeOK
  <2>2. slotSt[p][s] = "produced" => chain[s] = p
    BY DEF ProducedIsOurs, Ours
  <2>3. slotSt[p][s] = "missed" => chain[s] # p
    BY DEF MissInv, MissesAreDeep
  <2> QED
    BY <1>3, <2>1, <2>2, <2>3 DEF Settles, Ours
<1> QED
  BY <1>1, <1>2, <1>3 DEF SlotStep

\* Without chain switches a slot that has settled never changes nor disappears,
\* whatever recompute, rematch, ingestion, settlement, shutdown or crash follows.
THEOREM SettledForGood ==
    ASSUME LeadsOnward, NoSwitches
    PROVE  Spec => SettledStays
<1>1. TruthInv /\ [Next]_vars => TruthInv'
  BY TruthNext
<1>2. TruthInv /\ [Next]_vars =>
        [\A p \in Pools, s \in Slots :
           slotSt[p][s] \in {"produced", "missed"} => slotSt'[p][s] = slotSt[p][s]]_vars
  BY TruthNext, SettledStep
<1> QED
  BY <1>1, <1>2, TruthInit, PTL DEF Spec, SettledStays

\* The empty database is the empty ledger.
LEMMA LedgerInit == Init => Ledger!Init
  BY DEF Init, StoreInit, Ledger!Init, Ledger!Slots, Slots

\* A step that stores a schedule enters it in the ledger, or finds it entered.
LEMMA LedgerEnters ==
    ASSUME TruthInv, UNCHANGED chainVars, NEW p \in Pools, NEW e \in Epochs,
           ReplaceScheduledSlots(p, e, Leader[p] \cap SlotsOf(e))
    PROVE  Ledger!Enter(p, e) \/ UNCHANGED slotSt
<1> USE DEF TruthInv, WholeInv, TypeOK
<1> USE LeaderAssumption
<1>1. /\ slotSt \in [Pools -> [Slots -> SlotState]] /\ slotSt' \in [Pools -> [Slots -> SlotState]]
      /\ UNCHANGED <<chain, tip>>
  BY ReplaceTypes DEF StoreTypeOK, chainVars
<1>2. \A q \in Pools, s \in Slots :
        slotSt'[q][s] = IF q # p \/ EpochOf[s] # e THEN slotSt[q][s]
                        ELSE IF s \notin Leader[p] THEN "none"
                        ELSE IF slotSt[q][s] \in {"produced", "missed"} THEN slotSt[q][s]
                        ELSE "pending"
  BY DEF ReplaceScheduledSlots, StoreTypeOK, SlotsOf
<1>3. \A s \in Slots : slotSt[p][s] # "none" => s \in Leader[p]
  BY DEF TablesWhole, SlotsAreLed, Scheduled
<1>4. CASE Whole(p, e)
  <2>1. \A q \in Pools, s \in Slots : slotSt'[q][s] = slotSt[q][s]
    BY <1>1, <1>2, <1>3, <1>4 DEF Whole, Scheduled, SlotState
  <2>2. \A q \in Pools : slotSt'[q] = slotSt[q]
    BY <1>1, <2>1
  <2> QED
    BY <1>1, <2>2
<1>5. CASE Absent(p, e)
  <2> DEFINE led == { s \in Leader[p] : EpochOf[s] = e }
             new == [s \in Slots |-> IF s \in led THEN "pending" ELSE slotSt[p][s]]
  <2>1. \A s \in led : slotSt[p][s] = "none"
    BY <1>5 DEF Absent, Scheduled
  <2>2. \A s \in Slots : slotSt'[p][s] = new[s]
    BY <1>2, <1>5 DEF Absent, Scheduled
  <2>3. slotSt'[p] = new
    BY <1>1, <2>2
  <2>4. \A q \in Pools : q # p => slotSt'[q] = slotSt[q]
    BY DEF ReplaceScheduledSlots, StoreTypeOK
  <2> HIDE DEF new
  <2>5. slotSt' = [slotSt EXCEPT ![p] = new]
    BY <1>1, <2>3, <2>4
  <2> QED
    BY <1>1, <2>1, <2>5 DEF new, Ledger!Enter, Ledger!Slots, Slots
<1> QED
  BY <1>4, <1>5 DEF TablesWhole, SlotsAreLed

\* A step that settles a slot settles a pending one in the ledger, truthfully, or
\* finds it settled as it is.
LEMMA LedgerSettles ==
    ASSUME TruthInv, UNCHANGED chainVars, NEW p \in Pools, NEW s \in Slots,
           NEW v \in {"produced", "missed"}, Settles(p, s, v)
    PROVE  Ledger!Produce(p, s) \/ Ledger!Miss(p, s) \/ UNCHANGED slotSt
<1> USE DEF TruthInv, WholeInv, TypeOK
<1>1. slotSt[p][s] \in {"pending", "produced", "missed"}
  BY DEF Settles, Scheduled, StoreTypeOK, SlotState
<1>2. CASE slotSt[p][s] = "pending"
  BY <1>2 DEF Settles, Ours, chainVars, Ledger!Produce, Ledger!Miss
<1>3. CASE slotSt[p][s] \in {"produced", "missed"}
  <2>1. slotSt[p][s] = v
    BY <1>3 DEF Settles, Ours, ProducedIsOurs, MissInv, MissesAreDeep
  <2>2. slotSt' = [slotSt EXCEPT ![p][s] = slotSt[p][s]]
    BY <2>1 DEF Settles
  <2>3. [slotSt EXCEPT ![p][s] = slotSt[p][s]] = slotSt
    BY DEF StoreTypeOK
  <2> QED
    BY <2>2, <2>3
<1> QED
  BY <1>1, <1>2, <1>3

\* Every step of the daemon is a step of the ledger, or leaves it alone.
LEMMA LedgerSteps ==
    ASSUME LeadsOnward, NoSwitches, TruthInv, [Next]_vars
    PROVE  [Ledger!Next]_(Ledger!lvars)
<1>1. ChainGrows /\ SlotStep /\ StoreTypeOK /\ StoreTypeOK'
  BY TruthNext DEF TruthInv, WholeInv, TypeOK
<1>2. CASE UNCHANGED chainVars
  <2>1. UNCHANGED <<chain, tip>>
    BY <1>2 DEF chainVars
  <2>2. CASE UNCHANGED slotSt
    BY <2>1, <2>2 DEF Ledger!lvars
  <2>3. ASSUME NEW p \in Pools, NEW e \in Epochs,
               ReplaceScheduledSlots(p, e, Leader[p] \cap SlotsOf(e))
        PROVE  [Ledger!Next]_(Ledger!lvars)
    BY <1>2, <2>1, <2>3, LedgerEnters DEF Ledger!Next, Ledger!lvars
  <2>4. ASSUME NEW p \in Pools, NEW s \in Slots, NEW v \in {"produced", "missed"}, Settles(p, s, v)
        PROVE  [Ledger!Next]_(Ledger!lvars)
    BY <1>2, <2>1, <2>4, LedgerSettles DEF Ledger!Next, Ledger!lvars, Ledger!Slots, Slots
  <2> QED
    BY <1>1, <2>2, <2>3, <2>4 DEF SlotStep
<1>3. CASE ~UNCHANGED chainVars
  <2>1. UNCHANGED slotSt
    BY <1>1, <1>3 DEF SlotStep
  <2>2. CASE UNCHANGED <<chain, tip>>
    BY <2>1, <2>2 DEF Ledger!lvars
  <2>3. CASE tip' # tip
    <3>1. tip' \in (tip + 1)..NSlots
      BY <1>1, <2>3, SlotsAssumption DEF ChainGrows, StoreTypeOK
    <3> QED
      BY <1>1, <2>1, <3>1 DEF ChainGrows, StoreTypeOK, Ledger!Next, Ledger!Grow, Ledger!Slots, Slots
  <2> QED
    BY <1>1, <2>2, <2>3 DEF ChainGrows
<1> QED
  BY <1>2, <1>3

\* Without chain switches the daemon implements the ledger: its slot table enters
\* whole schedules, each once, and settles each slot once and truthfully, through
\* every interleaving of recompute, rematch, ingestion and settlement and every
\* shutdown and crash.
THEOREM DaemonIsLedger ==
    ASSUME LeadsOnward, NoSwitches
    PROVE  Spec => LedgerSpec
<1>1. TruthInv /\ [Next]_vars => TruthInv'
  BY TruthNext
<1>2. TruthInv /\ [Next]_vars => [Ledger!Next]_(Ledger!lvars)
  BY LedgerSteps
<1> QED
  BY <1>1, <1>2, TruthInit, LedgerInit, PTL DEF Spec, LedgerSpec, Ledger!Spec
=============================================================================
