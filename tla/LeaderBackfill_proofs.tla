----------------------- MODULE LeaderBackfill_proofs -----------------------
(***************************************************************************)
(* The backfill of a pool's history comes before the first summary the     *)
(* scheduler makes for the pool, so that the HasAnySummary gate never      *)
(* closes on a pool whose history was not seeded.                          *)
(***************************************************************************)
EXTENDS LeaderLog_proofs

\* What the proof assumes of the indexer and the process: the history calls
\* succeed, the indexer knows of an epoch that the node has entered, and a crash
\* cannot fall between two saves of one backfill.
HistoryIsServed ==
    /\ "history" \notin Faults /\ "lag" \notin Faults
    /\ "crash" \notin Faults \/ BackfillEpochs <= 1

Tracked(p, e) == row[p][e].status # "none"

\* By epoch f the pool has a tracked epoch, or was seeded when first seen.
Begun(p, f) ==
    \/ \E e \in Epochs : e < f /\ Tracked(p, e)
    \/ \E g \in Epochs : g <= f /\ SeededAt(p, g)

\* ... or f is the first epoch of all, before which there is nothing to seed.
Primed(p, f) == (\A e \in Epochs : ~(e < f)) \/ Begun(p, f)

\* The epoch the scheduler works on; between two ticks, the node's.
Now == IF sPc = "idle" THEN EpochOf[tip] ELSE sEpoch

\* No row is created before its pool was seeded.
RowsPrimed == \A p \in Pools, f \in Epochs : Tracked(p, f) => f <= Now /\ Primed(p, f)

\* The pool whose backfill is under way may have a part of its summaries.
HalfSeeded(p) == BackfillEpochs > 1 /\ \E l \in cur : PoolOf[l] = p

\* The HasAnySummary gate closes only on a pool that was seeded.
SummariesPrimed ==
    \A p \in Pools, e \in Epochs :
        summ[p][e].exists /\ ~HalfSeeded(p) => Tracked(p, e) \/ Begun(p, Now)

\* A backfill under way: each epoch is saved or still to be saved; where only
\* one is to be saved, none is saved before it.
SeedingIsSound ==
    \A l \in cur :
        /\ sPc = "plan" /\ cur = {l}
        /\ \E e \in Epochs : e < sEpoch
        /\ \/ \E e \in Epochs : e < sEpoch /\ Tracked(PoolOf[l], e)
           \/ \A e \in Epochs : e < sEpoch /\ sEpoch <= e + BackfillEpochs =>
                                  summ[PoolOf[l]][e].exists \/ e \in backfill
        /\ BackfillEpochs <= 1 /\ backfill # {} =>
             /\ ~HasAnySummary(PoolOf[l])
             /\ \A e, f \in backfill : e = f

\* A job that a worker takes is for a pool that was seeded, and has its row
\* from the moment it is taken.
JobIsPrimed(l) ==
    /\ job[l].pc # "none" => sPc \in {"plan", "work"} /\ (ctxDone \/ Primed(PoolOf[l], sEpoch))
    /\ job[l].pc \notin {"none", "queued"} => Tracked(PoolOf[l], sEpoch)
JobsArePrimed == \A l \in Listings : JobIsPrimed(l)

\* The copies that a loop may write back are copies of rows that exist.
CopiesAreTracked ==
    /\ \A r \in finRows : Tracked(r.pool, r.epoch)
    /\ \A h \in finHand : h.es.exists /\ Tracked(h.pool, h.epoch)
    /\ \A x \in estHand : Tracked(x.pool, rEpoch)

IndexerKeepsUp == bfTip = tip

BackfillInv ==
    /\ BudgetInv /\ IndexerKeepsUp
    /\ RowsPrimed /\ SummariesPrimed /\ SeedingIsSound
    /\ JobsArePrimed /\ CopiesAreTracked

\* -------------------------------------------------------------- what is kept

\* No step takes a row or a summary away.
TablesGrow ==
    \A p \in Pools, e \in Epochs :
        /\ Tracked(p, e) => Tracked(p, e)'
        /\ summ[p][e].exists => (summ[p][e].exists)'

\* The numbers of the instance, as the provers need them.
LEMMA EpochFacts ==
    ASSUME BudgetInv
    PROVE  /\ Epochs \subseteq Nat /\ BackfillEpochs \in Nat
           /\ sEpoch \in Epochs /\ sEpoch \in Nat /\ EpochOf[tip] \in Nat
           /\ sEpoch <= EpochOf[tip] /\ sEpoch <= Now /\ Now <= EpochOf[tip] /\ Now \in Nat
<1>1. Epochs \subseteq Nat /\ BackfillEpochs \in Nat /\ \A s \in 0..NSlots : EpochOf[s] \in Epochs
  BY EpochsAssumption, SettingsAssumption
<1>2. sEpoch \in Epochs /\ tip \in 0..NSlots /\ sEpoch <= EpochOf[tip]
  BY DEF BudgetInv, TypeOK, StoreTypeOK, SchedulerTypeOK, PassIsSound, EpochIsSeen
<1>3. sEpoch \in Nat /\ EpochOf[tip] \in Nat
  BY <1>1, <1>2
<1> QED
  BY <1>1, <1>2, <1>3 DEF Now

\* What was seeded stays seeded.
LEMMA SeededKept ==
    ASSUME TablesGrow, NEW p \in Pools, NEW g \in Epochs, SeededAt(p, g)
    PROVE  SeededAt(p, g)'
  BY DEF TablesGrow, SeededAt

\* What had begun by an epoch has begun by a later one, and stays so.
LEMMA BegunKept ==
    ASSUME TablesGrow, Epochs \subseteq Nat, NEW p \in Pools, NEW f \in Nat, NEW g \in Nat,
           f <= g, Begun(p, f)
    PROVE  Begun(p, g) /\ Begun(p, f)' /\ Begun(p, g)'
<1>1. CASE \E e \in Epochs : e < f /\ Tracked(p, e)
  <2>1. PICK e \in Epochs : e < f /\ Tracked(p, e)
    BY <1>1
  <2>2. e < g /\ Tracked(p, e)'
    BY <2>1 DEF TablesGrow
  <2> QED
    BY <2>1, <2>2 DEF Begun
<1>2. CASE \E k \in Epochs : k <= f /\ SeededAt(p, k)
  <2>1. PICK k \in Epochs : k <= f /\ SeededAt(p, k)
    BY <1>2
  <2>2. k <= g /\ SeededAt(p, k)'
    BY <2>1, SeededKept
  <2> QED
    BY <2>1, <2>2 DEF Begun
<1> QED
  BY <1>1, <1>2 DEF Begun

\* What was primed stays primed.
LEMMA PrimedKept ==
    ASSUME TablesGrow, Epochs \subseteq Nat, NEW p \in Pools, NEW f \in Nat, Primed(p, f)
    PROVE  Primed(p, f)'
<1>1. CASE \A e \in Epochs : ~(e < f)
  BY <1>1 DEF Primed
<1>2. CASE Begun(p, f)
  BY <1>2, BegunKept DEF Primed
<1> QED
  BY <1>1, <1>2 DEF Primed

\* The rows stay primed if the only row that is new is one of a primed epoch.
LEMMA RowsStep ==
    ASSUME BackfillInv, TablesGrow, Now' \in Nat, Now <= Now',
           \A p \in Pools, f \in Epochs :
               Tracked(p, f)' => Tracked(p, f) \/ (f <= Now' /\ Primed(p, f))
    PROVE  RowsPrimed'
<1> SUFFICES ASSUME NEW p \in Pools, NEW f \in Epochs, Tracked(p, f)'
             PROVE  f <= Now' /\ Primed(p, f)'
  BY DEF RowsPrimed
<1>1. Epochs \subseteq Nat /\ f \in Nat /\ Now \in Nat
  BY EpochFacts DEF BackfillInv
<1>2. f <= Now' /\ Primed(p, f)
  BY <1>1 DEF BackfillInv, RowsPrimed
<1> QED
  BY <1>1, <1>2, PrimedKept

\* The summaries stay primed if each new one is of a tracked epoch, and no
\* backfill ended.
LEMMA SummariesStep ==
    ASSUME BackfillInv, TablesGrow, Now' \in Nat, Now <= Now',
           \A p \in Pools : HalfSeeded(p) => HalfSeeded(p)',
           \A p \in Pools, e \in Epochs :
               (summ[p][e].exists)' => summ[p][e].exists \/ Tracked(p, e)
    PROVE  SummariesPrimed'
<1> SUFFICES ASSUME NEW p \in Pools, NEW e \in Epochs, (summ[p][e].exists)', ~HalfSeeded(p)'
             PROVE  Tracked(p, e)' \/ Begun(p, Now)'
  BY DEF SummariesPrimed
<1>1. Epochs \subseteq Nat /\ Now \in Nat
  BY EpochFacts DEF BackfillInv
<1>2. Tracked(p, e) \/ Begun(p, Now)
  BY DEF BackfillInv, SummariesPrimed
<1>3. CASE Tracked(p, e)
  BY <1>3 DEF TablesGrow
<1>4. CASE Begun(p, Now)
  <2>1. \A g \in Nat : g = Now' => Begun(p, g)'
    BY <1>1, <1>4, BegunKept
  <2> QED
    BY <2>1
<1> QED
  BY <1>2, <1>3, <1>4

\* A backfill under way stays sound while the scheduler stays at it.
LEMMA SeedingStep ==
    ASSUME BackfillInv, TablesGrow, UNCHANGED <<cur, backfill, sEpoch, sPc, summ>>
    PROVE  SeedingIsSound'
<1> SUFFICES ASSUME NEW l \in cur
             PROVE  /\ sPc = "plan" /\ cur = {l}
                    /\ \E e \in Epochs : e < sEpoch
                    /\ \/ \E e \in Epochs : e < sEpoch /\ Tracked(PoolOf[l], e)'
                       \/ \A e \in Epochs : e < sEpoch /\ sEpoch <= e + BackfillEpochs =>
                                              summ[PoolOf[l]][e].exists \/ e \in backfill
                    /\ BackfillEpochs <= 1 /\ backfill # {} =>
                         /\ ~HasAnySummary(PoolOf[l])
                         /\ \A e, f \in backfill : e = f
  BY DEF SeedingIsSound, HasAnySummary, Tracked
<1>1. PoolOf[l] \in Pools
  BY PoolOfType DEF BackfillInv, BudgetInv, TypeOK, SchedulerTypeOK
<1> QED
  BY <1>1 DEF BackfillInv, SeedingIsSound, TablesGrow

\* A step that leaves the tables alone lets them grow.
LEMMA TablesFrameGrow == ASSUME UNCHANGED <<row, summ>> PROVE TablesGrow
  BY DEF TablesGrow, Tracked

\* ------------------------------------------------------------- jobs and copies

Busied(j) == j.pc \notin {"none", "queued"}

\* A job moves on: none appears, and one that is taken has its row.
JobGoesOn(l) ==
    /\ job'[l].pc # "none" => job[l].pc # "none"
    /\ Busied(job'[l]) => Busied(job[l]) \/ Tracked(PoolOf[l], sEpoch)'

\* A job that moves on in its pass stays primed.
LEMMA JobsStep ==
    ASSUME BackfillInv, TablesGrow, UNCHANGED <<sPc, sEpoch>>, ctxDone => ctxDone',
           \A l \in Listings : JobGoesOn(l)
    PROVE  JobsArePrimed'
<1> SUFFICES ASSUME NEW l \in Listings PROVE JobIsPrimed(l)'
  BY DEF JobsArePrimed
<1>1. /\ PoolOf[l] \in Pools /\ sEpoch \in Nat /\ sEpoch \in Epochs /\ Epochs \subseteq Nat
      /\ JobIsPrimed(l) /\ JobGoesOn(l)
  BY PoolOfType, EpochFacts DEF BackfillInv, JobsArePrimed
<1>2. ASSUME job'[l].pc # "none"
      PROVE  sPc' \in {"plan", "work"} /\ (ctxDone' \/ Primed(PoolOf[l], sEpoch)')
  <2>1. sPc \in {"plan", "work"} /\ (ctxDone \/ Primed(PoolOf[l], sEpoch))
    BY <1>1, <1>2 DEF JobIsPrimed, JobGoesOn
  <2>2. Primed(PoolOf[l], sEpoch) => \A e \in Nat : e = sEpoch => Primed(PoolOf[l], e)'
    BY <1>1, PrimedKept
  <2>3. Primed(PoolOf[l], sEpoch) => Primed(PoolOf[l], sEpoch)'
    BY <1>1, <2>2
  <2> QED
    BY <2>1, <2>3
<1>3. ASSUME Busied(job'[l])
      PROVE  Tracked(PoolOf[l], sEpoch)'
  <2>1. Busied(job[l]) => Tracked(PoolOf[l], sEpoch)
    BY <1>1 DEF JobIsPrimed, Busied
  <2>2. Tracked(PoolOf[l], sEpoch) => Tracked(PoolOf[l], sEpoch)'
    BY <1>1 DEF TablesGrow, Tracked
  <2> QED
    BY <1>1, <1>3, <2>1, <2>2 DEF JobGoesOn
<1> QED
  BY <1>2, <1>3 DEF JobIsPrimed, Busied

\* Where no job is left there is nothing to show.
LEMMA NoJobsPrimed ==
    ASSUME \A l \in Listings : job'[l].pc = "none"
    PROVE  JobsArePrimed'
  BY DEF JobsArePrimed, JobIsPrimed

\* The copies stay copies of rows that exist, where none is made.
LEMMA CopiesStep ==
    ASSUME BackfillInv, TablesGrow, finRows' \subseteq finRows, finHand' \subseteq finHand,
           estHand' = {} \/ UNCHANGED <<estHand, rEpoch>>
    PROVE  CopiesAreTracked'
<1>1. /\ finRows \subseteq FinRow /\ finHand \subseteq FinHand
      /\ estHand \subseteq [pool : Pools, ps : Row] /\ rEpoch \in Epochs
  BY DEF BackfillInv, BudgetInv, TypeOK, SchedulerTypeOK, ReconcilerTypeOK
<1>2. \A r \in finRows' : Tracked(r.pool, r.epoch)'
  BY <1>1 DEF BackfillInv, CopiesAreTracked, TablesGrow, FinRow
<1>3. \A h \in finHand' : h.es.exists /\ Tracked(h.pool, h.epoch)'
  BY <1>1 DEF BackfillInv, CopiesAreTracked, TablesGrow, FinHand
<1>4. \A x \in estHand' : Tracked(x.pool, rEpoch)'
  <2> SUFFICES ASSUME NEW x \in estHand' PROVE Tracked(x.pool, rEpoch)'
    OBVIOUS
  <2>1. x \in estHand /\ rEpoch' = rEpoch /\ estHand' # {}
    OBVIOUS
  <2>2. Tracked(x.pool, rEpoch) /\ x.pool \in Pools
    BY <1>1, <2>1 DEF BackfillInv, CopiesAreTracked
  <2> QED
    BY <1>1, <2>1, <2>2 DEF TablesGrow, Tracked
<1> QED
  BY <1>2, <1>3, <1>4 DEF CopiesAreTracked

\* A save of a row makes it tracked, and no other.
LEMMA RowSaved ==
    ASSUME TypeOK, NEW p \in Pools, NEW e \in Epochs, NEW ps, ps.status # "none",
           SavePoolSchedule(p, e, ps)
    PROVE  /\ Tracked(p, e)'
           /\ \A q \in Pools, f \in Epochs :
                Tracked(q, f)' <=> Tracked(q, f) \/ (q = p /\ f = e)
  BY DEF TypeOK, StoreTypeOK, SavePoolSchedule, Tracked

\* ------------------------------------------------------------------ the workers

\* What a worker's step leaves alone.
PassFixed ==
    /\ UNCHANGED <<tip, bfTip, summ, cur, backfill, sEpoch, sPc, ctxDone>>
    /\ UNCHANGED <<finRows, finHand, reconVars>>

\* A worker's step: it writes rows of the tick's epoch, and moves a job on.
LEMMA WorkerKeeps ==
    ASSUME BackfillInv, BudgetInv', PassFixed,
           \A p \in Pools, f \in Epochs :
               /\ Tracked(p, f) => Tracked(p, f)'
               /\ Tracked(p, f)' => Tracked(p, f) \/ (f <= Now /\ Primed(p, f)),
           \A l \in Listings : JobGoesOn(l)
    PROVE  BackfillInv'
<1>1. TablesGrow /\ Now' = Now /\ Now \in Nat
  BY EpochFacts DEF BackfillInv, TablesGrow, PassFixed, Now
<1>2. RowsPrimed'
  BY <1>1, RowsStep
<1>3. SummariesPrimed'
  <2>1. \A p \in Pools : HalfSeeded(p) => HalfSeeded(p)'
    BY DEF PassFixed, HalfSeeded
  <2>2. \A p \in Pools, e \in Epochs : (summ[p][e].exists)' => summ[p][e].exists
    BY DEF PassFixed
  <2> QED
    BY <1>1, <2>1, <2>2, SummariesStep
<1>4. SeedingIsSound'
  BY <1>1, SeedingStep DEF PassFixed
<1>5. JobsArePrimed' /\ CopiesAreTracked'
  BY <1>1, JobsStep, CopiesStep DEF PassFixed, reconVars
<1> QED
  BY <1>2, <1>3, <1>4, <1>5 DEF BackfillInv, PassFixed, IndexerKeepsUp

\* A step that leaves the rows alone.
LEMMA WorkerFrame ==
    ASSUME BackfillInv, BudgetInv', PassFixed, UNCHANGED row, \A l \in Listings : JobGoesOn(l)
    PROVE  BackfillInv'
  BY WorkerKeeps DEF Tracked

\* A job that is dropped has moved on.
LEMMA DropGoesOn ==
    ASSUME BackfillInv, NEW l \in Listings, DropJob(l)
    PROVE  \A m \in Listings : JobGoesOn(m)
  BY DEF BackfillInv, BudgetInv, TypeOK, SchedulerTypeOK, DropJob, NoJob, JobGoesOn, Busied

\* One worker's job replaced by the next stage of it.
LEMMA StageGoesOn ==
    ASSUME BackfillInv, NEW l \in Listings, NEW j, job' = [job EXCEPT ![l] = j], Busied(job[l])
    PROVE  \A m \in Listings : JobGoesOn(m)
  BY DEF BackfillInv, BudgetInv, TypeOK, SchedulerTypeOK, JobGoesOn, Busied

\* A worker takes a job, and drops it or writes its row: then the pool was
\* seeded (SkipJob, SeeRollover, StartCompute).
LEMMA TakePrimed ==
    ASSUME BackfillInv, BudgetInv', NEW l \in Listings, UNCHANGED reconVars,
           SkipJob(l) \/ SeeRollover(l) \/ StartCompute(l)
    PROVE  BackfillInv'
<1> USE DEF workUnchanged, planVars, finVars, PassFixed, storeVars, chainVars
<1>1. CASE SkipJob(l) \/ SeeRollover(l)
  <2>1. PassFixed /\ UNCHANGED row /\ DropJob(l)
    BY <1>1 DEF SkipJob, SeeRollover
  <2> QED
    BY <2>1, DropGoesOn, WorkerFrame
<1>2. CASE StartCompute(l)
  <2> DEFINE p  == PoolOf[l]
             ps == [job[l].ps EXCEPT !.status = "pending", !.attempts = @ + 1]
  <2>1. /\ p \in Pools /\ sEpoch \in Epochs /\ PassFixed /\ ~ctxDone /\ sPc = "work"
        /\ job[l].pc = "queued"
    BY <1>2, PoolOfType, EpochFacts DEF StartCompute, Takes, BackfillInv
  <2>2. CASE DropJob(l) /\ UNCHANGED row
    BY <2>1, <2>2, DropGoesOn, WorkerFrame
  <2>3. CASE /\ job' = [job EXCEPT ![l] = [@ EXCEPT !.pc = "verify", !.ps = ps]]
             /\ SavePoolSchedule(p, sEpoch, ps)
    <3>1. job[l] \in Job /\ job[l].ps \in Row /\ TypeOK /\ job \in [Listings -> Job]
      BY JobFields DEF BackfillInv, BudgetInv, TypeOK, SchedulerTypeOK
    <3>2. ps.status # "none"
      BY <3>1 DEF Row
    <3> HIDE DEF ps
    <3>3. /\ Tracked(p, sEpoch)'
          /\ \A q \in Pools, f \in Epochs :
               Tracked(q, f)' <=> Tracked(q, f) \/ (q = p /\ f = sEpoch)
      <4>1. \A q \in Pools, f \in Epochs :
              Tracked(q, f)' <=> Tracked(q, f) \/ (q = p /\ f = sEpoch)
        BY <2>1, <2>3, <3>1, <3>2, RowSaved
      <4>2. sEpoch' = sEpoch
        BY <2>1
      <4> QED
        BY <2>1, <4>1, <4>2 DEF Tracked
    <3>4. Primed(p, sEpoch) /\ sEpoch <= Now
      BY <2>1, EpochFacts DEF BackfillInv, JobsArePrimed, JobIsPrimed
    <3>5. \A m \in Listings : JobGoesOn(m)
      <4>1. \A m \in Listings : m # l => job'[m] = job[m]
        BY <2>3, <3>1
      <4> QED
        BY <2>1, <3>3, <4>1 DEF JobGoesOn, Busied
    <3> HIDE DEF p
    <3>6. \A q \in Pools, f \in Epochs :
            /\ Tracked(q, f) => Tracked(q, f)'
            /\ Tracked(q, f)' => Tracked(q, f) \/ (f <= Now /\ Primed(q, f))
      BY <3>3, <3>4
    <3> QED
      BY <2>1, <3>5, <3>6, WorkerKeeps
  <2> QED
    BY <1>2, <2>2, <2>3 DEF StartCompute
<1> QED
  BY <1>1, <1>2

\* computePool ends early: the row it writes back is one it wrote before (fail).
LEMMA FailPrimed ==
    ASSUME BackfillInv, BudgetInv', UNCHANGED reconVars, NEW l \in Listings, Busied(job[l]),
           NEW ps \in Row, NEW status \in Status \ {"none"}, Fail(l, ps, status)
    PROVE  BackfillInv'
<1> USE DEF workUnchanged, planVars, finVars, PassFixed, chainVars
<1>1. PassFixed /\ DropJob(l) /\ SavePoolSchedule(PoolOf[l], sEpoch, FailedRow(ps, status))
  BY DEF Fail
<1>2. /\ PoolOf[l] \in Pools /\ sEpoch \in Epochs /\ TypeOK
      /\ Tracked(PoolOf[l], sEpoch)
  BY PoolOfType, EpochFacts DEF BackfillInv, BudgetInv, JobsArePrimed, JobIsPrimed, Busied
<1>3. FailedRow(ps, status).status # "none"
  BY DEF FailedRow, Row
<1>4. \A q \in Pools, f \in Epochs :
        Tracked(q, f)' <=> Tracked(q, f) \/ (q = PoolOf[l] /\ f = sEpoch)
  BY <1>1, <1>2, <1>3, RowSaved
<1> QED
  BY <1>1, <1>2, <1>4, DropGoesOn, WorkerKeeps

\* The checks of the key, and the cli run (computePool up to the answer).
LEMMA VerifyPrimed ==
    ASSUME BackfillInv, BudgetInv', UNCHANGED reconVars, NEW l \in Listings, NEW got \in BOOLEAN,
           \/ KeyMissing(l) \/ PoolLookupFails(l) \/ KeyStale(l)
           \/ CliFails(l, got) \/ CliAnswers(l, got)
    PROVE  BackfillInv'
<1> USE DEF Busied
<1>1. job[l].ps \in Row /\ {"key_missing", "pending", "key_stale", "cli_error"} \subseteq Status \ {"none"}
  BY JobFields DEF BackfillInv, BudgetInv, TypeOK, Status
<1>2. [job[l].ps EXCEPT !.attempts = @ - 1] \in Row /\ WithEstimate(l, got) \in Row
  BY <1>1 DEF WithEstimate, Row, Fillable
<1>3. CASE KeyMissing(l)
  BY <1>1, <1>3, FailPrimed DEF KeyMissing
<1>4. CASE PoolLookupFails(l)
  BY <1>1, <1>2, <1>4, FailPrimed DEF PoolLookupFails
<1>5. CASE KeyStale(l)
  BY <1>1, <1>5, FailPrimed DEF KeyStale
<1>6. CASE CliFails(l, got)
  BY <1>1, <1>2, <1>6, FailPrimed DEF CliFails, Verified
<1>7. CASE CliAnswers(l, got)
  <2>1. job[l].pc = "verify"
    BY <1>7 DEF CliAnswers, Verified
  <2>2. CASE CliEntries(PoolOf[l]) \subseteq SlotsOf(sEpoch)
    <3>1. PassFixed /\ UNCHANGED row
      BY <1>7, <2>2 DEF CliAnswers, workUnchanged, planVars, finVars, PassFixed, storeVars
    <3>2. \A m \in Listings : JobGoesOn(m)
      BY <1>7, <2>1, <2>2, StageGoesOn DEF CliAnswers
    <3> QED
      BY <3>1, <3>2, WorkerFrame
  <2>3. CASE ~(CliEntries(PoolOf[l]) \subseteq SlotsOf(sEpoch))
    BY <1>1, <1>2, <1>7, <2>1, <2>3, FailPrimed DEF CliAnswers
  <2> QED
    BY <2>2, <2>3
<1> QED
  BY <1>3, <1>4, <1>5, <1>6, <1>7

\* The answer is stored and the blocks are rematched: of the rows only the
\* worker's own is written, which exists (StoreSlots to SettleMatched).
LEMMA StorePrimed ==
    ASSUME BackfillInv, BudgetInv', UNCHANGED reconVars, NEW l \in Listings,
           \/ StoreSlots(l) \/ MarkOk(l) \/ SettleMatched(l) \/ \E s \in Slots : Classify(l, s)
    PROVE  BackfillInv'
<1> USE DEF workUnchanged, planVars, finVars, PassFixed, chainVars
<1>1. PassFixed
  BY DEF StoreSlots, MarkOk, SettleMatched, Classify
<1>2. CASE StoreSlots(l)
  <2>1. UNCHANGED row
    BY <1>2 DEF StoreSlots
  <2>2. ASSUME NEW m \in Listings
        PROVE  Busied(job'[m]) => Busied(job[m])
    <3>1. CASE m = l
      BY <1>2, <3>1 DEF StoreSlots, Busied
    <3>2. CASE m # l
      <4>1. job'[m] = job[m] \/ job[m].pc = "settle"
        BY <1>2, <3>2 DEF StoreSlots
      <4> QED
        BY <4>1 DEF Busied
    <3> QED
      BY <3>1, <3>2
  <2>3. ASSUME NEW m \in Listings
        PROVE  job'[m].pc # "none" => job[m].pc # "none"
    <3>1. CASE m = l
      BY <1>2, <3>1 DEF StoreSlots
    <3>2. CASE m # l
      <4>1. job'[m] = job[m] \/ job[m].pc = "settle"
        BY <1>2, <3>2 DEF StoreSlots
      <4> QED
        BY <4>1
    <3> QED
      BY <3>1, <3>2
  <2> QED
    BY <1>1, <2>1, <2>2, <2>3, WorkerFrame DEF JobGoesOn
<1>3. CASE MarkOk(l)
  <2> DEFINE ps == [job[l].ps EXCEPT !.status = "ok"]
  <2>1. Busied(job[l]) /\ \A m \in Listings : JobGoesOn(m)
    BY <1>3, StageGoesOn DEF MarkOk, Busied
  <2>2. /\ PoolOf[l] \in Pools /\ sEpoch \in Epochs /\ TypeOK
        /\ Tracked(PoolOf[l], sEpoch) /\ job[l].ps \in Row
    BY <2>1, PoolOfType, EpochFacts, JobFields
       DEF BackfillInv, BudgetInv, TypeOK, JobsArePrimed, JobIsPrimed, Busied
  <2>3. ps.status # "none" /\ SavePoolSchedule(PoolOf[l], sEpoch, ps)
    BY <1>3, <2>2 DEF MarkOk, Row
  <2> HIDE DEF ps
  <2>4. \A q \in Pools, f \in Epochs :
          Tracked(q, f)' <=> Tracked(q, f) \/ (q = PoolOf[l] /\ f = sEpoch)
    BY <2>2, <2>3, RowSaved
  <2> QED
    BY <1>1, <2>1, <2>2, <2>4, WorkerKeeps
<1>4. ASSUME NEW s \in Slots, Classify(l, s)
      PROVE  BackfillInv'
  <2>1. UNCHANGED row /\ Busied(job[l]) /\ \E j : job' = [job EXCEPT ![l] = j]
    BY <1>4 DEF Classify, Busied
  <2> QED
    BY <1>1, <2>1, StageGoesOn, WorkerFrame
<1>5. CASE SettleMatched(l)
  <2>1. UNCHANGED row /\ Busied(job[l]) /\ \E j : job' = [job EXCEPT ![l] = j]
    BY <1>5 DEF SettleMatched, Busied
  <2> QED
    BY <1>1, <2>1, StageGoesOn, WorkerFrame
<1> QED
  BY <1>2, <1>3, <1>4, <1>5

\* ----------------------------------------------------------------- the planning

\* Where no earlier epoch is tracked, maybeBackfill saves at least the
\* BackfillEpochs epochs before the current one.
LEMMA BackfillCovers ==
    ASSUME HistoryIsServed, BackfillInv, NEW p \in Pools, NEW e \in Epochs,
           e < sEpoch, sEpoch <= e + BackfillEpochs,
           \A f \in Epochs : f < sEpoch => ~Tracked(p, f)
    PROVE  e \in ToBackfill(p)
<1> DEFINE eligible == { f \in Epochs : /\ f < sEpoch /\ f < EpochOf[bfTip]
                                        /\ row[p][f].status = "none" }
           later    == { f \in eligible : f > e }
           between  == (e + 1)..(sEpoch - 1)
<1>1. /\ Epochs \subseteq Nat /\ e \in Nat /\ sEpoch \in Nat /\ BackfillEpochs \in Nat
      /\ EpochOf[tip] \in Nat /\ sEpoch <= EpochOf[tip] /\ bfTip = tip
  BY EpochFacts DEF BackfillInv, IndexerKeepsUp
<1>2. e \in eligible
  BY <1>1 DEF Tracked
<1>3. later \subseteq between
  <2> SUFFICES ASSUME NEW f \in later PROVE f \in between
    OBVIOUS
  <2>1. f \in Epochs /\ f < sEpoch /\ f > e
    OBVIOUS
  <2>2. f \in Nat
    BY <1>1, <2>1
  <2> QED
    BY <1>1, <2>1, <2>2
<1>4. IsFiniteSet(between) /\ Cardinality(between) = sEpoch - 1 - e
  <2>1. e + 1 \in Int /\ sEpoch - 1 \in Int /\ e + 1 <= sEpoch
    BY <1>1
  <2>2. /\ IsFiniteSet(between)
        /\ Cardinality(between) = IF e + 1 > sEpoch - 1 THEN 0 ELSE (sEpoch - 1) - (e + 1) + 1
    BY <2>1, FS_Interval
  <2> HIDE DEF between
  <2> QED
    BY <1>1, <2>2
<1>5. Cardinality(later) \in Nat /\ Cardinality(later) <= sEpoch - 1 - e
  <2>1. IsFiniteSet(later) /\ Cardinality(later) <= Cardinality(between)
    BY <1>3, <1>4, FS_Subset
  <2> HIDE DEF later, between
  <2> QED
    BY <1>4, <2>1, FS_CardinalityType
<1>6. Cardinality(later) < BackfillEpochs
  <2> HIDE DEF later
  <2> QED
    BY <1>1, <1>5
<1> QED
  BY <1>2, <1>6 DEF ToBackfill

\* Where at most one epoch is to be saved, there is no second one.
LEMMA OneToSave ==
    ASSUME BackfillInv, NEW p \in Pools, BackfillEpochs <= 1
    PROVE  \A e, f \in ToBackfill(p) : e = f
<1> DEFINE eligible == { f \in Epochs : /\ f < sEpoch /\ f < EpochOf[bfTip]
                                        /\ row[p][f].status = "none" }
           later(e) == { f \in eligible : f > e }
<1>1. Epochs \subseteq Nat /\ sEpoch \in Nat /\ BackfillEpochs \in Nat
  BY EpochFacts DEF BackfillInv
<1>2. ASSUME NEW e \in ToBackfill(p)
      PROVE  later(e) = {}
  <2>1. Cardinality(later(e)) < BackfillEpochs
    BY <1>2 DEF ToBackfill
  <2>2. later(e) \subseteq 0..sEpoch
    <3> SUFFICES ASSUME NEW f \in later(e) PROVE f \in 0..sEpoch
      OBVIOUS
    <3>1. f \in Epochs /\ f < sEpoch
      OBVIOUS
    <3>2. f \in Nat
      BY <1>1, <3>1
    <3> QED
      BY <1>1, <3>1, <3>2
  <2>3. IsFiniteSet(0..sEpoch)
    BY <1>1, FS_Interval
  <2>4. IsFiniteSet(later(e))
    BY <2>2, <2>3, FS_Subset
  <2>5. Cardinality(later(e)) \in Nat
    BY <2>4, FS_CardinalityType
  <2> HIDE DEF later
  <2>6. Cardinality(later(e)) = 0
    BY <1>1, <2>1, <2>5
  <2> QED
    BY <2>4, <2>6, FS_EmptySet
<1>3. \A e \in ToBackfill(p) : e \in eligible
  BY DEF ToBackfill
<1>4. ASSUME NEW e \in ToBackfill(p), NEW f \in ToBackfill(p)
      PROVE  ~(f > e)
  BY <1>2, <1>3, <1>4
<1>5. \A e \in ToBackfill(p) : e \in Nat
  BY <1>1 DEF ToBackfill
<1> HIDE DEF eligible
<1> SUFFICES ASSUME NEW e \in ToBackfill(p), NEW f \in ToBackfill(p) PROVE e = f
  OBVIOUS
<1>6. ~(f > e) /\ ~(e > f) /\ e \in Nat /\ f \in Nat
  BY <1>4, <1>5
<1> QED
  BY <1>6

\* What the planning leaves alone.
PlanFixed ==
    /\ UNCHANGED <<tip, bfTip, row, sEpoch, ctxDone, finRows, finHand>>
    /\ UNCHANGED reconVars

\* What a step of the planning leaves of the invariant to be shown.
LEMMA PlanKeeps ==
    ASSUME BackfillInv, BudgetInv', PlanFixed, TablesGrow, sPc = "plan", sPc' # "idle",
           SummariesPrimed', SeedingIsSound', JobsArePrimed'
    PROVE  BackfillInv'
<1>1. Now' = Now /\ Now \in Nat
  BY EpochFacts DEF BackfillInv, PlanFixed, Now
<1>2. \A p \in Pools, f \in Epochs : Tracked(p, f)' => Tracked(p, f)
  BY DEF PlanFixed, Tracked
<1>3. RowsPrimed'
  BY <1>1, <1>2, RowsStep
<1>4. CopiesAreTracked'
  BY CopiesStep DEF PlanFixed, reconVars
<1> QED
  BY <1>3, <1>4 DEF BackfillInv, IndexerKeepsUp, PlanFixed

\* The history of a first-seen pool arrives (Seed).
LEMMA SeedPrimed ==
    ASSUME HistoryIsServed, BackfillInv, BudgetInv', UNCHANGED reconVars, NEW l \in Listings, Seed(l)
    PROVE  BackfillInv'
<1> DEFINE p == PoolOf[l]
<1> USE DEF storeVars, finVars
<1>1. /\ PlanFixed /\ TablesGrow /\ sPc = "plan" /\ sPc' = "plan" /\ p \in Pools
      /\ UNCHANGED <<summ, row>> /\ cur = {} /\ cur' = {l} /\ backfill' = ToBackfill(p)
      /\ ~HasAnySummary(p) /\ ToBackfill(p) # {} /\ job' = job /\ sEpoch' = sEpoch
  BY TablesFrameGrow, PoolOfType DEF Seed, PlanFixed
<1>2. Epochs \subseteq Nat /\ sEpoch \in Nat /\ BackfillEpochs \in Nat /\ Now \in Nat /\ Now' = Now
  BY <1>1, EpochFacts DEF BackfillInv, Now, PlanFixed
<1>3. SummariesPrimed'
  <2>1. \A q \in Pools : HalfSeeded(q) => HalfSeeded(q)'
    BY <1>1 DEF HalfSeeded
  <2>2. \A q \in Pools, e \in Epochs : (summ[q][e].exists)' => summ[q][e].exists
    BY <1>1
  <2> QED
    BY <1>1, <1>2, <2>1, <2>2, SummariesStep
<1>4. SeedingIsSound'
  <2>1. \E e \in Epochs : e < sEpoch
    BY <1>1 DEF ToBackfill
  <2>2. \/ \E e \in Epochs : e < sEpoch /\ Tracked(p, e)
        \/ \A e \in Epochs : e < sEpoch /\ sEpoch <= e + BackfillEpochs => e \in ToBackfill(p)
    BY <1>1, BackfillCovers
  <2>3. BackfillEpochs <= 1 => \A e, f \in ToBackfill(p) : e = f
    BY <1>1, OneToSave
  <2>4. \A e \in Epochs : Tracked(p, e)' <=> Tracked(p, e)
    BY <1>1 DEF Tracked
  <2>5. HasAnySummary(p)' <=> HasAnySummary(p)
    BY <1>1 DEF HasAnySummary
  <2> HIDE DEF p
  <2>6. \A m \in cur' : m = l /\ PoolOf[m] = p
    BY <1>1 DEF p
  <2> QED
    BY <1>1, <2>1, <2>2, <2>3, <2>4, <2>5, <2>6 DEF SeedingIsSound
<1>5. JobsArePrimed'
  <2>1. \A m \in Listings : JobGoesOn(m)
    BY <1>1 DEF JobGoesOn
  <2> QED
    BY <1>1, <2>1, JobsStep DEF PlanFixed
<1> QED
  BY <1>1, <1>3, <1>4, <1>5, PlanKeeps

\* One summary of the backfill is saved (BackfillSave).
LEMMA SavePrimed ==
    ASSUME BackfillInv, BudgetInv', UNCHANGED reconVars, NEW l \in Listings, NEW e \in Epochs,
           BackfillSave(l, e)
    PROVE  BackfillInv'
<1> DEFINE p  == PoolOf[l]
           es == [NoSummary EXCEPT !.exists = TRUE, !.actualsOnly = TRUE, !.finalized = TRUE,
                                   !.produced = Cardinality(MintedBy(PoolOf[l], e))]
<1> USE DEF chainVars, finVars
<1>1. /\ PlanFixed /\ sPc = "plan" /\ sPc' = "plan" /\ p \in Pools /\ UNCHANGED row
      /\ cur = {l} /\ cur' = cur /\ e \in backfill /\ backfill' = backfill \ {e}
      /\ job' = job /\ sEpoch' = sEpoch /\ summ' = [summ EXCEPT ![p][e] = es]
  BY PoolOfType DEF BackfillSave, PlanFixed, SaveEpochSummary
<1>2. es.exists
  BY DEF NoSummary
<1> HIDE DEF es, p
<1>3. \A q \in Pools, f \in Epochs :
        (summ[q][f].exists)' <=> summ[q][f].exists \/ (q = p /\ f = e)
  BY <1>1, <1>2 DEF BackfillInv, BudgetInv, TypeOK, StoreTypeOK
<1>4. \A q \in Pools, f \in Epochs : Tracked(q, f)' <=> Tracked(q, f)
  BY <1>1 DEF Tracked
<1>5. TablesGrow
  BY <1>3, <1>4 DEF TablesGrow
<1>6. /\ Epochs \subseteq Nat /\ sEpoch \in Nat /\ sEpoch \in Epochs /\ BackfillEpochs \in Nat
      /\ Now \in Nat /\ Now' = Now /\ Now = sEpoch /\ PoolOf[l] = p
  BY <1>1, EpochFacts DEF BackfillInv, Now, p
<1>7. /\ \E f \in Epochs : f < sEpoch
      /\ \/ \E f \in Epochs : f < sEpoch /\ Tracked(p, f)
         \/ \A f \in Epochs : f < sEpoch /\ sEpoch <= f + BackfillEpochs =>
                                summ[p][f].exists \/ f \in backfill
      /\ BackfillEpochs <= 1 =>
           /\ \A f \in Epochs : ~summ[p][f].exists
           /\ \A f, g \in backfill : f = g
  BY <1>1, <1>6 DEF BackfillInv, SeedingIsSound, HasAnySummary
<1>8. BackfillEpochs <= 1 => backfill' = {}
  BY <1>1, <1>7
<1>9. \/ \E f \in Epochs : f < sEpoch /\ Tracked(p, f)'
      \/ \A f \in Epochs : f < sEpoch /\ sEpoch <= f + BackfillEpochs =>
                             (summ[p][f].exists)' \/ f \in backfill'
  BY <1>1, <1>3, <1>4, <1>7
<1>10. SeedingIsSound'
  <2>1. \A m \in cur' : m = l /\ PoolOf[m] = p
    BY <1>1, <1>6
  <2> QED
    BY <1>1, <1>6, <1>7, <1>8, <1>9, <2>1 DEF SeedingIsSound
<1>11. SummariesPrimed'
  <2> SUFFICES ASSUME NEW q \in Pools, NEW f \in Epochs, (summ[q][f].exists)', ~HalfSeeded(q)'
               PROVE  Tracked(q, f)' \/ Begun(q, Now)'
    BY DEF SummariesPrimed
  <2>1. ~HalfSeeded(q)
    BY <1>1 DEF HalfSeeded
  <2>2. CASE summ[q][f].exists
    <3>1. Tracked(q, f) \/ Begun(q, Now)
      BY <2>1, <2>2 DEF BackfillInv, SummariesPrimed
    <3>2. Begun(q, Now) => \A n \in Nat : n = Now' => Begun(q, n)'
      BY <1>5, <1>6, BegunKept
    <3> QED
      BY <1>4, <1>6, <3>1, <3>2
  <2>3. CASE q = p /\ f = e
    <3>1. BackfillEpochs <= 1
      BY <1>1, <1>6, <2>1, <2>3 DEF HalfSeeded
    <3>2. backfill' = {}
      BY <1>8, <3>1
    <3>3. CASE \E k \in Epochs : k < sEpoch /\ Tracked(p, k)'
      BY <1>1, <1>6, <2>3, <3>3 DEF Begun
    <3>4. CASE \A k \in Epochs : k < sEpoch /\ sEpoch <= k + BackfillEpochs =>
                                   (summ[p][k].exists)'
      <4>1. SeededAt(p, sEpoch)'
        BY <1>1, <1>6, <1>7, <3>4 DEF SeededAt
      <4> QED
        BY <1>1, <1>6, <2>3, <4>1 DEF Begun
    <3> QED
      BY <1>9, <3>2, <3>3, <3>4
  <2> QED
    BY <1>3, <2>2, <2>3
<1>12. JobsArePrimed'
  <2>1. \A m \in Listings : JobGoesOn(m)
    BY <1>1 DEF JobGoesOn
  <2> QED
    BY <1>1, <1>5, <2>1, JobsStep DEF PlanFixed
<1> QED
  BY <1>1, <1>5, <1>10, <1>11, <1>12, PlanKeeps

\* Past maybeBackfill the pool was seeded, unless a shutdown has begun.
LEMMA SeededIsPrimed ==
    ASSUME HistoryIsServed, BackfillInv, sPc = "plan", NEW l \in Listings, Seeded(l)
    PROVE  ctxDone \/ Primed(PoolOf[l], sEpoch)
<1> DEFINE p == PoolOf[l]
<1> SUFFICES ASSUME ~ctxDone PROVE Primed(p, sEpoch)
  OBVIOUS
<1>1. /\ p \in Pools /\ Epochs \subseteq Nat /\ sEpoch \in Nat /\ sEpoch \in Epochs
      /\ Now = sEpoch /\ BackfillEpochs \in Nat
  BY PoolOfType, EpochFacts DEF BackfillInv, Now
<1>2. CASE cur = {l} /\ backfill = {}
  <2>1. /\ \E e \in Epochs : e < sEpoch
        /\ \/ \E e \in Epochs : e < sEpoch /\ Tracked(p, e)
           \/ \A e \in Epochs : e < sEpoch /\ sEpoch <= e + BackfillEpochs => summ[p][e].exists
    BY <1>2 DEF BackfillInv, SeedingIsSound
  <2> HIDE DEF p
  <2> QED
    BY <1>1, <2>1 DEF Primed, Begun, SeededAt
<1>3. CASE cur = {} /\ HasAnySummary(p)
  <2>1. PICK e \in Epochs : summ[p][e].exists
    BY <1>3 DEF HasAnySummary
  <2>2. Tracked(p, e) \/ Begun(p, sEpoch)
    BY <1>1, <1>3, <2>1 DEF BackfillInv, SummariesPrimed, HalfSeeded
  <2>3. ASSUME Tracked(p, e)
        PROVE  Primed(p, sEpoch)
    <3>1. e <= sEpoch /\ Primed(p, e) /\ e \in Nat
      BY <1>1, <2>3 DEF BackfillInv, RowsPrimed
    <3>2. CASE e < sEpoch
      BY <2>3, <3>2 DEF Primed, Begun
    <3>3. CASE e = sEpoch
      BY <3>1, <3>3
    <3> QED
      BY <1>1, <3>1, <3>2, <3>3
  <2> QED
    BY <2>2, <2>3 DEF Primed
<1>4. CASE cur = {} /\ ToBackfill(p) = {}
  <2>1. CASE \E e \in Epochs : e < sEpoch /\ Tracked(p, e)
    BY <2>1 DEF Primed, Begun
  <2>2. CASE \A e \in Epochs : e < sEpoch => ~Tracked(p, e)
    <3>1. \A e \in Epochs : ~(e < sEpoch /\ sEpoch <= e + BackfillEpochs)
      BY <1>1, <1>4, <2>2, BackfillCovers
    <3>2. (\E e \in Epochs : e < sEpoch) => SeededAt(p, sEpoch)
      BY <3>1 DEF SeededAt
    <3> QED
      BY <1>1, <3>2 DEF Primed, Begun
  <2> QED
    BY <2>1, <2>2
<1>5. ~Fails("history")
  BY DEF HistoryIsServed, Fails
<1> QED
  BY <1>2, <1>3, <1>4, <1>5 DEF Seeded

\* The planning goes on from a pool that was seeded (PlanPool).
LEMMA PlanPrimed ==
    ASSUME HistoryIsServed, BackfillInv, BudgetInv', UNCHANGED reconVars, NEW l \in Listings,
           PlanPool(l)
    PROVE  BackfillInv'
<1> USE DEF storeVars, chainVars, finVars
<1>1. /\ PlanFixed /\ TablesGrow /\ sPc = "plan" /\ sPc' # "idle" /\ UNCHANGED <<summ, row>>
      /\ cur \in {{}, {l}} /\ cur' = {} /\ Seeded(l) /\ PoolOf[l] \in Pools
      /\ cur = {l} => backfill = {}
  BY TablesFrameGrow, PoolOfType DEF PlanPool, PlanFixed, Seeded
<1>2. /\ Epochs \subseteq Nat /\ sEpoch \in Nat /\ sEpoch \in Epochs /\ BackfillEpochs \in Nat
      /\ Now \in Nat /\ Now' = Now /\ Now = sEpoch /\ sEpoch' = sEpoch /\ ctxDone' = ctxDone
  BY <1>1, EpochFacts DEF BackfillInv, Now, PlanFixed
<1>3. SeedingIsSound'
  BY <1>1 DEF SeedingIsSound
<1>4. SummariesPrimed'
  <2> SUFFICES ASSUME NEW q \in Pools, NEW f \in Epochs, (summ[q][f].exists)'
               PROVE  Tracked(q, f)' \/ Begun(q, Now)'
    BY DEF SummariesPrimed
  <2>1. Tracked(q, f) \/ Begun(q, Now)
    <3>1. CASE HalfSeeded(q)
      <4>1. cur = {l} /\ q = PoolOf[l] /\ backfill = {}
        BY <1>1, <3>1 DEF HalfSeeded
      <4>2. /\ \E e \in Epochs : e < sEpoch
            /\ \/ \E e \in Epochs : e < sEpoch /\ Tracked(q, e)
               \/ \A e \in Epochs : e < sEpoch /\ sEpoch <= e + BackfillEpochs => summ[q][e].exists
        BY <4>1 DEF BackfillInv, SeedingIsSound
      <4> QED
        BY <1>2, <4>2 DEF Begun, SeededAt
    <3>2. CASE ~HalfSeeded(q)
      BY <1>1, <3>2 DEF BackfillInv, SummariesPrimed
    <3> QED
      BY <3>1, <3>2
  <2>2. Begun(q, Now) => \A n \in Nat : n = Now' => Begun(q, n)'
    BY <1>1, <1>2, BegunKept
  <2>3. Tracked(q, f) => Tracked(q, f)'
    BY <1>1 DEF Tracked
  <2> QED
    BY <1>2, <2>1, <2>2, <2>3
<1>5. JobsArePrimed'
  <2>1. \A m \in Listings : job[m].pc \in {"none", "queued"}
    BY <1>1 DEF BackfillInv, BudgetInv, CopiesInBudget, JobsInBudget, JobInBudget
  <2>2. job \in [Listings -> Job]
    BY DEF BackfillInv, BudgetInv, TypeOK, SchedulerTypeOK
  <2>3. \A m \in Listings : /\ job'[m].pc \in {"none", "queued"}
                            /\ job'[m].pc = "queued" => job[m].pc = "queued" \/ m = l
    <3>1. job' = job \/ \E j : j.pc = "queued" /\ job' = [job EXCEPT ![l] = j]
      <4>1. CASE job' = job
        BY <4>1
      <4>2. CASE job' = [job EXCEPT ![l] = [NoJob EXCEPT !.pc = "queued", !.ps = row[PoolOf[l]][sEpoch]]]
        <5>1. [NoJob EXCEPT !.pc = "queued", !.ps = row[PoolOf[l]][sEpoch]].pc = "queued"
          BY DEF NoJob
        <5> QED
          BY <4>2, <5>1
      <4> QED
        BY <4>1, <4>2 DEF PlanPool
    <3> QED
      BY <2>1, <2>2, <3>1
  <2>4. sPc' \in {"plan", "work"} \/ \A m \in Listings : job'[m].pc # "queued"
    BY DEF PlanPool
  <2> SUFFICES ASSUME NEW m \in Listings, job'[m].pc = "queued"
               PROVE  sPc' \in {"plan", "work"} /\ (ctxDone' \/ Primed(PoolOf[m], sEpoch)')
    BY <2>3 DEF JobsArePrimed, JobIsPrimed
  <2>5. ctxDone \/ Primed(PoolOf[m], sEpoch)
    <3>1. CASE m = l
      BY <1>1, <3>1, SeededIsPrimed
    <3>2. CASE m # l
      <4>1. job[m].pc = "queued"
        BY <2>3, <3>2
      <4> QED
        BY <4>1 DEF BackfillInv, JobsArePrimed, JobIsPrimed
    <3> QED
      BY <3>1, <3>2
  <2>6. PoolOf[m] \in Pools
    BY PoolOfType
  <2>7. Primed(PoolOf[m], sEpoch) => \A n \in Nat : n = sEpoch => Primed(PoolOf[m], n)'
    BY <1>1, <1>2, <2>6, PrimedKept
  <2> QED
    BY <1>2, <2>4, <2>5, <2>7
<1> QED
  BY <1>1, <1>3, <1>4, <1>5, PlanKeeps

\* ------------------------------------------------- the start and end of a tick

\* Outside of the planning no backfill is under way, and outside of it and the
\* workers there is no job.
LEMMA EmptyHanded ==
    ASSUME BackfillInv
    PROVE  /\ sPc # "plan" => cur = {}
           /\ sPc \notin {"plan", "work"} => \A l \in Listings : job[l].pc = "none"
  BY DEF BackfillInv, SeedingIsSound, JobsArePrimed, JobIsPrimed

\* A step with no backfill and no job: it makes no row, and a summary only of a
\* tracked epoch.
LEMMA PassKeeps ==
    ASSUME BackfillInv, BudgetInv', TablesGrow, Now' \in Nat, Now <= Now',
           cur = {}, UNCHANGED <<cur, job, tip, bfTip>>, \A l \in Listings : job[l].pc = "none",
           \A p \in Pools, e \in Epochs :
               /\ Tracked(p, e)' => Tracked(p, e)
               /\ (summ[p][e].exists)' => summ[p][e].exists \/ Tracked(p, e),
           CopiesAreTracked'
    PROVE  BackfillInv'
<1>1. RowsPrimed'
  BY RowsStep
<1>2. SummariesPrimed'
  <2>1. \A p \in Pools : ~HalfSeeded(p)
    BY DEF HalfSeeded
  <2> QED
    BY <2>1, SummariesStep
<1>3. SeedingIsSound' /\ JobsArePrimed' /\ IndexerKeepsUp'
  BY NoJobsPrimed DEF SeedingIsSound, BackfillInv, IndexerKeepsUp
<1> QED
  BY <1>1, <1>2, <1>3 DEF BackfillInv

\* A tick starts, is given up, or goes on to the summaries.
LEMMA TickPrimed ==
    ASSUME BackfillInv, BudgetInv', UNCHANGED reconVars, SchedulerTick \/ AbortPass \/ FinScan
    PROVE  BackfillInv'
<1> USE DEF storeVars, chainVars, finVars, planVars, finUnchanged
<1>1. UNCHANGED <<row, summ, cur, job, tip, bfTip, finRows, finHand>> /\ TablesGrow
  BY TablesFrameGrow DEF SchedulerTick, AbortPass, FinScan
<1>2. cur = {} /\ \A l \in Listings : job[l].pc = "none"
  BY EmptyHanded DEF SchedulerTick, AbortPass, FinScan, WorkersDone
<1>3. Now' \in Nat /\ Now <= Now'
  BY EpochFacts DEF BackfillInv, SchedulerTick, AbortPass, FinScan, WorkersDone, Now
<1>4. CopiesAreTracked'
  BY <1>1, CopiesStep DEF reconVars
<1>5. \A p \in Pools, e \in Epochs :
        /\ Tracked(p, e)' => Tracked(p, e)
        /\ (summ[p][e].exists)' => summ[p][e].exists \/ Tracked(p, e)
  BY <1>1 DEF Tracked
<1> QED
  BY <1>1, <1>2, <1>3, <1>4, <1>5, PassKeeps

\* The end of a tick leaves the epoch no earlier.
LEMMA FinGoesOn ==
    ASSUME BackfillInv, sPc # "idle", NEW rows, NEW epochs, FinGoOn(rows, epochs), tip' = tip
    PROVE  Now' \in Nat /\ Now <= Now'
  BY EpochFacts DEF BackfillInv, FinGoOn, Now

\* The summaries are made of the rows that exist (finalizeSummaries).
LEMMA FinPrimed ==
    ASSUME BackfillInv, BudgetInv', UNCHANGED reconVars,
           FinSave \/ (\E e \in Epochs : FinEpoch(e)) \/ (\E r \in finRows : FinCount(r))
    PROVE  BackfillInv'
<1> USE DEF storeVars, chainVars, planVars, finUnchanged
<1>1. /\ cur = {} /\ UNCHANGED <<cur, job, tip, bfTip>> /\ sPc # "idle"
      /\ \A l \in Listings : job[l].pc = "none"
  BY EmptyHanded DEF FinSave, FinEpoch, FinCount
<1>2. /\ TypeOK /\ finRows \subseteq FinRow /\ finHand \subseteq FinHand
      /\ row \in [Pools -> [Epochs -> Row]] /\ summ \in [Pools -> [Epochs -> Summary]]
      /\ \A r \in finRows : r.ps.status # "none" /\ Tracked(r.pool, r.epoch)
      /\ \A h \in finHand : h.es.exists /\ Tracked(h.pool, h.epoch)
  BY DEF BackfillInv, BudgetInv, TypeOK, StoreTypeOK, SchedulerTypeOK, CopiesInBudget,
         FinRowsInBudget, CopiesAreTracked
<1>3. CASE FinSave
  <2>1. /\ UNCHANGED <<row, finRows>> /\ finHand' = {} /\ FinGoOn(finRows, finEpochs)
        /\ \E h \in finHand : summ' = [summ EXCEPT ![h.pool][h.epoch] = h.es]
    BY <1>3 DEF FinSave, SaveEpochSummary
  <2>2. PICK h \in finHand : summ' = [summ EXCEPT ![h.pool][h.epoch] = h.es]
    BY <2>1
  <2>3. h.pool \in Pools /\ h.epoch \in Epochs /\ h.es.exists /\ Tracked(h.pool, h.epoch)
    BY <1>2 DEF FinHand
  <2>4. \A p \in Pools, e \in Epochs :
          (summ[p][e].exists)' <=> summ[p][e].exists \/ (p = h.pool /\ e = h.epoch)
    BY <1>2, <2>2, <2>3
  <2>5. \A p \in Pools, e \in Epochs : Tracked(p, e)' <=> Tracked(p, e)
    BY <2>1 DEF Tracked
  <2>6. TablesGrow
    BY <2>4, <2>5 DEF TablesGrow
  <2>7. CopiesAreTracked'
    BY <2>1, <2>6, CopiesStep DEF reconVars
  <2>8. Now' \in Nat /\ Now <= Now'
    BY <1>1, <2>1, FinGoesOn
  <2> QED
    BY <1>1, <2>3, <2>4, <2>5, <2>6, <2>7, <2>8, PassKeeps
<1>4. ASSUME NEW e \in Epochs, FinEpoch(e)
      PROVE  BackfillInv'
  <2>1. /\ UNCHANGED <<row, summ, finHand>> /\ FinGoOn(finRows', finEpochs')
        /\ finRows' = { [pool |-> p, epoch |-> e, ps |-> row[p][e]] :
                          p \in { q \in Pools : row[q][e].status # "none" } }
    BY <1>4 DEF FinEpoch
  <2>2. TablesGrow /\ \A p \in Pools, f \in Epochs : Tracked(p, f)' <=> Tracked(p, f)
    BY <2>1, TablesFrameGrow DEF Tracked
  <2>3. CopiesAreTracked'
    <3>1. \A r \in finRows' : Tracked(r.pool, r.epoch)'
      BY <2>1 DEF Tracked
    <3>2. \A h \in finHand' : h.es.exists /\ Tracked(h.pool, h.epoch)'
      BY <1>2, <2>1 DEF Tracked
    <3>3. \A x \in estHand' : Tracked(x.pool, rEpoch)'
      BY <2>1 DEF BackfillInv, CopiesAreTracked, Tracked, reconVars
    <3> QED
      BY <3>1, <3>2, <3>3 DEF CopiesAreTracked
  <2>4. Now' \in Nat /\ Now <= Now'
    <3>1. \A rows, epochs : FinGoOn(rows, epochs) => Now' \in Nat /\ Now <= Now'
      BY <1>1, FinGoesOn
    <3> QED
      BY <2>1, <3>1
  <2>5. \A p \in Pools, f \in Epochs : (summ[p][f].exists)' => summ[p][f].exists
    BY <2>1
  <2> QED
    BY <1>1, <2>2, <2>3, <2>4, <2>5, PassKeeps
<1>5. ASSUME NEW r \in finRows, FinCount(r)
      PROVE  BackfillInv'
  <2>1. /\ r.pool \in Pools /\ r.epoch \in Epochs /\ r.ps \in Row /\ Tracked(r.pool, r.epoch)
        /\ r.ps.status # "none"
    BY <1>2 DEF FinRow
  <2>2. /\ UNCHANGED <<summ, sEpoch>> /\ finRows' = finRows \ {r} /\ sPc' = "finSave"
        /\ \/ UNCHANGED row
           \/ SavePoolSchedule(r.pool, r.epoch, [r.ps EXCEPT !.status = "expired"])
    BY <1>5 DEF FinCount
  <2>3. \A p \in Pools, e \in Epochs : Tracked(p, e)' <=> Tracked(p, e)
    <3>1. CASE UNCHANGED row
      BY <3>1 DEF Tracked
    <3>2. CASE SavePoolSchedule(r.pool, r.epoch, [r.ps EXCEPT !.status = "expired"])
      <4>1. [r.ps EXCEPT !.status = "expired"].status # "none"
        BY <2>1 DEF Row
      <4>2. \A q \in Pools, f \in Epochs :
              Tracked(q, f)' <=> Tracked(q, f) \/ (q = r.pool /\ f = r.epoch)
        BY <1>2, <2>1, <3>2, <4>1, RowSaved
      <4> QED
        BY <2>1, <4>2
    <3> QED
      BY <2>2, <3>1, <3>2
  <2>4. TablesGrow
    BY <2>2, <2>3 DEF TablesGrow
  <2>5. CopiesAreTracked'
    <3>1. \A x \in finRows' : Tracked(x.pool, x.epoch)'
      BY <1>2, <2>2, <2>3 DEF FinRow
    <3>2. \A h \in finHand' : h.es.exists /\ Tracked(h.pool, h.epoch)'
      <4>1. \A h \in finHand' : h.es.exists /\ h.pool = r.pool /\ h.epoch = r.epoch
        BY <1>5 DEF FinCount, Summarise
      <4>2. \A h \in finHand' : Tracked(h.pool, h.epoch)'
        BY <2>1, <2>3, <4>1 DEF Tracked
      <4> QED
        BY <4>1, <4>2
    <3>3. \A x \in estHand' : Tracked(x.pool, rEpoch)'
      <4>1. /\ estHand' = estHand /\ rEpoch' = rEpoch /\ rEpoch \in Epochs
            /\ \A x \in estHand : x.pool \in Pools /\ Tracked(x.pool, rEpoch)
        BY <1>2 DEF BackfillInv, CopiesAreTracked, TypeOK, ReconcilerTypeOK, reconVars
      <4> QED
        BY <2>3, <4>1 DEF Tracked
    <3> QED
      BY <3>1, <3>2, <3>3 DEF CopiesAreTracked
  <2>6. Now' \in Nat /\ Now <= Now'
    BY <1>1, <2>2, EpochFacts DEF BackfillInv, Now
  <2> QED
    BY <1>1, <2>2, <2>3, <2>4, <2>5, <2>6, PassKeeps
<1> QED
  BY <1>3, <1>4, <1>5

\* Every step of the scheduler.
LEMMA SchedulerPrimed ==
    ASSUME HistoryIsServed, BackfillInv, BudgetInv', UNCHANGED reconVars, SchedulerNext
    PROVE  BackfillInv'
<1>1. CASE SchedulerTick \/ AbortPass \/ FinScan
  BY <1>1, TickPrimed
<1>2. CASE FinSave \/ (\E e \in Epochs : FinEpoch(e)) \/ (\E r \in finRows : FinCount(r))
  BY <1>2, FinPrimed
<1>3. ASSUME NEW l \in Listings,
             Seed(l) \/ PlanPool(l) \/ \E e \in Epochs : BackfillSave(l, e)
      PROVE  BackfillInv'
  BY <1>3, SeedPrimed, PlanPrimed, SavePrimed
<1>4. ASSUME NEW l \in Listings, SkipJob(l) \/ SeeRollover(l) \/ StartCompute(l)
      PROVE  BackfillInv'
  BY <1>4, TakePrimed
<1>5. ASSUME NEW l \in Listings, NEW got \in BOOLEAN,
             \/ KeyMissing(l) \/ PoolLookupFails(l) \/ KeyStale(l)
             \/ CliFails(l, got) \/ CliAnswers(l, got)
      PROVE  BackfillInv'
  BY <1>5, VerifyPrimed
<1>6. ASSUME NEW l \in Listings,
             \/ StoreSlots(l) \/ MarkOk(l) \/ SettleMatched(l)
             \/ \E s \in Slots : Classify(l, s)
      PROVE  BackfillInv'
  BY <1>6, StorePrimed
<1> QED
  BY <1>1, <1>2, <1>3, <1>4, <1>5, <1>6 DEF SchedulerNext

\* ---------------------------------------------------------- outside of the loop

\* A step that leaves the scheduler where it is, and rows those that there are.
LEMMA OutsideKeeps ==
    ASSUME BackfillInv, BudgetInv', UNCHANGED <<schedVars, summ>>, ctxDone => ctxDone',
           \A p \in Pools, e \in Epochs : Tracked(p, e)' <=> Tracked(p, e),
           Now' \in Nat, Now <= Now', CopiesAreTracked', IndexerKeepsUp'
    PROVE  BackfillInv'
<1> USE DEF schedVars
<1>1. TablesGrow
  BY DEF TablesGrow
<1>2. RowsPrimed'
  BY <1>1, RowsStep
<1>3. SummariesPrimed'
  <2>1. \A p \in Pools : HalfSeeded(p) => HalfSeeded(p)'
    BY DEF HalfSeeded
  <2> QED
    BY <1>1, <2>1, SummariesStep
<1>4. SeedingIsSound'
  BY <1>1, SeedingStep
<1>5. JobsArePrimed'
  <2>1. \A l \in Listings : JobGoesOn(l)
    BY DEF JobGoesOn
  <2> QED
    BY <1>1, <2>1, JobsStep
<1> QED
  BY <1>2, <1>3, <1>4, <1>5 DEF BackfillInv

\* The reconciler writes back only copies of rows that exist.
LEMMA ReconcilerPrimed ==
    ASSUME BackfillInv, BudgetInv', UNCHANGED schedVars, ReconcilerNext
    PROVE  BackfillInv'
<1>1. UNCHANGED <<tip, bfTip, summ, ctxDone, finRows, finHand>> /\ Now' = Now /\ Now \in Nat
  <2>1. UNCHANGED <<tip, bfTip, summ, ctxDone>>
    BY ReconcilerReadsChain DEF chainVars
  <2> QED
    BY <2>1, EpochFacts DEF BackfillInv, schedVars, Now
<1>2. /\ TypeOK /\ rEpoch \in Epochs
      /\ \A x \in estHand : x.pool \in Pools /\ x.ps.status # "none" /\ Tracked(x.pool, rEpoch)
      /\ estHand # {} => rPc = "estSave"
  BY DEF BackfillInv, BudgetInv, CopiesInBudget, EstimatesInBudget, CopiesAreTracked, TypeOK,
         ReconcilerTypeOK
<1>3. ASSUME \A p \in Pools, e \in Epochs : Tracked(p, e)' <=> Tracked(p, e),
             \A x \in estHand' : x.pool \in Pools /\ Tracked(x.pool, rEpoch'),
             rEpoch' \in Epochs
      PROVE  BackfillInv'
  <2>1. \A x \in estHand' : Tracked(x.pool, rEpoch)'
    BY <1>3 DEF Tracked
  <2>2. /\ \A r \in finRows' : Tracked(r.pool, r.epoch)'
        /\ \A h \in finHand' : h.es.exists /\ Tracked(h.pool, h.epoch)'
    <3>1. finRows \subseteq FinRow /\ finHand \subseteq FinHand
      BY <1>2 DEF TypeOK, SchedulerTypeOK
    <3> QED
      BY <1>1, <1>3, <3>1 DEF BackfillInv, CopiesAreTracked, FinRow, FinHand
  <2>3. CopiesAreTracked'
    BY <2>1, <2>2 DEF CopiesAreTracked
  <2>4. IndexerKeepsUp'
    BY <1>1 DEF BackfillInv, IndexerKeepsUp
  <2> QED
    BY <1>1, <1>3, <2>3, <2>4, OutsideKeeps
<1>4. rEpoch' \in Epochs
  BY DEF BudgetInv, TypeOK, ReconcilerTypeOK
<1>5. CASE UNCHANGED row /\ (estHand' = {} \/ (rPc # "estSave" /\ UNCHANGED estHand))
  BY <1>2, <1>3, <1>4, <1>5 DEF Tracked
<1>6. ASSUME NEW p \in Pools, NEW got \in SUBSET Fillable, EstimateRead(p, got)
      PROVE  BackfillInv'
  <2>1. UNCHANGED row /\ rEpoch' = rEpoch /\ rPc = "tick"
    BY <1>6 DEF EstimateRead, IngestDone, storeVars, tickVars
  <2>2. \A x \in estHand' : x.pool \in Pools /\ Tracked(x.pool, rEpoch)
    BY <1>2, <1>6, <2>1 DEF EstimateRead, Tracked
  <2> QED
    BY <1>3, <1>4, <2>1, <2>2 DEF Tracked
<1>7. ASSUME NEW x \in estHand, EstimateSave(x)
      PROVE  BackfillInv'
  <2>1. SavePoolSchedule(x.pool, rEpoch, x.ps) /\ estHand' = {}
    BY <1>7 DEF EstimateSave
  <2>2. \A q \in Pools, f \in Epochs :
          Tracked(q, f)' <=> Tracked(q, f) \/ (q = x.pool /\ f = rEpoch)
    BY <1>2, <2>1, RowSaved
  <2> QED
    BY <1>2, <1>3, <1>4, <2>1, <2>2
<1> QED
  BY <1>5, <1>6, <1>7, ReconcilerRows

\* The chain grows under the daemon, whose indexer keeps up (EnvNext).
LEMMA EnvPrimed ==
    ASSUME HistoryIsServed, BackfillInv, BudgetInv', EnvStep
    PROVE  BackfillInv'
<1>1. /\ UNCHANGED <<row, summ, ctxDone, schedVars, reconVars>>
      /\ tip \in Nat /\ tip' \in 0..NSlots /\ tip <= tip' /\ bfTip' = tip'
  <2>1. tip \in 0..NSlots /\ bfTip = tip /\ "lag" \notin Faults
    BY DEF HistoryIsServed, BackfillInv, IndexerKeepsUp, BudgetInv, TypeOK, StoreTypeOK
  <2> QED
    BY <2>1, SlotsAssumption DEF EnvStep, EnvNext, Mint, BfIndex, Reorg, Slots
<1>2. tip \in 0..NSlots /\ EpochOf[tip'] \in Nat /\ EpochOf[tip] <= EpochOf[tip']
  <2>1. tip \in 0..NSlots
    BY DEF BackfillInv, BudgetInv, TypeOK, StoreTypeOK
  <2> QED
    BY <1>1, <2>1, EpochsAssumption
<1>3. Now' \in Nat /\ Now <= Now'
  BY <1>1, <1>2, EpochFacts DEF BackfillInv, Now, schedVars
<1>4. \A p \in Pools, e \in Epochs : Tracked(p, e)' <=> Tracked(p, e)
  BY <1>1 DEF Tracked
<1>5. CopiesAreTracked'
  BY <1>1, TablesFrameGrow, CopiesStep DEF schedVars, reconVars
<1> QED
  BY <1>1, <1>3, <1>4, <1>5, OutsideKeeps DEF IndexerKeepsUp

\* A shutdown or a new start: the tables and the loops' copies stay.
LEMMA LifePrimed ==
    ASSUME BackfillInv, BudgetInv', Shutdown \/ Restart \/ UNCHANGED vars
    PROVE  BackfillInv'
<1> USE DEF storeVars, finVars
<1>1. /\ UNCHANGED <<row, summ, tip, bfTip, sPc, sEpoch, cur, backfill, job, finRows, finHand>>
      /\ UNCHANGED reconVars
  BY DEF Shutdown, Restart, vars, schedVars
<1>2. TablesGrow /\ Now' = Now /\ Now \in Nat
  BY <1>1, TablesFrameGrow, EpochFacts DEF BackfillInv, Now
<1>3. \A p \in Pools, e \in Epochs : Tracked(p, e)' <=> Tracked(p, e)
  BY <1>1 DEF Tracked
<1>4. CopiesAreTracked'
  BY <1>1, <1>2, CopiesStep DEF reconVars
<1>5. IndexerKeepsUp'
  BY <1>1 DEF BackfillInv, IndexerKeepsUp
<1>6. CASE Shutdown \/ UNCHANGED vars
  BY <1>2, <1>3, <1>4, <1>5, <1>6, OutsideKeeps DEF Shutdown, vars, schedVars
<1>7. CASE Restart
  <2>1. cur = {} /\ \A l \in Listings : job[l].pc = "none"
    BY <1>7, EmptyHanded DEF Restart
  <2> QED
    BY <1>1, <1>2, <1>3, <1>4, <2>1, PassKeeps
<1> QED
  BY <1>6, <1>7

\* A crash loses the loops' copies; where it could cut a backfill in two, the
\* backfill is of one epoch.
LEMMA CrashPrimed ==
    ASSUME HistoryIsServed, BackfillInv, BudgetInv', Crash
    PROVE  BackfillInv'
<1>1. /\ UNCHANGED <<row, summ, tip, bfTip>> /\ sPc' = "idle" /\ cur' = {} /\ finRows' = {}
      /\ finHand' = {} /\ estHand' = {} /\ job' = [l \in Listings |-> NoJob]
      /\ BackfillEpochs <= 1
  BY DEF Crash, SchedulerLost, EndTick, chainVars, HistoryIsServed
<1>2. TablesGrow /\ Now' \in Nat /\ Now <= Now' /\ BackfillEpochs \in Nat
  BY <1>1, TablesFrameGrow, EpochFacts DEF BackfillInv, Now
<1>3. RowsPrimed'
  <2>1. \A p \in Pools, f \in Epochs : Tracked(p, f)' => Tracked(p, f)
    BY <1>1 DEF Tracked
  <2> QED
    BY <1>2, <2>1, RowsStep
<1>4. SummariesPrimed'
  <2>1. \A p \in Pools : ~HalfSeeded(p)
    BY <1>1, <1>2 DEF HalfSeeded
  <2>2. \A p \in Pools, e \in Epochs : (summ[p][e].exists)' => summ[p][e].exists
    BY <1>1
  <2> QED
    BY <1>2, <2>1, <2>2, SummariesStep
<1>5. SeedingIsSound' /\ CopiesAreTracked' /\ IndexerKeepsUp'
  BY <1>1 DEF SeedingIsSound, CopiesAreTracked, BackfillInv, IndexerKeepsUp
<1>6. JobsArePrimed'
  <2>1. \A l \in Listings : job'[l].pc = "none"
    BY <1>1 DEF NoJob
  <2> QED
    BY <2>1, NoJobsPrimed
<1> QED
  BY <1>3, <1>4, <1>5, <1>6 DEF BackfillInv

\* ---------------------------------------------------------------- the theorem

\* An empty database has no row and no summary.
LEMMA BackfillInit == Init => BackfillInv
<1> SUFFICES ASSUME Init PROVE BackfillInv
  OBVIOUS
<1> USE DEF Init, StoreInit, SchedulerInit, SchedulerIdle, ReconcilerIdle
<1>1. \A p \in Pools, e \in Epochs : row[p][e].status = "none" /\ ~summ[p][e].exists
  BY DEF NoRow, NoSummary
<1>2. RowsPrimed /\ SummariesPrimed
  BY <1>1 DEF RowsPrimed, SummariesPrimed, Tracked
<1>3. SeedingIsSound /\ CopiesAreTracked /\ IndexerKeepsUp
  BY DEF SeedingIsSound, CopiesAreTracked, IndexerKeepsUp
<1>4. JobsArePrimed
  BY DEF JobsArePrimed, JobIsPrimed, NoJob
<1> QED
  BY <1>2, <1>3, <1>4, BudgetInit DEF BackfillInv

\* Every step of the daemon and its environment keeps the invariant.
LEMMA BackfillNext ==
    ASSUME HistoryIsServed
    PROVE  BackfillInv /\ [Next]_vars => BackfillInv'
<1> SUFFICES ASSUME BackfillInv, [Next]_vars PROVE BackfillInv'
  OBVIOUS
<1>1. BudgetInv'
  BY BudgetNextStep DEF BackfillInv
<1>2. CASE EnvStep
  BY <1>1, <1>2, EnvPrimed
<1>3. CASE SchedulerStep
  BY <1>1, <1>3, SchedulerPrimed DEF SchedulerStep
<1>4. CASE ReconcilerStep
  BY <1>1, <1>4, ReconcilerPrimed DEF ReconcilerStep
<1>5. CASE Shutdown \/ Restart \/ UNCHANGED vars
  BY <1>1, <1>5, LifePrimed
<1>6. CASE Crash
  BY <1>1, <1>6, CrashPrimed
<1> QED
  BY <1>2, <1>3, <1>4, <1>5, <1>6 DEF Next

\* In every run with the history served, and however passes are aborted by a
\* rollover or ended by a shutdown, a pool's tracked epochs are summarised only
\* after its history was seeded: maybeBackfill really comes before
\* finalizeSummaries, for every number of epochs to backfill.
THEOREM HistoryComesFirst ==
    ASSUME HistoryIsServed
    PROVE  Spec => []BackfillFirst
<1>1. BackfillInv => BackfillFirst
  BY DEF BackfillInv, RowsPrimed, Primed, Begun, Tracked, BackfillFirst
<1>2. BackfillInv /\ [Next]_vars => BackfillInv'
  BY BackfillNext
<1> QED
  BY <1>1, <1>2, BackfillInit, PTL DEF Spec
=============================================================================
