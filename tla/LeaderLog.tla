----------------------------- MODULE LeaderLog -----------------------------
(***************************************************************************)
(* The leadership-log daemon: the scheduler and the reconciler loops of    *)
(* Service.Run over one database, with the chain that grows under them,    *)
(* and the ways the process ends.  A shutdown cancels the context and lets *)
(* both loops run to their next check; a crash loses everything but the    *)
(* database.  Either is followed by a new start of the daemon.             *)
(***************************************************************************)
EXTENDS LeaderScheduler, LeaderReconciler

CONSTANTS
    MaxRestarts     \* bound on shutdowns and crashes in one behaviour

ASSUME RestartsAssumption == MaxRestarts \in Nat

VARIABLES
    restarts        \* shutdowns and crashes so far

vars == <<storeVars, ctxDone, schedVars, reconVars, restarts>>

Init ==
    /\ StoreInit
    /\ SchedulerInit
    /\ ReconcilerIdle
    /\ restarts = 0

\* SIGTERM: the context given to Run is cancelled.
Shutdown ==
    /\ "shutdown" \in Faults /\ restarts < MaxRestarts
    /\ ~ctxDone /\ ctxDone' = TRUE
    /\ restarts' = restarts + 1
    /\ UNCHANGED <<storeVars, schedVars, reconVars>>

\* Run returns when both loops have, and the daemon is started again.
Restart ==
    /\ ctxDone /\ sPc = "idle" /\ rPc = "idle"
    /\ ctxDone' = FALSE
    /\ recheckedKeys' = FALSE
    /\ UNCHANGED <<storeVars, sPc, sEpoch, plan, cur, backfill, job, rolledOver,
                   finVars, reconVars, restarts>>

\* The process dies between two steps and is started again.
Crash ==
    /\ "crash" \in Faults /\ restarts < MaxRestarts
    /\ restarts' = restarts + 1
    /\ ctxDone' = FALSE /\ held' = {}
    /\ SchedulerLost /\ EndTick
    /\ UNCHANGED <<chainVars, row, slotSt, obs, summ>>

SchedulerStep  == SchedulerNext  /\ UNCHANGED <<reconVars, restarts>>
ReconcilerStep == ReconcilerNext /\ UNCHANGED <<schedVars, restarts>>
EnvStep        == EnvNext /\ UNCHANGED <<schedVars, reconVars, restarts>>

Next ==
    \/ EnvStep
    \/ SchedulerStep
    \/ ReconcilerStep
    \/ Shutdown \/ Restart \/ Crash

Spec == Init /\ [][Next]_vars

\* Each loop is a goroutine woken by a ticker for ever, and a daemon that has
\* stopped is started again.  Nothing is assumed of the chain or the indexer.
Fairness ==
    /\ WF_vars(SchedulerStep)
    /\ WF_vars(ReconcilerStep)
    /\ WF_vars(Restart)

FairSpec == Spec /\ Fairness

\* ---------------------------------------------------------------- refinement

\* The slot table is a slot ledger, on a chain without switches.
Ledger == INSTANCE SlotLedger WITH ledger <- slotSt

\* The daemon implements the ledger: no interleaving of recompute, rematch,
\* ingestion and settlement enters part of a schedule or settles a slot twice.
LedgerSpec == Ledger!Spec

\* -------------------------------------------------------------------- safety

\* The variables hold values of the tables' and the loops' types.
TypeOK ==
    /\ StoreTypeOK /\ SchedulerTypeOK /\ ReconcilerTypeOK
    /\ restarts \in 0..MaxRestarts

\* A slot recorded as missed is one our pool has no block in: neither a
\* transient error, nor a lagging indexer, nor a chain switch, nor a restart
\* in the middle of a tick makes settlePendingSlots record a false miss.
NoFabricatedMiss ==
    \A p \in Pools, s \in Slots : slotSt[p][s] = "missed" => chain[s] # p

\* A schedule marked ok is the pool's whole schedule for that epoch and nothing
\* else, whatever the rollover, crash, or recompute that came in between.
TrustworthyOk ==
    \A p \in Pools, e \in Epochs :
        row[p][e].status = "ok" =>
            RowsIn(p, e, {"pending", "produced", "missed"}) = Leader[p] \cap SlotsOf(e)

\* A block classified as outside the schedule is outside the pool's leadership:
\* the two loops never raise an anomaly against a schedule being replaced.
NoFalseAnomaly ==
    \A p \in Pools, s \in Slots : obs[p][s] = "no" => s \notin Leader[p]

\* A finalized schedule-based summary is the truth about the epoch: all the
\* pool's slots, split into those it minted in and those it did not.
FinalizedIsTrue ==
    \A p \in Pools, e \in Epochs :
        LET es == summ[p][e]
            led == Leader[p] \cap SlotsOf(e)
            minted == { s \in led : chain[s] = p } IN
        es.finalized /\ ~es.actualsOnly =>
            /\ es.scheduled = Cardinality(led)
            /\ es.produced  = Cardinality(minted)
            /\ es.missed    = Cardinality(led \ minted)

\* A slot that has settled never changes nor disappears: a recompute, a rematch
\* and a stale copy saved late all preserve history.  (On a chain without
\* switches: an orphaned block stored unclassified can still turn a slot that
\* was missed into one that was produced.)
SettledStays ==
    [][\A p \in Pools, s \in Slots :
         slotSt[p][s] \in {"produced", "missed"} => slotSt'[p][s] = slotSt[p][s]]_vars

\* Retries stay bounded across daemon restarts: beyond MaxAttempts, each start
\* of the daemon adds at most its one re-check of a key problem.
AttemptsBounded ==
    \A p \in Pools, e \in Epochs : row[p][e].attempts <= MaxAttempts + restarts

\* The epochs maybeBackfill seeds for a pool first seen in epoch g have their
\* summary.
SeededAt(p, g) ==
    /\ \E e \in Epochs : e < g
    /\ \A e \in Epochs : e < g /\ g <= e + BackfillEpochs => summ[p][e].exists

\* A pool's backfill comes before its first tracked epoch gets a summary: the
\* HasAnySummary gate never closes on a pool whose history was not seeded, at
\* the latest in that epoch (earlier, if the pass that seeded it was aborted).
BackfillFirst ==
    \A p \in Pools, f \in Epochs :
        (/\ row[p][f].status # "none" /\ summ[p][f].exists
         /\ \E e \in Epochs : e < f
         /\ \A e \in Epochs : e < f => row[p][e].status = "none")
            => \E g \in Epochs : g <= f /\ SeededAt(p, g)

\* ------------------------------------------------------------------- liveness

\* A pending slot old enough for both tips is settled, whatever the restarts.
DueSlotsSettle ==
    \A p \in Pools, s \in Slots :
        (slotSt[p][s] = "pending" /\ s + SettleMargin < tip /\ s + SettleMargin < bfTip)
            ~> slotSt[p][s] \in {"produced", "missed"}

\* A tracked epoch that is over, with every slot old enough to settle, gets a
\* finalized summary: no schedule row pins the reconciler's work for ever.
PastEpochsFinalize ==
    \A p \in Pools, e \in Epochs :
        (/\ row[p][e].status # "none" /\ e < EpochOf[tip]
         /\ \A s \in SlotsOf(e) : s + SettleMargin < tip /\ s + SettleMargin < bfTip)
            ~> summ[p][e].finalized

\* ---------------------------------------- what the code's own comments promise

\* reconcile.go: a block stored with scheduled NULL is picked up by
\* rematchObserved once the schedule is ok.
UnclassifiedPickedUp ==
    \A p \in Pools, s \in Slots :
        (obs[p][s] = "null" /\ row[p][EpochOf[s]].status = "ok")
            ~> obs[p][s] # "null"

\* schedule.go: a shutdown refunds the one attempt it interrupted.
AttemptsNonNegative ==
    \A p \in Pools, e \in Epochs : row[p][e].attempts >= 0

\* schedule.go: an epoch whose schedule never became trustworthy is closed with
\* the real production of the pool.
ActualsAreReal ==
    \A p \in Pools, e \in Epochs :
        summ[p][e].finalized /\ summ[p][e].actualsOnly =>
            summ[p][e].produced = Cardinality({ s \in SlotsOf(e) : chain[s] = p })

\* models.go: an expired schedule is one whose epoch ended before it could be
\* computed, so there are no slots of it.
ExpiredUncomputed ==
    \A p \in Pools, e \in Epochs :
        row[p][e].status = "expired" => RowsIn(p, e, {"pending", "produced", "missed"}) = {}
=============================================================================
