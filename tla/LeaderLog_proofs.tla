------------------------- MODULE LeaderLog_proofs --------------------------
(***************************************************************************)
(* The daemon's invariants for every instance: any pools, slots, epochs,   *)
(* listings, settings and failures.  Each loop's part is proved in its own *)
(* module; here the loops, the chain and the ends of the process meet.     *)
(***************************************************************************)
EXTENDS LeaderLog, LeaderLoops_proofs

\* ------------------------------------------------------------ type correctness

\* The tables start empty and both loops start idle: every variable has its type.
LEMMA InitTypes == Init => TypeOK
<1> SUFFICES ASSUME Init PROVE TypeOK
  OBVIOUS
<1>1. StoreTypeOK /\ SchedulerTypeOK
  BY StoreInitTypes, SchedulerInitTypes DEF Init
<1>2. EpochOf[0] \in Epochs /\ 0 \in 0..NSlots
  BY EpochOfType, SlotsAssumption
<1>3. ReconcilerTypeOK
  BY <1>2 DEF Init, ReconcilerIdle, ReconcilerTypeOK
<1> QED
  BY <1>1, <1>3, RestartsAssumption DEF Init, TypeOK

\* A step of the other loop, or of the chain, leaves the scheduler's types alone.
LEMMA SchedulerFrame ==
    ASSUME SchedulerTypeOK, UNCHANGED schedVars
    PROVE  SchedulerTypeOK'
  BY DEF SchedulerTypeOK, schedVars

\* A step of the other loop, or of the chain, leaves the reconciler's types alone.
LEMMA ReconcilerFrame ==
    ASSUME ReconcilerTypeOK, UNCHANGED reconVars
    PROVE  ReconcilerTypeOK'
  BY DEF ReconcilerTypeOK, reconVars

\* The process ends or starts: what is lost is lost to its initial value.
LEMMA LifeTypes ==
    ASSUME TypeOK, Shutdown \/ Restart \/ Crash
    PROVE  TypeOK'
<1> USE RestartsAssumption DEF TypeOK
<1>1. CASE Shutdown
  <2>1. StoreTypeOK'
    BY <1>1 DEF Shutdown, StoreTypeOK, storeVars
  <2>2. restarts' \in 0..MaxRestarts
    BY <1>1 DEF Shutdown
  <2> QED
    BY <1>1, <2>1, <2>2, SchedulerFrame, ReconcilerFrame DEF Shutdown
<1>2. CASE Restart
  <2>1. StoreTypeOK'
    BY <1>2 DEF Restart, StoreTypeOK, storeVars
  <2>2. SchedulerTypeOK'
    BY <1>2 DEF Restart, SchedulerTypeOK, finVars
  <2> QED
    BY <1>2, <2>1, <2>2, ReconcilerFrame DEF Restart
<1>3. CASE Crash
  <2>1. StoreTypeOK'
    BY <1>3 DEF Crash, StoreTypeOK, chainVars
  <2>2. EpochOf[0] \in Epochs /\ [l \in Listings |-> NoJob] \in [Listings -> Job]
    BY EpochOfType, SlotsAssumption, NoJobType
  <2>3. SchedulerTypeOK'
    BY <1>3, <2>2 DEF Crash, SchedulerLost, SchedulerTypeOK
  <2>4. ReconcilerTypeOK'
    BY <1>3, EndTickTypes DEF Crash
  <2>5. restarts' \in 0..MaxRestarts
    BY <1>3 DEF Crash
  <2> QED
    BY <2>1, <2>3, <2>4, <2>5
<1> QED
  BY <1>1, <1>2, <1>3

\* Every step of the daemon and of its environment keeps the types.
LEMMA NextTypes == TypeOK /\ [Next]_vars => TypeOK'
<1> SUFFICES ASSUME TypeOK, [Next]_vars PROVE TypeOK'
  OBVIOUS
<1>1. CASE EnvStep
  <2>1. StoreTypeOK'
    BY <1>1, EnvTypes DEF TypeOK, EnvStep
  <2> QED
    BY <1>1, <2>1, SchedulerFrame, ReconcilerFrame DEF TypeOK, EnvStep
<1>2. CASE SchedulerStep
  <2>1. StoreTypeOK' /\ SchedulerTypeOK'
    BY <1>2, SchedulerTypes DEF TypeOK, SchedulerStep
  <2> QED
    BY <1>2, <2>1, ReconcilerFrame DEF TypeOK, SchedulerStep
<1>3. CASE ReconcilerStep
  <2>1. StoreTypeOK' /\ ReconcilerTypeOK'
    BY <1>3, ReconcilerTypes DEF TypeOK, ReconcilerStep
  <2> QED
    BY <1>3, <2>1, SchedulerFrame DEF TypeOK, ReconcilerStep
<1>4. CASE Shutdown \/ Restart \/ Crash
  BY <1>4, LifeTypes
<1>5. CASE UNCHANGED vars
  BY <1>5, StoreFrame, SchedulerFrame, ReconcilerFrame DEF TypeOK, vars
<1> QED
  BY <1>1, <1>2, <1>3, <1>4, <1>5 DEF Next

\* The database, the loops' local state and the chain stay well typed in every
\* run of the daemon, with any failures, shutdowns and crashes.
THEOREM TypeCorrect == Spec => []TypeOK
  BY InitTypes, NextTypes, PTL DEF Spec

\* ------------------------------------------------------------ the tick's epoch

\* The scheduler never works on an epoch that the node has not reached.
EpochIsSeen == sEpoch <= EpochOf[tip]

\* A loop that is idle remembers no epoch.
LEMMA EpochIsSeenInit == Init => EpochIsSeen
  BY EpochsAssumption, SlotsAssumption
     DEF Init, StoreInit, SchedulerInit, SchedulerIdle, EpochIsSeen

\* The tip only grows, and a tick takes its epoch from it.
LEMMA EpochIsSeenNext == TypeOK /\ EpochIsSeen /\ [Next]_vars => EpochIsSeen'
<1> SUFFICES ASSUME TypeOK, EpochIsSeen, [Next]_vars PROVE EpochIsSeen'
  OBVIOUS
<1> USE DEF TypeOK, EpochIsSeen
<1>1. tip \in 0..NSlots /\ sEpoch \in Nat
  BY EpochsAssumption DEF StoreTypeOK, SchedulerTypeOK
<1>2. /\ EpochOf[0] \in Nat /\ EpochOf[tip] \in Nat /\ EpochOf[0] <= EpochOf[tip]
      /\ \A t \in 0..NSlots : tip <= t => EpochOf[t] \in Nat /\ EpochOf[tip] <= EpochOf[t]
  <2>1. \A t \in 0..NSlots : EpochOf[t] \in Nat
    BY EpochsAssumption
  <2>2. \A s, t \in 0..NSlots : s <= t => EpochOf[s] <= EpochOf[t]
    BY EpochsAssumption
  <2>3. 0 \in 0..NSlots /\ 0 <= tip
    BY <1>1, SlotsAssumption
  <2> QED
    BY <1>1, <2>1, <2>2, <2>3
<1>3. CASE EnvStep
  <2>1. tip' \in 0..NSlots /\ tip <= tip' /\ sEpoch' = sEpoch
    BY <1>1, <1>3, SlotsAssumption
       DEF EnvStep, EnvNext, Mint, BfIndex, Reorg, schedVars, Slots
  <2>2. EpochOf[tip'] \in Nat /\ EpochOf[tip] <= EpochOf[tip']
    BY <1>2, <2>1
  <2> QED
    BY <1>1, <1>2, <2>1, <2>2
<1>4. CASE SchedulerStep
  <2>1. tip' = tip
    BY <1>4, SchedulerSlotWrites DEF SchedulerStep, chainVars
  <2>2. sEpoch' \in {sEpoch, EpochOf[0], EpochOf[tip]}
    BY <1>4, SchedulerEpoch DEF SchedulerStep
  <2> QED
    BY <1>1, <1>2, <2>1, <2>2
<1>5. CASE ReconcilerStep \/ Shutdown \/ Restart \/ UNCHANGED vars
  <2>1. tip' = tip /\ sEpoch' = sEpoch
    BY <1>5, ReconcilerReadsChain DEF ReconcilerStep, Shutdown, Restart, vars, storeVars,
       chainVars, schedVars
  <2> QED
    BY <2>1
<1>6. CASE Crash
  BY <1>2, <1>6 DEF Crash, SchedulerLost, chainVars
<1> QED
  BY <1>3, <1>4, <1>5, <1>6 DEF Next

\* ---------------------------------------------------------- no fabricated miss

\* The inductive invariant: NoFabricatedMiss alone does not survive a chain
\* switch nor a slot looked up behind a lagging indexer, so it is strengthened
\* with how deep a missed slot and a slot to be looked up are.
MissInv == TypeOK /\ MissesAreDeep /\ DueIsDeep

\* No slot is recorded as missed, nor due, in an empty database.
LEMMA MissInit == Init => MissInv
<1> SUFFICES ASSUME Init PROVE MissesAreDeep /\ DueIsDeep
  BY InitTypes DEF MissInv
<1>1. \A p \in Pools, s \in Slots : slotSt[p][s] = "none"
  BY DEF Init, StoreInit
<1>2. bfTip = 0 /\ tip = 0 /\ due = {}
  BY DEF Init, StoreInit, ReconcilerIdle
<1> QED
  BY <1>1, <1>2 DEF MissesAreDeep, DueIsDeep

\* Every step keeps the inductive invariant behind NoFabricatedMiss.
LEMMA MissNext == MissInv /\ [Next]_vars => MissInv'
<1> SUFFICES ASSUME MissInv, [Next]_vars PROVE MissesAreDeep' /\ DueIsDeep'
  BY NextTypes DEF MissInv
<1> USE DEF MissInv, TypeOK
<1>1. TypeOK'
  BY NextTypes
<1>2. CASE EnvStep
  <2>1. MissesAreDeep' /\ bfTip' >= bfTip
    BY <1>2, EnvMisses DEF EnvStep
  <2>2. DueIsDeep'
    BY <1>1, <1>2, <2>1, DueFrame DEF EnvStep, reconVars, StoreTypeOK
  <2> QED
    BY <2>1, <2>2
<1>3. CASE SchedulerStep
  <2>1. MissesAreDeep'
    BY <1>3, SchedulerMisses DEF SchedulerStep
  <2>2. UNCHANGED chainVars
    BY <1>3, SchedulerSlotWrites DEF SchedulerStep
  <2> QED
    BY <1>3, <2>1, <2>2 DEF SchedulerStep, reconVars, chainVars, DueIsDeep
<1>4. CASE ReconcilerStep
  BY <1>4, ReconcilerMisses DEF ReconcilerStep
<1>5. CASE Shutdown \/ Restart \/ UNCHANGED vars
  <2>1. UNCHANGED <<chainVars, slotSt, due>>
    BY <1>5 DEF Shutdown, Restart, vars, storeVars, chainVars, reconVars
  <2> QED
    BY <2>1, MissesFrame DEF DueIsDeep, chainVars
<1>6. CASE Crash
  BY <1>6, MissesFrame DEF Crash, EndTick, DueIsDeep
<1> QED
  BY <1>2, <1>3, <1>4, <1>5, <1>6 DEF Next

\* In every run of the daemon, with any lag, chain switch, failure or restart,
\* a slot recorded as missed is one our pool has no block in.
THEOREM MissesAreFacts == Spec => []NoFabricatedMiss
<1>1. MissInv => NoFabricatedMiss
  BY DEF MissInv, MissesAreDeep, NoFabricatedMiss
<1> QED
  BY <1>1, MissInit, MissNext, PTL DEF Spec

\* ------------------------------------------------------- the budget of attempts

\* What the attempts of a row may have reached by now.
Cap == MaxAttempts + restarts

KeyProblem == { "key_missing", "key_stale" }

\* This start of the daemon has its one re-check of the epoch's key problems
\* still before it: recheckedKeys is not set and no worker is on the epoch yet.
Untried(e) ==
    /\ ~recheckedKeys
    /\ \/ sPc = "idle" /\ e >= EpochOf[tip]
       \/ sPc = "plan" /\ e >= sEpoch
       \/ sPc = "work" /\ e > sEpoch

\* A row with an attempt to spare: it has not started at all, the next start of
\* the daemon is yet to come, or its key problem is to be tried once more.
Saved(ps, e) == ctxDone \/ ps.status = "none" \/ (ps.status \in KeyProblem /\ Untried(e))

InBudget(ps, e) == ps.attempts <= Cap /\ (Saved(ps, e) => ps.attempts < Cap)

\* Every row, and every copy of one that a loop may write back, is in budget.
RowsInBudget == \A p \in Pools, e \in Epochs : InBudget(row[p][e], e)
FinRowsInBudget == \A r \in finRows : r.ps.status # "none" /\ InBudget(r.ps, r.epoch)
EstimatesInBudget ==
    \A x \in estHand : rPc = "estSave" /\ x.ps.status # "none" /\ InBudget(x.ps, rEpoch)

\* A job that is not taken yet, or whose attempt a shutdown refunds, is below.
JobInBudget(l) ==
    /\ job[l].pc \notin {"none", "queued"} => sPc = "work"
    /\ job[l].pc # "none" =>
         job[l].ps.attempts <= Cap /\ (ctxDone \/ job[l].pc = "queued" => job[l].ps.attempts < Cap)
JobsInBudget == \A l \in Listings : JobInBudget(l)

\* A pass is aborted only when the node has moved on to a later epoch.
RolloverIsSeen == rolledOver => sPc = "work" /\ sEpoch < EpochOf[tip]

\* The summaries are brought up to date after the keys were re-checked.
KeysAreTried == sPc \in {"finEpoch", "finRow", "finSave"} => recheckedKeys

CopiesInBudget == FinRowsInBudget /\ EstimatesInBudget /\ JobsInBudget
PassIsSound == EpochIsSeen /\ RolloverIsSeen /\ KeysAreTried
BudgetInv == TypeOK /\ PassIsSound /\ RowsInBudget /\ CopiesInBudget

\* No step takes an attempt back: the cap never falls, and where it stays no row
\* or copy has to save an attempt that it did not have to save before.
Tighter ==
    /\ Cap <= Cap'
    /\ Cap' = Cap =>
         /\ ctxDone' => ctxDone
         /\ \A e \in Epochs : Untried(e)' => ctxDone \/ Untried(e)

\* The cap is a number.
LEMMA CapType == TypeOK => Cap \in Nat
  BY RestartsAssumption, SettingsAssumption DEF TypeOK, Cap

\* ... and so it is after a step.
LEMMA CapNext == ASSUME TypeOK' PROVE Cap' \in Nat
<1>1. restarts' \in Nat
  <2>1. restarts' \in 0..MaxRestarts
    BY Zenon DEF TypeOK
  <2> QED
    BY <2>1, RestartsAssumption
<1>2. MaxAttempts \in Nat
  BY SettingsAssumption
<1>3. \A m, n \in Nat : m + n \in Nat
  OBVIOUS
<1> QED
  BY <1>1, <1>2, <1>3, Zenon DEF Cap

\* How the scheduler moves through its tick: where its control stays, the start
\* of a tick, the end of the planning, an abort, the scan, and the summaries.
LEMMA SchedulerMoves ==
    ASSUME SchedulerNext
    PROVE  /\ UNCHANGED <<tip, ctxDone>>
           /\ \/ /\ UNCHANGED <<recheckedKeys, sPc, sEpoch>>
                 /\ rolledOver' # rolledOver => sPc = "work" /\ EpochOf[tip] # sEpoch
              \/ /\ sPc = "idle" /\ sPc' = "plan" /\ sEpoch' = EpochOf[tip]
                 /\ UNCHANGED <<recheckedKeys, rolledOver>>
              \/ /\ sPc = "plan" /\ sPc' \in {"work", "finScan"}
                 /\ UNCHANGED <<recheckedKeys, sEpoch, rolledOver>>
              \/ AbortPass
              \/ /\ sPc = "finScan" \/ ~rolledOver
                 /\ sPc' = "finEpoch" /\ recheckedKeys' /\ rolledOver' = rolledOver
              \/ /\ sPc \in {"finEpoch", "finRow", "finSave"}
                 /\ sPc' \in {"finEpoch", "finRow", "finSave", "idle"}
                 /\ UNCHANGED <<recheckedKeys, rolledOver>>
<1> USE DEF storeVars, chainVars, workUnchanged, finUnchanged, planVars, finVars
<1>1. CASE SchedulerTick \/ AbortPass
  BY <1>1 DEF SchedulerTick, AbortPass
<1>2. CASE FinScan
  BY <1>2 DEF FinScan, Aborted
<1>3. CASE FinSave \/ (\E e \in Epochs : FinEpoch(e)) \/ (\E r \in finRows : FinCount(r))
  BY <1>3 DEF FinSave, FinEpoch, FinCount, FinGoOn
<1>4. ASSUME NEW l \in Listings, PlanPool(l)
      PROVE  /\ UNCHANGED <<tip, ctxDone, recheckedKeys, sEpoch, rolledOver>>
             /\ sPc = "plan" /\ sPc' \in {"plan", "work", "finScan"}
  BY <1>4 DEF PlanPool
<1>5. ASSUME NEW l \in Listings,
             \/ Seed(l) \/ SkipJob(l) \/ SeeRollover(l) \/ StartCompute(l)
             \/ \E e \in Epochs : BackfillSave(l, e)
      PROVE  /\ UNCHANGED <<tip, ctxDone, recheckedKeys, sPc, sEpoch>>
             /\ rolledOver' # rolledOver => sPc = "work" /\ EpochOf[tip] # sEpoch
  BY <1>5 DEF Seed, BackfillSave, SkipJob, SeeRollover, StartCompute, Takes
<1>6. ASSUME NEW l \in Listings, NEW ps, NEW status, Fail(l, ps, status)
      PROVE  UNCHANGED <<tip, ctxDone, recheckedKeys, sPc, sEpoch, rolledOver>>
  BY <1>6 DEF Fail
<1>7. ASSUME NEW l \in Listings, NEW got \in BOOLEAN,
             \/ KeyMissing(l) \/ PoolLookupFails(l) \/ KeyStale(l)
             \/ CliFails(l, got) \/ CliAnswers(l, got)
      PROVE  UNCHANGED <<tip, ctxDone, recheckedKeys, sPc, sEpoch, rolledOver>>
  BY <1>6, <1>7 DEF KeyMissing, PoolLookupFails, KeyStale, CliFails, CliAnswers
<1>8. ASSUME NEW l \in Listings,
             \/ StoreSlots(l) \/ MarkOk(l) \/ SettleMatched(l)
             \/ \E s \in Slots : Classify(l, s)
      PROVE  UNCHANGED <<tip, ctxDone, recheckedKeys, sPc, sEpoch, rolledOver>>
  BY <1>8 DEF StoreSlots, MarkOk, SettleMatched, Classify
<1> QED
  BY <1>1, <1>2, <1>3, <1>4, <1>5, <1>7, <1>8 DEF SchedulerNext

\* Where the step leaves an epoch untried, it was untried before it or the
\* daemon was stopping.
LEMMA SchedulerTightens ==
    ASSUME TypeOK, PassIsSound, RowsInBudget, SchedulerStep
    PROVE  Tighter /\ PassIsSound'
<1> USE DEF TypeOK, PassIsSound
<1>1. /\ sEpoch \in Nat /\ EpochOf[tip] \in Nat /\ Epochs \subseteq Nat
      /\ Cap' = Cap /\ Cap \in Nat
  BY EpochsAssumption, CapType DEF StoreTypeOK, SchedulerTypeOK, SchedulerStep, Cap
<1>2. EpochIsSeen'
  BY NextTypes, EpochIsSeenNext DEF Next
<1>3. tip' = tip /\ ctxDone' = ctxDone
  BY SchedulerMoves DEF SchedulerStep
<1>4. RolloverIsSeen' /\ KeysAreTried'
  <2>1. rolledOver \in BOOLEAN /\ rolledOver' \in BOOLEAN /\ recheckedKeys \in BOOLEAN
    BY NextTypes DEF Next, SchedulerTypeOK
  <2>2. CASE AbortPass
    BY <2>2 DEF AbortPass, RolloverIsSeen, KeysAreTried
  <2>3. CASE ~AbortPass
    <3>1. RolloverIsSeen'
      <4>1. CASE rolledOver' = rolledOver
        BY <1>1, <1>3, <2>3, <4>1, SchedulerMoves DEF SchedulerStep, RolloverIsSeen
      <4>2. CASE rolledOver' # rolledOver
        <5>1. UNCHANGED <<sPc, sEpoch>> /\ sPc = "work" /\ EpochOf[tip] # sEpoch
          BY <2>3, <4>2, SchedulerMoves DEF SchedulerStep
        <5>2. sEpoch < EpochOf[tip]
          BY <1>1, <5>1 DEF EpochIsSeen
        <5> QED
          BY <1>3, <5>1, <5>2 DEF RolloverIsSeen
      <4> QED
        BY <4>1, <4>2
    <3>2. KeysAreTried'
      BY <2>3, SchedulerMoves DEF SchedulerStep, KeysAreTried
    <3> QED
      BY <3>1, <3>2
  <2> QED
    BY <2>2, <2>3
<1>5. ASSUME NEW e \in Epochs, Untried(e)'
      PROVE  ctxDone \/ Untried(e)
  <2>1. e \in Nat
    BY <1>1
  <2>2. CASE AbortPass
    BY <1>1, <1>3, <1>5, <2>1, <2>2
       DEF AbortPass, WorkersDone, Aborted, RolloverIsSeen, Untried
  <2>3. CASE ~AbortPass
    BY <1>1, <1>3, <1>5, <2>1, <2>3, SchedulerMoves
       DEF SchedulerStep, Untried, RolloverIsSeen, KeysAreTried
  <2> QED
    BY <2>2, <2>3
<1> QED
  BY <1>1, <1>2, <1>3, <1>4, <1>5 DEF Tighter

\* ----------------------------------------------- the rows and copies in budget

\* The same of a row or copy after the step.
SavedNext(ps, e) ==
    ctxDone' \/ ps.status = "none" \/ (ps.status \in KeyProblem /\ Untried(e)')
BudgetNext(ps, e) == ps.attempts <= Cap' /\ (SavedNext(ps, e) => ps.attempts < Cap')

\* A row or copy that is in budget stays there.
LEMMA BudgetKept ==
    ASSUME TypeOK, TypeOK', Tighter, NEW ps \in Row, NEW e \in Epochs, InBudget(ps, e)
    PROVE  BudgetNext(ps, e)
<1>1. Cap \in Nat /\ Cap' \in Nat /\ ps.attempts \in Int
  BY CapType, CapNext DEF Row
<1>2. CASE Cap' = Cap
  <2>1. SavedNext(ps, e) => Saved(ps, e)
    BY <1>2, Zenon DEF Tighter, SavedNext, Saved
  <2> QED
    BY <1>2, <2>1 DEF InBudget, BudgetNext
<1>3. CASE Cap' # Cap
  BY <1>1, <1>3 DEF InBudget, BudgetNext, Tighter
<1> QED
  BY <1>2, <1>3

\* Saving a row in budget keeps the table in budget (SavePoolSchedule).
LEMMA RowBudget ==
    ASSUME TypeOK, TypeOK', Tighter, RowsInBudget, NEW p \in Pools, NEW e \in Epochs, NEW ps,
           SavePoolSchedule(p, e, ps), BudgetNext(ps, e)
    PROVE  RowsInBudget'
<1>1. \A q \in Pools, f \in Epochs : row'[q][f] = IF q = p /\ f = e THEN ps ELSE row[q][f]
  BY DEF SavePoolSchedule, TypeOK, StoreTypeOK
<1>2. \A q \in Pools, f \in Epochs : row[q][f] \in Row
  BY DEF TypeOK, StoreTypeOK
<1>3. \A q \in Pools, f \in Epochs : BudgetNext(row[q][f], f)
  BY <1>2, BudgetKept DEF RowsInBudget
<1>4. \A q \in Pools, f \in Epochs : BudgetNext(row'[q][f], f)
  BY <1>1, <1>3, Zenon
<1> QED
  BY <1>4 DEF RowsInBudget, InBudget, Saved, BudgetNext, SavedNext

\* The table stays in budget where it is not written.
LEMMA RowsBudgetFrame ==
    ASSUME TypeOK, TypeOK', Tighter, RowsInBudget, UNCHANGED row
    PROVE  RowsInBudget'
<1>1. \A q \in Pools, f \in Epochs : row[q][f] \in Row
  BY DEF TypeOK, StoreTypeOK
<1>2. \A q \in Pools, f \in Epochs : BudgetNext(row'[q][f], f)
  BY <1>1, BudgetKept DEF RowsInBudget
<1> QED
  BY <1>2 DEF RowsInBudget, InBudget, Saved, BudgetNext, SavedNext

\* The copies finalizeSummaries has still to visit stay in budget.
LEMMA FinRowsBudget ==
    ASSUME TypeOK, TypeOK', Tighter, FinRowsInBudget, finRows' \subseteq finRows
    PROVE  FinRowsInBudget'
<1>1. \A r \in finRows : r.ps \in Row /\ r.epoch \in Epochs
  BY DEF TypeOK, SchedulerTypeOK, FinRow
<1>2. \A r \in finRows' : BudgetNext(r.ps, r.epoch) /\ r.ps.status # "none"
  BY <1>1, BudgetKept DEF FinRowsInBudget
<1> QED
  BY <1>2 DEF FinRowsInBudget, InBudget, Saved, BudgetNext, SavedNext

\* The copy ensureRewardEstimates is about to save stays in budget.
LEMMA EstimatesBudget ==
    ASSUME TypeOK, TypeOK', Tighter, EstimatesInBudget,
           estHand' = {} \/ UNCHANGED <<estHand, rEpoch, rPc>>
    PROVE  EstimatesInBudget'
<1>1. CASE estHand' = {}
  BY <1>1 DEF EstimatesInBudget
<1>2. CASE UNCHANGED <<estHand, rEpoch, rPc>>
  <2>1. rEpoch \in Epochs /\ \A x \in estHand : x.ps \in Row
    BY DEF TypeOK, ReconcilerTypeOK
  <2>2. \A x \in estHand : BudgetNext(x.ps, rEpoch) /\ x.ps.status # "none"
    BY <2>1, BudgetKept DEF EstimatesInBudget
  <2>3. rEpoch' = rEpoch /\ estHand' = estHand /\ rPc' = rPc
    BY <1>2
  <2> QED
    BY <2>2, <2>3 DEF EstimatesInBudget, InBudget, Saved, BudgetNext, SavedNext, Untried
<1> QED
  BY <1>1, <1>2

\* A job that goes on with its row, or ends, stays in budget.
LEMMA JobBudget ==
    ASSUME TypeOK, TypeOK', Tighter, NEW l \in Listings, JobInBudget(l),
           job'[l].pc # "none" =>
             /\ job[l].pc # "none" /\ job'[l].ps.attempts = job[l].ps.attempts
             /\ job'[l].pc = "queued" => job[l].pc = "queued"
             /\ job'[l].pc # "queued" => sPc' = "work"
    PROVE  JobInBudget(l)'
<1>1. Cap \in Nat /\ Cap' \in Nat
  BY CapType, CapNext
<1>2. job[l].ps.attempts \in Int
  BY DEF TypeOK, SchedulerTypeOK, Job, Row
<1>3. CASE Cap' = Cap
  BY <1>3 DEF JobInBudget, Tighter
<1>4. CASE Cap' # Cap
  <2>1. Cap < Cap'
    BY <1>1, <1>4 DEF Tighter
  <2>2. job'[l].pc # "none" => job'[l].ps.attempts < Cap' /\ job'[l].ps.attempts <= Cap'
    BY <1>1, <1>2, <2>1 DEF JobInBudget
  <2> QED
    BY <2>2 DEF JobInBudget
<1> QED
  BY <1>3, <1>4

\* Jobs that a step leaves alone stay in budget, if no worker loses its pass.
LEMMA JobsBudgetFrame ==
    ASSUME TypeOK, TypeOK', Tighter, JobsInBudget, UNCHANGED job,
           sPc = "work" => sPc' = "work" \/ \A l \in Listings : job[l].pc = "none"
    PROVE  JobsInBudget'
<1>1. ASSUME NEW l \in Listings
      PROVE  JobInBudget(l)'
  <2>1. JobInBudget(l)
    BY DEF JobsInBudget
  <2>2. job[l].pc \notin {"none", "queued"} => sPc' = "work"
    BY <2>1 DEF JobInBudget
  <2> QED
    BY <2>1, <2>2, JobBudget
<1> QED
  BY <1>1 DEF JobsInBudget

\* ------------------------------------------------------- a step of the scheduler

\* What a scheduler step has to keep: the table, and the scheduler's own copies.
TablesBudget == RowsInBudget' /\ FinRowsInBudget' /\ JobsInBudget'
StepBase == BudgetInv /\ TypeOK' /\ Tighter

\* A step that moves one job keeps the others in budget.
LEMMA JobsBudget ==
    ASSUME StepBase, NEW l \in Listings, \A m \in Listings : m # l => job'[m] = job[m],
           sPc = "work" => sPc' = "work", JobInBudget(l)'
    PROVE  JobsInBudget'
<1> USE DEF StepBase, BudgetInv, CopiesInBudget
<1>1. ASSUME NEW m \in Listings, m # l
      PROVE  JobInBudget(m)'
  <2>1. JobInBudget(m) /\ job'[m] = job[m]
    BY <1>1 DEF JobsInBudget
  <2> QED
    BY <2>1, JobBudget DEF JobInBudget
<1> QED
  BY <1>1 DEF JobsInBudget

\* A worker that is done drops its job.
LEMMA DropBudget ==
    ASSUME StepBase, NEW l \in Listings, DropJob(l), sPc' = sPc
    PROVE  JobsInBudget'
<1>1. job'[l] = NoJob /\ \A m \in Listings : m # l => job'[m] = job[m]
  BY DEF DropJob, StepBase, BudgetInv, TypeOK, SchedulerTypeOK
<1>2. JobInBudget(l)'
  BY <1>1 DEF JobInBudget, NoJob
<1> QED
  BY <1>1, <1>2, JobsBudget

\* Steps that write no row and move no job.
LEMMA QuietBudget ==
    ASSUME StepBase, UNCHANGED <<row, job>>, finRows' \subseteq finRows,
           sPc = "work" => sPc' = "work" \/ \A l \in Listings : job[l].pc = "none"
    PROVE  TablesBudget
  BY RowsBudgetFrame, FinRowsBudget, JobsBudgetFrame
     DEF StepBase, BudgetInv, CopiesInBudget, TablesBudget

\* The planning loop queues a row that has an attempt to spare: it is not there
\* yet, its key problem is untried, or it is below MaxAttempts (needsCompute).
LEMMA PlanBudget ==
    ASSUME StepBase, NEW l \in Listings, PlanPool(l)
    PROVE  TablesBudget
<1> USE DEF StepBase, BudgetInv, CopiesInBudget, TablesBudget
<1> DEFINE ps == row[PoolOf[l]][sEpoch]
<1>1. UNCHANGED <<row, finRows>>
  BY DEF PlanPool, storeVars, finVars
<1>2. RowsInBudget' /\ FinRowsInBudget'
  BY <1>1, RowsBudgetFrame, FinRowsBudget
<1>3. CASE job' = job
  BY <1>1, <1>2, <1>3, QuietBudget DEF PlanPool
<1>4. CASE job' # job
  <2>1. /\ ps.status = "none" \/ NeedsCompute(ps)
        /\ job' = [job EXCEPT ![l] = [NoJob EXCEPT !.pc = "queued", !.ps = ps]]
        /\ sPc = "plan"
    BY <1>4 DEF PlanPool
  <2>2. ps \in Row /\ InBudget(ps, sEpoch) /\ sEpoch \in Nat
    BY PoolOfType, EpochsAssumption DEF TypeOK, StoreTypeOK, SchedulerTypeOK, RowsInBudget
  <2>3. ps.attempts < Cap
    <3>1. Cap \in Nat /\ MaxAttempts <= Cap /\ MaxAttempts \in Nat /\ ps.attempts \in Int
      BY <2>2, RestartsAssumption, SettingsAssumption DEF TypeOK, Cap, Row
    <3>2. CASE ps.status = "none"
      BY <2>2, <3>2 DEF InBudget, Saved
    <3>3. CASE ps.status \in KeyProblem /\ ~recheckedKeys
      BY <2>1, <2>2, <3>3 DEF InBudget, Saved, Untried
    <3>4. CASE ps.attempts < MaxAttempts
      BY <3>1, <3>4
    <3> QED
      BY <2>1, <3>2, <3>3, <3>4 DEF NeedsCompute, KeyProblem
  <2>4. Cap \in Nat /\ Cap' \in Nat /\ Cap <= Cap' /\ ps.attempts \in Int
    BY <2>2, CapType, CapNext DEF Tighter, Row
  <2>5. job'[l].pc = "queued" /\ job'[l].ps = ps /\ \A m \in Listings : m # l => job'[m] = job[m]
    BY <2>1 DEF TypeOK, SchedulerTypeOK, NoJob
  <2> HIDE DEF ps
  <2>6. JobInBudget(l)'
    BY <2>3, <2>4, <2>5 DEF JobInBudget
  <2>7. JobsInBudget'
    BY <2>1, <2>5, <2>6, JobsBudget
  <2> QED
    BY <1>2, <2>7
<1> QED
  BY <1>3, <1>4

\* A worker that starts a job spends the attempt that was to spare (computePool).
LEMMA TakeBudget ==
    ASSUME StepBase, NEW l \in Listings, SkipJob(l) \/ SeeRollover(l) \/ StartCompute(l)
    PROVE  TablesBudget
<1> USE DEF StepBase, BudgetInv, CopiesInBudget, TablesBudget
<1>1. UNCHANGED <<sPc, sEpoch, finRows, ctxDone>> /\ sPc = "work" /\ job[l].pc = "queued"
  BY DEF SkipJob, SeeRollover, StartCompute, Takes, workUnchanged, finVars
<1>2. FinRowsInBudget'
  BY <1>1, FinRowsBudget
<1>3. CASE DropJob(l) /\ UNCHANGED row
  BY <1>1, <1>2, <1>3, DropBudget, RowsBudgetFrame
<1>4. CASE StartCompute(l) /\ ~(DropJob(l) /\ UNCHANGED row)
  <2> DEFINE ps == [job[l].ps EXCEPT !.status = "pending", !.attempts = @ + 1]
             j  == [job[l] EXCEPT !.pc = "verify", !.ps = ps]
  <2>1. /\ job' = [job EXCEPT ![l] = j]
        /\ SavePoolSchedule(PoolOf[l], sEpoch, ps)
        /\ ~ctxDone
    BY <1>4 DEF StartCompute
  <2>2. /\ ps.status = "pending" /\ ps.attempts = job[l].ps.attempts + 1
        /\ j.pc = "verify" /\ j.ps = ps
    BY JobFields DEF TypeOK, Row, Job
  <2>3. /\ job[l].ps.attempts < Cap /\ Cap \in Nat /\ Cap' \in Nat /\ Cap <= Cap'
        /\ job[l].ps.attempts \in Int /\ PoolOf[l] \in Pools /\ sEpoch \in Epochs
    BY <1>1, CapType, CapNext, JobFields, PoolOfType
       DEF JobsInBudget, JobInBudget, Tighter, TypeOK, SchedulerTypeOK, Row
  <2> HIDE DEF ps
  <2>4. ps.attempts <= Cap'
    BY <2>2, <2>3
  <2>5. BudgetNext(ps, sEpoch)
    BY <1>1, <2>1, <2>2, <2>4 DEF BudgetNext, SavedNext, KeyProblem
  <2>6. RowsInBudget'
    BY <2>1, <2>3, <2>5, RowBudget
  <2> HIDE DEF j
  <2>7. job'[l] = j /\ \A m \in Listings : m # l => job'[m] = job[m]
    BY <2>1 DEF TypeOK, SchedulerTypeOK
  <2>8. JobInBudget(l)'
    BY <1>1, <2>1, <2>2, <2>4, <2>7 DEF JobInBudget
  <2>9. JobsInBudget'
    BY <1>1, <2>7, <2>8, JobsBudget
  <2> QED
    BY <1>2, <2>6, <2>9
<1> QED
  BY <1>3, <1>4 DEF SkipJob, SeeRollover, storeVars

\* fail() saves a row with no more attempts than the job's, one less when the
\* daemon is stopping; the key problem it may save has now been tried.
LEMMA FailBudget ==
    ASSUME StepBase, NEW l \in Listings, job[l].pc = "verify", NEW ps \in Row,
           ps.attempts <= job[l].ps.attempts, NEW status \in Status \ {"none"},
           Fail(l, ps, status)
    PROVE  TablesBudget
<1> USE DEF StepBase, BudgetInv, CopiesInBudget, TablesBudget
<1> DEFINE failed == FailedRow(ps, status)
<1>1. UNCHANGED <<sPc, sEpoch, finRows, ctxDone>> /\ DropJob(l)
      /\ SavePoolSchedule(PoolOf[l], sEpoch, failed)
  BY DEF Fail, workUnchanged, finVars
<1>2. FinRowsInBudget' /\ JobsInBudget'
  BY <1>1, FinRowsBudget, DropBudget
<1>3. /\ sPc = "work" /\ job[l].ps.attempts <= Cap /\ (ctxDone => job[l].ps.attempts < Cap)
      /\ job[l].ps.attempts \in Int /\ ps.attempts \in Int /\ PoolOf[l] \in Pools
      /\ sEpoch \in Epochs /\ sEpoch \in Nat /\ Cap \in Nat /\ Cap' \in Nat /\ Cap <= Cap'
  BY CapType, CapNext, JobFields, PoolOfType, EpochsAssumption
     DEF JobsInBudget, JobInBudget, Tighter, TypeOK, SchedulerTypeOK, Row
<1>4. failed.status # "none" /\ failed.attempts <= ps.attempts
  BY <1>3 DEF FailedRow, Row
<1>5. ctxDone => failed.attempts < ps.attempts
  BY <1>3 DEF FailedRow, Row
<1>6. failed.attempts \in Int
  BY <1>3 DEF FailedRow, Row
<1> HIDE DEF failed
<1>7. failed.attempts <= Cap' /\ (ctxDone' => failed.attempts < Cap')
  BY <1>1, <1>3, <1>4, <1>5, <1>6
<1>8. ~Untried(sEpoch)'
  BY <1>1, <1>3 DEF Untried
<1>9. BudgetNext(failed, sEpoch)
  BY <1>4, <1>7, <1>8 DEF BudgetNext, SavedNext
<1> QED
  BY <1>1, <1>2, <1>3, <1>9, RowBudget

\* Every outcome of the key checks and of the cli run stays in budget.
LEMMA VerifyBudget ==
    ASSUME StepBase, NEW l \in Listings, NEW got \in BOOLEAN,
           \/ KeyMissing(l) \/ PoolLookupFails(l) \/ KeyStale(l)
           \/ CliFails(l, got) \/ CliAnswers(l, got)
    PROVE  TablesBudget
<1> USE DEF StepBase, BudgetInv, CopiesInBudget
<1>1. job[l].ps \in Row /\ job[l].ps.attempts \in Int /\ job[l].pc = "verify"
  BY JobFields
     DEF TypeOK, Row, KeyMissing, PoolLookupFails, KeyStale, CliFails, CliAnswers, Verified
<1>2. {"pending", "key_missing", "key_stale", "cli_error"} \subseteq Status \ {"none"}
  BY DEF Status
<1>3. CASE KeyMissing(l) \/ KeyStale(l)
  BY <1>1, <1>2, <1>3, FailBudget DEF KeyMissing, KeyStale
<1>4. CASE PoolLookupFails(l)
  <2> DEFINE ps == [job[l].ps EXCEPT !.attempts = @ - 1]
  <2>1. ps \in Row /\ ps.attempts <= job[l].ps.attempts
    BY <1>1 DEF Row
  <2>2. Fail(l, ps, "pending")
    BY <1>4 DEF PoolLookupFails
  <2> QED
    BY <1>1, <1>2, <2>1, <2>2, FailBudget
<1>5. WithEstimate(l, got) \in Row /\ WithEstimate(l, got).attempts = job[l].ps.attempts
  BY <1>1 DEF WithEstimate, Row, Fillable
<1>6. CASE CliFails(l, got) \/ Fail(l, WithEstimate(l, got), "cli_error")
  <2>1. Fail(l, WithEstimate(l, got), "cli_error")
    BY <1>6 DEF CliFails
  <2> QED
    BY <1>1, <1>2, <1>5, <2>1, FailBudget
<1>7. CASE CliAnswers(l, got) /\ ~Fail(l, WithEstimate(l, got), "cli_error")
  <2> DEFINE entries == CliEntries(PoolOf[l])
             j == [job[l] EXCEPT !.pc = "store", !.ps = WithEstimate(l, got), !.slots = entries]
  <2>1. job' = [job EXCEPT ![l] = j] /\ UNCHANGED <<storeVars, rolledOver, workUnchanged>>
    BY <1>7 DEF CliAnswers
  <2>2. UNCHANGED <<row, sPc, finRows>>
    BY <2>1 DEF storeVars, workUnchanged, finVars
  <2>3. j.pc = "store" /\ j.ps.attempts = job[l].ps.attempts
    BY <1>5, JobFields DEF TypeOK, Job
  <2> HIDE DEF j
  <2>4. job'[l] = j /\ \A m \in Listings : m # l => job'[m] = job[m]
    BY <2>1 DEF TypeOK, SchedulerTypeOK
  <2>5. JobInBudget(l) /\ sPc = "work"
    BY <1>1 DEF JobsInBudget, JobInBudget
  <2>6. JobInBudget(l)'
    BY <1>1, <2>2, <2>3, <2>4, <2>5, JobBudget
  <2>7. JobsInBudget'
    BY <2>2, <2>4, <2>6, JobsBudget
  <2> QED
    BY <2>2, <2>7, RowsBudgetFrame, FinRowsBudget DEF TablesBudget
<1> QED
  BY <1>3, <1>4, <1>6, <1>7 DEF CliFails

\* A job that goes on with the blocks left, or is done, spends nothing.
LEMMA RematchBudget ==
    ASSUME StepBase, NEW l \in Listings, NEW j \in Job, NEW left,
           job[l].pc \notin {"none", "queued"}, sPc' = sPc, j.ps.attempts = job[l].ps.attempts,
           job'[l] = Rematching(j, left)
    PROVE  JobInBudget(l)'
<1> USE DEF StepBase, BudgetInv, CopiesInBudget
<1>1. JobInBudget(l) /\ sPc = "work"
  BY DEF JobsInBudget, JobInBudget
<1>2. CASE left = {}
  BY <1>2 DEF Rematching, NoJob, JobInBudget
<1>3. CASE left # {}
  <2>1. job'[l] = [j EXCEPT !.pc = "classify", !.slots = left, !.hand = 0]
    BY <1>3 DEF Rematching
  <2>2. job'[l].pc = "classify" /\ job'[l].ps = j.ps
    BY <2>1 DEF Job
  <2> QED
    BY <1>1, <2>2, JobBudget
<1> QED
  BY <1>2, <1>3

\* Storing the schedule and rematching the blocks spend no attempt.
LEMMA StoreBudget ==
    ASSUME StepBase, NEW l \in Listings,
           \/ StoreSlots(l) \/ MarkOk(l) \/ SettleMatched(l)
           \/ \E s \in Slots : Classify(l, s)
    PROVE  TablesBudget
<1> USE DEF StepBase, BudgetInv, CopiesInBudget
<1>1. UNCHANGED <<sPc, sEpoch, finRows, ctxDone>> /\ job[l].pc \notin {"none", "queued", "verify"}
  BY DEF StoreSlots, MarkOk, SettleMatched, Classify, workUnchanged, finVars
<1>2. FinRowsInBudget'
  BY <1>1, FinRowsBudget
<1>3. \A m \in Listings : job[m] \in Job /\ JobInBudget(m)
  BY DEF TypeOK, SchedulerTypeOK, JobsInBudget
<1>4. sPc = "work" /\ job \in [Listings -> Job]
  BY <1>1, <1>3 DEF JobInBudget, TypeOK, SchedulerTypeOK
<1>5. CASE StoreSlots(l)
  <2>1. ASSUME NEW m \in Listings
        PROVE  JobInBudget(m)'
    <3>1. CASE m = l
      <4>1. job'[m] = [job[m] EXCEPT !.pc = "mark", !.slots = {}]
        BY <1>5, <3>1 DEF StoreSlots
      <4>2. job'[m].pc = "mark" /\ job'[m].ps = job[m].ps
        BY <1>3, <4>1 DEF Job
      <4> QED
        BY <1>1, <1>3, <1>4, <3>1, <4>2, JobBudget
    <3>2. CASE /\ m # l /\ PoolOf[m] = PoolOf[l] /\ job[m].pc = "settle"
               /\ job[m].hand \in job[l].slots
      <4>1. job'[m] = Rematching(job[m], job[m].slots)
        BY <1>5, <3>2 DEF StoreSlots
      <4> QED
        BY <1>1, <1>3, <3>2, <4>1, RematchBudget
    <3>3. CASE /\ m # l
               /\ ~(/\ PoolOf[m] = PoolOf[l] /\ job[m].pc = "settle"
                    /\ job[m].hand \in job[l].slots)
      <4>1. job'[m] = job[m]
        BY <1>5, <3>3 DEF StoreSlots
      <4> QED
        BY <1>1, <1>3, <1>4, <4>1, JobBudget
    <3> QED
      BY <3>1, <3>2, <3>3
  <2> QED
    BY <1>2, <1>5, <2>1, RowsBudgetFrame DEF StoreSlots, TablesBudget, JobsInBudget
<1>6. CASE MarkOk(l)
  <2> DEFINE ps == [job[l].ps EXCEPT !.status = "ok"]
             j  == [job[l] EXCEPT !.ps = ps]
  <2>1. SavePoolSchedule(PoolOf[l], sEpoch, ps)
        /\ job' = [job EXCEPT ![l] = Rematching(j, Unclassified(PoolOf[l], sEpoch))]
    BY <1>6 DEF MarkOk
  <2>2. ps.status = "ok" /\ ps \in Row /\ ps.attempts = job[l].ps.attempts
    BY <1>3 DEF Job, Row, Status
  <2>3. j \in Job /\ j.ps = ps
    BY <1>3, <2>2 DEF Job
  <2>4. /\ ps.attempts <= Cap /\ (ctxDone => ps.attempts < Cap) /\ ps.attempts \in Int
        /\ Cap \in Nat /\ Cap' \in Nat /\ Cap <= Cap'
    BY <1>1, <1>3, <2>2, CapType, CapNext DEF JobInBudget, Tighter, Row
  <2> HIDE DEF ps, j
  <2>5. BudgetNext(ps, sEpoch)
    BY <1>1, <2>2, <2>4 DEF BudgetNext, SavedNext, KeyProblem
  <2>6. RowsInBudget'
    BY <2>1, <2>5, RowBudget, PoolOfType DEF TypeOK, SchedulerTypeOK
  <2>7. /\ job'[l] = Rematching(j, Unclassified(PoolOf[l], sEpoch))
        /\ \A m \in Listings : m # l => job'[m] = job[m]
    BY <1>4, <2>1
  <2>8. JobInBudget(l)'
    BY <1>1, <2>2, <2>3, <2>7, RematchBudget
  <2> QED
    BY <1>1, <1>2, <2>6, <2>7, <2>8, JobsBudget DEF TablesBudget
<1>7. CASE SettleMatched(l)
  <2>1. /\ job'[l] = Rematching(job[l], job[l].slots)
        /\ \A m \in Listings : m # l => job'[m] = job[m]
    BY <1>4, <1>7 DEF SettleMatched
  <2>2. JobInBudget(l)'
    BY <1>1, <1>3, <2>1, RematchBudget
  <2> QED
    BY <1>1, <1>2, <1>7, <2>1, <2>2, JobsBudget, RowsBudgetFrame DEF SettleMatched, TablesBudget
<1>8. ASSUME NEW s \in Slots, Classify(l, s)
      PROVE  TablesBudget
  <2> DEFINE left == job[l].slots \ {s}
             waits == [job[l] EXCEPT !.pc = "settle", !.slots = left, !.hand = s]
  <2>1. /\ job' = [job EXCEPT ![l] = waits] \/ job' = [job EXCEPT ![l] = Rematching(job[l], left)]
        /\ UNCHANGED row
    BY <1>8 DEF Classify
  <2>2. waits.pc = "settle" /\ waits.ps = job[l].ps
    BY <1>3 DEF Job
  <2> HIDE DEF waits
  <2>3. /\ job'[l] = waits \/ job'[l] = Rematching(job[l], left)
        /\ \A m \in Listings : m # l => job'[m] = job[m]
    BY <1>4, <2>1
  <2>4. JobInBudget(l)'
    <3>1. CASE job'[l] = waits
      BY <1>1, <1>3, <1>4, <2>2, <3>1, JobBudget
    <3>2. CASE job'[l] = Rematching(job[l], left)
      BY <1>1, <1>3, <3>2, RematchBudget
    <3> QED
      BY <2>3, <3>1, <3>2
  <2> QED
    BY <1>1, <1>2, <2>1, <2>3, <2>4, JobsBudget, RowsBudgetFrame DEF TablesBudget
<1> QED
  BY <1>5, <1>6, <1>7, <1>8

\* finalizeSummaries reads rows in budget, and the row it expires spends nothing.
LEMMA FinBudget ==
    ASSUME StepBase,
           \/ FinScan \/ FinSave \/ AbortPass
           \/ \E e \in Epochs : FinEpoch(e)
           \/ \E r \in finRows : FinCount(r)
    PROVE  TablesBudget
<1> USE DEF StepBase, BudgetInv, CopiesInBudget
<1> USE DEF storeVars, planVars, finVars, finUnchanged, chainVars
<1>2. CASE FinScan \/ AbortPass
  <2>1. sPc = "work" => \A l \in Listings : job[l].pc = "none"
    BY <1>2 DEF FinScan, AbortPass, WorkersDone
  <2>2. UNCHANGED <<row, job, finRows>>
    BY <1>2 DEF FinScan, AbortPass
  <2> QED
    BY <2>1, <2>2, QuietBudget
<1>3. CASE FinSave
  BY <1>3, QuietBudget DEF FinSave
<1>4. ASSUME NEW e \in Epochs, FinEpoch(e)
      PROVE  TablesBudget
  <2>1. UNCHANGED <<row, job>> /\ sPc = "finEpoch"
    BY <1>4 DEF FinEpoch
  <2>2. RowsInBudget' /\ JobsInBudget'
    BY <2>1, RowsBudgetFrame, JobsBudgetFrame
  <2>3. \A r \in finRows' : /\ r.pool \in Pools /\ r.epoch = e /\ r.ps = row[r.pool][e]
                            /\ r.ps.status # "none"
    BY <1>4 DEF FinEpoch
  <2>4. \A p \in Pools : row'[p][e] = row[p][e]
    BY <2>1
  <2>5. \A r \in finRows' : InBudget(r.ps, r.epoch)'
    BY <2>2, <2>3, <2>4 DEF RowsInBudget, InBudget, Saved
  <2> QED
    BY <2>2, <2>3, <2>5 DEF TablesBudget, FinRowsInBudget
<1>5. ASSUME NEW r \in finRows, FinCount(r)
      PROVE  TablesBudget
  <2>1. UNCHANGED job /\ finRows' \subseteq finRows /\ sPc = "finRow"
    BY <1>5 DEF FinCount
  <2>2. FinRowsInBudget' /\ JobsInBudget'
    BY <2>1, FinRowsBudget, JobsBudgetFrame
  <2>3. CASE UNCHANGED row
    BY <2>2, <2>3, RowsBudgetFrame DEF TablesBudget
  <2>4. CASE row' # row
    <3> DEFINE ps == [r.ps EXCEPT !.status = "expired"]
    <3>1. SavePoolSchedule(r.pool, r.epoch, ps)
      BY <1>5, <2>4 DEF FinCount
    <3>2. r.pool \in Pools /\ r.epoch \in Epochs /\ r.ps \in Row
      BY DEF TypeOK, SchedulerTypeOK, FinRow
    <3>3. BudgetNext(r.ps, r.epoch)
      BY <3>2, BudgetKept DEF FinRowsInBudget
    <3>4. ps.status = "expired" /\ ps.attempts = r.ps.attempts
      BY <3>2 DEF Row
    <3> HIDE DEF ps
    <3>5. BudgetNext(ps, r.epoch)
      BY <3>3, <3>4 DEF BudgetNext, SavedNext, KeyProblem
    <3>6. RowsInBudget'
      BY <3>1, <3>2, <3>5, RowBudget
    <3> QED
      BY <2>2, <3>6 DEF TablesBudget
  <2> QED
    BY <2>3, <2>4
<1> QED
  BY <1>2, <1>3, <1>4, <1>5

\* Every step of the scheduler.
LEMMA SchedulerBudget ==
    ASSUME StepBase, SchedulerNext
    PROVE  TablesBudget
<1>1. CASE SchedulerTick
  BY <1>1, QuietBudget DEF SchedulerTick, storeVars, finVars
<1>2. ASSUME NEW l \in Listings, Seed(l) \/ \E e \in Epochs : BackfillSave(l, e)
      PROVE  TablesBudget
  BY <1>2, QuietBudget DEF Seed, BackfillSave, storeVars, finVars
<1> QED
  BY <1>1, <1>2, PlanBudget, TakeBudget, VerifyBudget, StoreBudget, FinBudget DEF SchedulerNext

\* ----------------------------------------------------- a step of the reconciler

\* The reconciler writes schedule rows only to fill their estimates in, from the
\* copies it read, and does nothing else in between (ensureRewardEstimates).
LEMMA ReconcilerRows ==
    ASSUME ReconcilerNext
    PROVE  \/ /\ UNCHANGED row
              /\ estHand' = {} \/ (rPc # "estSave" /\ UNCHANGED estHand)
           \/ \E p \in Pools, got \in SUBSET Fillable : EstimateRead(p, got)
           \/ \E x \in estHand : EstimateSave(x)
<1> USE DEF storeVars, ingestUnchanged, tickVars, estVars
<1>1. CASE ReconcileTick \/ QuitTick \/ LatestFails \/ SettleStart
  BY <1>1 DEF ReconcileTick, QuitTick, LatestFails, SettleStart, EstimatesDone, IngestDone, EndTick
<1>2. CASE \E p \in Pools, e \in Epochs, n \in 1..NSlots : ListFails(p, e, n) \/ ListPage(p, e, n)
  BY <1>2 DEF ListFails, ListPage, Asks
<1>3. CASE \E g \in listing : \E s \in g.hashes : BlockFails(g, s) \/ FetchBlock(g, s)
  BY <1>3 DEF BlockFails, FetchBlock
<1>4. CASE \/ \E h \in hand : FindSlot(h) \/ MarkProduced(h)
           \/ \E g \in listing, h \in hand : RecordBlock(g, h)
  BY <1>4 DEF FindSlot, MarkProduced, RecordBlock
<1>5. CASE \E k \in due : LookupFails(k) \/ SettleSlot(k)
  BY <1>5 DEF LookupFails, SettleSlot, SlotDone, EndTick
<1> QED
  BY <1>1, <1>2, <1>3, <1>4, <1>5 DEF ReconcilerNext

\* Every step of the reconciler: a copy it reads is in budget, and so is the row
\* it makes of it, even when a worker has spent more attempts since.
LEMMA ReconcilerBudget ==
    ASSUME StepBase, ReconcilerNext, UNCHANGED <<sPc, sEpoch, recheckedKeys, tip, ctxDone>>
    PROVE  RowsInBudget' /\ EstimatesInBudget'
<1> USE DEF StepBase, BudgetInv, CopiesInBudget
<1>1. ASSUME UNCHANGED row, estHand' = {} \/ (rPc # "estSave" /\ UNCHANGED estHand)
      PROVE  RowsInBudget' /\ EstimatesInBudget'
  <2>1. estHand' = {}
    BY <1>1 DEF EstimatesInBudget
  <2> QED
    BY <1>1, <2>1, RowsBudgetFrame, EstimatesBudget
<1>2. ASSUME NEW p \in Pools, NEW got \in SUBSET Fillable, EstimateRead(p, got)
      PROVE  RowsInBudget' /\ EstimatesInBudget'
  <2>1. UNCHANGED row /\ rEpoch' = rEpoch /\ rPc = "tick"
    BY <1>2 DEF EstimateRead, IngestDone, storeVars, tickVars
  <2>2. CASE UNCHANGED estHand
    BY <1>1, <2>1, <2>2
  <2>3. CASE estHand' # estHand
    <3> DEFINE ps == row[p][rEpoch]
               r  == [ps EXCEPT !.est = @ \cup got]
    <3>1. ps.status # "none" /\ estHand' = {[pool |-> p, ps |-> r]} /\ rPc' = "estSave"
      BY <1>2, <2>3 DEF EstimateRead
    <3>2. rEpoch \in Epochs /\ ps \in Row /\ InBudget(ps, rEpoch)
      BY DEF TypeOK, StoreTypeOK, ReconcilerTypeOK, RowsInBudget
    <3>3. r.status = ps.status /\ r.attempts = ps.attempts /\ r \in Row
      BY <3>2 DEF Row
    <3> HIDE DEF ps
    <3>4. InBudget(r, rEpoch)
      BY <3>2, <3>3 DEF InBudget, Saved
    <3> HIDE DEF r
    <3>5. BudgetNext(r, rEpoch)
      BY <3>2, <3>3, <3>4, BudgetKept
    <3>6. \A x \in estHand' : rPc' = "estSave" /\ x.ps.status # "none" /\ BudgetNext(x.ps, rEpoch)
      BY <3>1, <3>3, <3>5
    <3>7. EstimatesInBudget'
      BY <2>1, <3>6 DEF EstimatesInBudget, InBudget, Saved, BudgetNext, SavedNext, Untried
    <3> QED
      BY <2>1, <3>7, RowsBudgetFrame
  <2> QED
    BY <2>2, <2>3
<1>3. ASSUME NEW x \in estHand, EstimateSave(x)
      PROVE  RowsInBudget' /\ EstimatesInBudget'
  <2>1. SavePoolSchedule(x.pool, rEpoch, x.ps) /\ estHand' = {}
    BY <1>3 DEF EstimateSave
  <2>2. x.pool \in Pools /\ x.ps \in Row /\ rEpoch \in Epochs
    BY DEF TypeOK, ReconcilerTypeOK
  <2>3. BudgetNext(x.ps, rEpoch)
    BY <2>2, BudgetKept DEF EstimatesInBudget
  <2> QED
    BY <2>1, <2>2, <2>3, RowBudget, EstimatesBudget
<1> QED
  BY <1>1, <1>2, <1>3, ReconcilerRows

\* ------------------------------------------------------------------- all steps

\* An empty database has spent nothing.
LEMMA BudgetInit == Init => BudgetInv
<1> SUFFICES ASSUME Init PROVE RolloverIsSeen /\ KeysAreTried /\ RowsInBudget /\ CopiesInBudget
  BY InitTypes, EpochIsSeenInit DEF BudgetInv, PassIsSound
<1> USE DEF Init, StoreInit, SchedulerInit, SchedulerIdle, ReconcilerIdle
<1>1. RolloverIsSeen /\ KeysAreTried
  BY DEF RolloverIsSeen, KeysAreTried
<1>2. Cap \in Nat /\ 0 < Cap
  BY SettingsAssumption DEF Cap
<1>3. NoRow.attempts = 0 /\ \A p \in Pools, e \in Epochs : row[p][e] = NoRow
  BY DEF NoRow
<1>4. RowsInBudget
  BY <1>2, <1>3 DEF RowsInBudget, InBudget
<1>5. \A l \in Listings : job[l].pc = "none"
  BY DEF NoJob
<1>6. FinRowsInBudget /\ EstimatesInBudget
  BY DEF FinRowsInBudget, EstimatesInBudget
<1>7. CopiesInBudget
  BY <1>5, <1>6 DEF CopiesInBudget, JobsInBudget, JobInBudget
<1> QED
  BY <1>1, <1>4, <1>7

\* A step outside of the scheduler that leaves it in its pass keeps it sound.
LEMMA PassFrame ==
    ASSUME TypeOK, PassIsSound, [Next]_vars, UNCHANGED <<sPc, sEpoch, rolledOver, recheckedKeys>>,
           tip <= tip', tip' \in 0..NSlots
    PROVE  PassIsSound'
<1> USE DEF PassIsSound
<1>1. EpochIsSeen'
  BY EpochIsSeenNext
<1>2. sEpoch \in Nat /\ tip \in 0..NSlots
  BY EpochsAssumption DEF TypeOK, StoreTypeOK, SchedulerTypeOK
<1>3. EpochOf[tip] \in Nat /\ EpochOf[tip'] \in Nat /\ EpochOf[tip] <= EpochOf[tip']
  BY <1>2, EpochsAssumption
<1>4. RolloverIsSeen' /\ KeysAreTried'
  BY <1>2, <1>3 DEF RolloverIsSeen, KeysAreTried
<1> QED
  BY <1>1, <1>4

\* Every step of the daemon and its environment keeps the budget: a shutdown or
\* a crash raises the cap by the one attempt its next start may spend.
LEMMA BudgetNextStep == BudgetInv /\ [Next]_vars => BudgetInv'
<1> SUFFICES ASSUME BudgetInv, [Next]_vars PROVE BudgetInv'
  OBVIOUS
<1> USE DEF BudgetInv
<1>1. TypeOK'
  BY NextTypes
<1>2. /\ Cap \in Nat /\ sEpoch \in Nat /\ Epochs \subseteq Nat
      /\ EpochOf[tip] \in Nat /\ tip \in 0..NSlots
  BY CapType, EpochsAssumption DEF TypeOK, StoreTypeOK, SchedulerTypeOK
<1>3. CASE SchedulerStep
  <2>1. Tighter /\ PassIsSound'
    BY <1>3, SchedulerTightens
  <2>2. TablesBudget /\ EstimatesInBudget'
    BY <1>1, <1>3, <2>1, SchedulerBudget, EstimatesBudget
       DEF StepBase, SchedulerStep, reconVars, CopiesInBudget
  <2> QED
    BY <1>1, <2>1, <2>2 DEF TablesBudget, CopiesInBudget
<1>4. CASE ReconcilerStep
  <2>1. UNCHANGED <<schedVars, tip, ctxDone, restarts>>
    BY <1>4, ReconcilerReadsChain DEF ReconcilerStep, chainVars
  <2>2. UNCHANGED <<sPc, sEpoch, rolledOver, recheckedKeys, job, finRows>>
    BY <2>1 DEF schedVars
  <2>3. Tighter
    BY <1>2, <2>1, <2>2 DEF Tighter, Cap, Untried
  <2>4. PassIsSound'
    BY <1>2, <2>1, <2>2, PassFrame
  <2>5. RowsInBudget' /\ EstimatesInBudget'
    BY <1>1, <1>4, <2>1, <2>2, <2>3, ReconcilerBudget DEF StepBase, ReconcilerStep
  <2>6. FinRowsInBudget' /\ JobsInBudget'
    BY <1>1, <2>2, <2>3, FinRowsBudget, JobsBudgetFrame DEF CopiesInBudget
  <2> QED
    BY <1>1, <2>4, <2>5, <2>6 DEF CopiesInBudget
<1>5. CASE EnvStep \/ Shutdown \/ UNCHANGED vars
  <2>1. UNCHANGED <<row, schedVars, reconVars>>
    BY <1>5 DEF EnvStep, EnvNext, Mint, BfIndex, Reorg, Shutdown, vars, storeVars
  <2>2. UNCHANGED <<sPc, sEpoch, rolledOver, recheckedKeys, job, finRows, estHand, rEpoch, rPc>>
    BY <2>1 DEF schedVars, reconVars
  <2>3. tip <= tip' /\ tip' \in 0..NSlots
    BY <1>2, <1>5, SlotsAssumption
       DEF EnvStep, EnvNext, Mint, BfIndex, Reorg, Shutdown, vars, storeVars, Slots
  <2>4. EpochOf[tip'] \in Nat /\ EpochOf[tip] <= EpochOf[tip']
    BY <1>2, <2>3, EpochsAssumption
  <2>5. \/ restarts' = restarts + 1
        \/ UNCHANGED <<restarts, ctxDone>>
    BY <1>5 DEF EnvStep, EnvNext, Mint, BfIndex, Reorg, Shutdown, vars
  <2>6. Tighter
    <3>1. \A e \in Epochs : Untried(e)' => Untried(e)
      BY <1>2, <2>2, <2>4 DEF Untried
    <3>2. CASE restarts' = restarts + 1
      BY <1>2, <3>2, RestartsAssumption, SettingsAssumption DEF Tighter, Cap, TypeOK
    <3>3. CASE UNCHANGED <<restarts, ctxDone>>
      BY <1>2, <3>1, <3>3 DEF Tighter, Cap
    <3> QED
      BY <2>5, <3>2, <3>3
  <2>7. PassIsSound'
    BY <2>2, <2>3, PassFrame
  <2>8. RowsInBudget' /\ CopiesInBudget'
    BY <1>1, <2>1, <2>2, <2>6, RowsBudgetFrame, FinRowsBudget, JobsBudgetFrame, EstimatesBudget
       DEF CopiesInBudget
  <2> QED
    BY <1>1, <2>7, <2>8
<1>6. CASE Restart
  <2>1. /\ UNCHANGED <<row, sPc, sEpoch, rolledOver, job, finRows, estHand, rEpoch, rPc, tip, restarts>>
        /\ ctxDone /\ ~ctxDone' /\ sPc = "idle"
    BY <1>6 DEF Restart, storeVars, finVars, reconVars
  <2>2. Tighter
    BY <1>2, <2>1 DEF Tighter, Cap
  <2>3. EpochIsSeen' /\ RolloverIsSeen' /\ KeysAreTried'
    BY <2>1 DEF PassIsSound, EpochIsSeen, RolloverIsSeen, KeysAreTried
  <2>4. RowsInBudget' /\ CopiesInBudget'
    BY <1>1, <2>1, <2>2, RowsBudgetFrame, FinRowsBudget, JobsBudgetFrame, EstimatesBudget
       DEF CopiesInBudget
  <2> QED
    BY <1>1, <2>3, <2>4 DEF PassIsSound
<1>7. CASE Crash
  <2>1. /\ UNCHANGED <<row, tip>> /\ restarts' = restarts + 1
        /\ job' = [l \in Listings |-> NoJob] /\ finRows' = {} /\ estHand' = {}
        /\ sPc' = "idle" /\ rolledOver' = FALSE
    BY <1>7 DEF Crash, SchedulerLost, EndTick, chainVars
  <2>2. Tighter
    BY <1>2, <2>1, RestartsAssumption, SettingsAssumption DEF Tighter, Cap, TypeOK
  <2>3. EpochIsSeen'
    BY EpochIsSeenNext DEF PassIsSound
  <2>4. RolloverIsSeen' /\ KeysAreTried'
    BY <2>1 DEF RolloverIsSeen, KeysAreTried
  <2>5. JobsInBudget'
    BY <2>1 DEF JobsInBudget, JobInBudget, NoJob
  <2>6. RowsInBudget' /\ FinRowsInBudget' /\ EstimatesInBudget'
    BY <1>1, <2>1, <2>2, RowsBudgetFrame, FinRowsBudget, EstimatesBudget DEF CopiesInBudget
  <2> QED
    BY <1>1, <2>3, <2>4, <2>5, <2>6 DEF PassIsSound, CopiesInBudget
<1> QED
  BY <1>3, <1>4, <1>5, <1>6, <1>7 DEF Next

\* In every run of the daemon the attempts at a schedule stay bounded: MaxAttempts,
\* and the one re-check of a key problem of each later start, whatever order the
\* two loops save their copies of the row in and wherever a shutdown or a crash
\* falls.
THEOREM RetriesAreBounded == Spec => []AttemptsBounded
<1>1. BudgetInv => AttemptsBounded
  BY DEF BudgetInv, RowsInBudget, InBudget, AttemptsBounded, Cap
<1> QED
  BY <1>1, BudgetInit, BudgetNextStep, PTL DEF Spec
=============================================================================
