--------------------------- MODULE OwnerEstimate ----------------------------
(***************************************************************************)
(* The fee parameters behind the earnings the dashboard estimates.  Each   *)
(* schedule row captures the margin and fixed cost the indexer shows while *)
(* the row is computed, or filled in later; EffectiveFeeParams picks the   *)
(* row whose parameters the ledger applies to an epoch, and OwnerTake      *)
(* splits a reward by them.  The indexer shows the latest registration.    *)
(*                                                                         *)
(* Rewards are whole units, a margin is in percent and a share of the      *)
(* stake in tenths; a take is scaled by 1000 to stay exact.                *)
(***************************************************************************)
EXTENDS Integers, FiniteSets

CONSTANTS
    FeeEpochs,      \* bound: the instance runs over epochs 1..FeeEpochs
    Params,         \* the parameters a pool may register
    MaxReward       \* bound on the reward of an epoch

NoParams == [margin |-> 0, fixed |-> 0]

ASSUME FeeAssumption == /\ FeeEpochs \in Nat /\ FeeEpochs >= 2 /\ MaxReward \in Nat
                        /\ Params \subseteq [margin : 0..100, fixed : Nat] \ {NoParams}

\* Those who save rows: computePool, ensureRewardEstimates, finalizeSummaries.
Writers == {"compute", "fill", "finalize"}

Stages == {"none", "read", "started", "asked"}
NothingHeld == [epoch |-> 0, params |-> NoParams, early |-> FALSE, stage |-> "none"]

VARIABLES
    feeEpoch,       \* the epoch of the chain
    latest,         \* the latest registration of the pool
    latestAt,       \* latestAt[n]: the latest registration when epoch n ended, or so far
    changed,        \* the epochs in which the pool re-registered
    feeRows,        \* the epochs with a schedule row
    captured,       \* captured[e]: the parameters in the row, or NoParams
    early,          \* the rows captured before a re-registration in their epoch
    fetched         \* fetched[w]: a writer's copy of a row, and how far it got with it

feeVars == <<feeEpoch, latest, latestAt, changed, feeRows, captured, early, fetched>>
feeChainVars == <<feeEpoch, latest, latestAt, changed>>

FeeEpochSet == 1..FeeEpochs

Free(w) == fetched[w].stage = "none"

\* A writer reads a row it will save whole: the planning loop one of the node's
\* epoch, the reconciler one of the epoch its tick began in, finalizeSummaries
\* one of a past epoch, to expire it.
ReadRow(w, e) ==
    /\ Free(w) /\ e \in feeRows
    /\ w = "compute"  => e = feeEpoch
    /\ w = "fill"     => e \in {feeEpoch, feeEpoch - 1}
    /\ w = "finalize" => e < feeEpoch
    /\ fetched' = [fetched EXCEPT ![w] =
            [epoch |-> e, params |-> captured[e], early |-> e \in early, stage |-> "read"]]
    /\ UNCHANGED <<feeChainVars, feeRows, captured, early>>

\* computePool starts on a pool without a row.
CreateRow ==
    /\ Free("compute") /\ feeEpoch \notin feeRows
    /\ feeRows' = feeRows \cup {feeEpoch}
    /\ fetched' = [fetched EXCEPT !["compute"] =
            [NothingHeld EXCEPT !.epoch = feeEpoch, !.stage = "started"]]
    /\ UNCHANGED <<feeChainVars, captured, early>>

\* SavePoolSchedule: the parameters in the copy replace those in the row.
SaveCopy(h) ==
    /\ captured' = [captured EXCEPT ![h.epoch] = h.params]
    /\ early' = IF h.early THEN early \cup {h.epoch} ELSE early \ {h.epoch}
    /\ UNCHANGED <<feeChainVars, feeRows>>

\* computePool starts on a row: it is saved as it was when the pass was planned.
StartRow ==
    /\ fetched["compute"].stage = "read" /\ fetched["compute"].epoch = feeEpoch
    /\ SaveCopy(fetched["compute"])
    /\ fetched' = [fetched EXCEPT !["compute"].stage = "started"]

\* The pool lookup answers: computePool takes the parameters in every run,
\* ensureRewardEstimates if the row had none.  A rollover may have come between.
Fetch(w) ==
    LET h == fetched[w] IN
    /\ \/ w = "compute" /\ h.stage = "started"
       \/ w = "fill" /\ h.stage = "read" /\ h.params = NoParams
    /\ fetched' = [fetched EXCEPT ![w] =
            [epoch |-> h.epoch, params |-> latest, stage |-> "asked",
             early |-> h.epoch = feeEpoch /\ h.epoch \notin changed]]
    /\ UNCHANGED <<feeChainVars, feeRows, captured, early>>

\* The writer ends with a save, with or without an answer.
SaveFees(w) ==
    /\ ~Free(w) /\ (w = "compute" => fetched[w].stage # "read")
    /\ SaveCopy(fetched[w])
    /\ fetched' = [fetched EXCEPT ![w] = NothingHeld]

\* It ends without one: a row that needs nothing, a failed save, a shutdown, a crash.
DropFees(w) ==
    /\ ~Free(w)
    /\ fetched' = [fetched EXCEPT ![w] = NothingHeld]
    /\ UNCHANGED <<feeChainVars, feeRows, captured, early>>

\* Bound: one re-registration in an epoch, which is what the ledger keeps.
RegisterFees(params) ==
    /\ feeEpoch \notin changed /\ params # latest
    /\ latest' = params
    /\ latestAt' = [latestAt EXCEPT ![feeEpoch] = params]
    /\ changed' = changed \cup {feeEpoch}
    /\ UNCHANGED <<feeEpoch, feeRows, captured, early, fetched>>

FeeEpochEnds ==
    /\ feeEpoch < FeeEpochs
    /\ feeEpoch' = feeEpoch + 1
    /\ latestAt' = [latestAt EXCEPT ![feeEpoch + 1] = latest]
    /\ UNCHANGED <<latest, changed, feeRows, captured, early, fetched>>

\* The pool registered in epoch 1, and the daemon starts in epoch 2.
FeeInit ==
    /\ feeEpoch = 2 /\ latest \in Params
    /\ latestAt = [e \in FeeEpochSet |-> latest]
    /\ changed = {} /\ feeRows = {} /\ early = {}
    /\ captured = [e \in FeeEpochSet |-> NoParams]
    /\ fetched = [w \in Writers |-> NothingHeld]

FeeNext ==
    \/ CreateRow \/ StartRow \/ FeeEpochEnds
    \/ \E w \in Writers :
         \/ \E e \in FeeEpochSet : ReadRow(w, e)
         \/ Fetch(w) \/ SaveFees(w) \/ DropFees(w)
    \/ \E params \in Params : RegisterFees(params)

FeeSpec == FeeInit /\ [][FeeNext]_feeVars

\* -------------------------------------------------- what the dashboard shows

HasParams(e) == e \in feeRows /\ captured[e] # NoParams

\* Faulty variant: the parameters of the epoch before.
EffectiveFeeParamsLagOne(e) ==
    IF HasParams(e - 1) THEN captured[e - 1]
    ELSE IF HasParams(e) THEN captured[e] ELSE NoParams

feeParamLag == 2

EffectiveFeeParams(e) ==
    IF HasParams(e - feeParamLag) THEN captured[e - feeParamLag]
    ELSE IF HasParams(e) THEN captured[e] ELSE NoParams

\* The operator's part of a reward, times 100.
OperatorTake(r, p) ==
    IF r <= p.fixed THEN 100 * r ELSE 100 * p.fixed + p.margin * (r - p.fixed)

\* The owner's part, times 1000; the owner's share of the stake is in tenths.
OwnerTake(r, p, share) ==
    LET fee == OperatorTake(r, p) IN 10 * fee + (100 * r - fee) * share

\* ----------------------------------------------------------------- properties

\* The ledger: a registration submitted in epoch N first applies to N + 3, and
\* the leader gets the fixed cost and, of the rest, the margin and the owner's
\* share of what the margin leaves.
LedgerParams(e) == latestAt[e - 3]

LedgerPays(r, p, share) ==
    IF r <= p.fixed THEN 1000 * r
    ELSE 1000 * p.fixed + (10 * p.margin + (100 - p.margin) * share) * (r - p.fixed)

\* The dashboard's estimate of an epoch follows the ledger through any number
\* of re-registrations, recomputes and saves of copies gone stale, if the
\* parameters in the row two epochs before were captured before a
\* re-registration in its epoch.
EstimateAsLedger ==
    \A e \in 4..feeEpoch : HasParams(e - 2) /\ (e - 2) \in early =>
        \A r \in 0..MaxReward, share \in 0..10 :
            OwnerTake(r, EffectiveFeeParams(e), share) = LedgerPays(r, LedgerParams(e), share)
=============================================================================
