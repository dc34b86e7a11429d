---------------------------- MODULE MCFairParts -----------------------------
(***************************************************************************)
(* The parts that must get somewhere, each on its own: the alert loop of   *)
(* spo-monitor and, of spo-dashboard, the price cache, the stake snapshots *)
(* and Health (its two loops are in LeaderLog).  They share no variable,   *)
(* so a behaviour moves one part only, the one chosen at its start, and    *)
(* fairness is asked of that part.                                         *)
(***************************************************************************)
EXTENDS MCAlertLoop, PriceCache, StakeSnapshots, NodeHealth

VARIABLE part

\* The first delegator, the owner, stakes one unit, the second two, and so on.
OneMoreEach == [d \in 1..MaxDelegators |-> d]

Still(others) == UNCHANGED <<part, others>>

\* The initial states of a part: all of them if it moves, one if it does not.
Starts(name, init, one) == init /\ (part # name => one)

FairInit ==
    /\ part \in {"alerts", "price", "stakes", "health"}
    /\ Starts("alerts", Init, kind = "block")
    /\ PriceInit
    /\ Starts("stakes", StakeInit, delegators = [e \in EpochsOfStake |-> 0])
    /\ Starts("health", HealthInit, nodeTip = 0)

FairNext ==
    \/ part = "alerts" /\ Next       /\ Still(<<priceVars, stakeVars, healthVars>>)
    \/ part = "price"  /\ PriceNext  /\ Still(<<vars, stakeVars, healthVars>>)
    \/ part = "stakes" /\ StakeNext  /\ Still(<<vars, priceVars, healthVars>>)
    \/ part = "health" /\ HealthNext /\ Still(<<vars, priceVars, stakeVars>>)

\* AlertLoop's Fairness.
AlertFairness ==
    /\ WF_vars(part = "alerts" /\ LoopNext) /\ WF_vars(part = "alerts" /\ Restart)
    /\ \A p \in Pools :
         /\ SF_vars(part = "alerts" /\ Assess(p))
         /\ SF_vars(part = "alerts" /\ \E n \in 1..Len(batch) : Carries(n, p) /\ Deliver(n))

\* A call to LBank ends, by its time limit at the latest; a Go mutex is handed
\* to who has waited longest; a response leaves; time goes on.
PriceFairness ==
    /\ WF_priceVars(part = "price" /\ PriceTick)
    /\ \A r \in Requests :
         /\ SF_priceVars(part = "price" /\ Serve(r))
         /\ WF_priceVars(part = "price" /\ LBankReturns(r))
         /\ WF_priceVars(part = "price" /\ Leave(r))

\* The reconciler's ticker; nothing is assumed of the chain or the indexer.
StakeFairness == WF_stakeVars(part = "stakes" /\ Snapshotting)

\* Each loop ticks for ever.
HealthFairness ==
    \A w \in HealthLoops : WF_healthVars(part = "health" /\ Ticks(w))

FairPartsSpec ==
    /\ FairInit /\ [][FairNext]_<<part, vars, priceVars, stakeVars, healthVars>>
    /\ AlertFairness /\ PriceFairness /\ StakeFairness /\ HealthFairness
=============================================================================
