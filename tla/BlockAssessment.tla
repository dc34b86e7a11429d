-------------------------- MODULE BlockAssessment --------------------------
(***************************************************************************)
(* How spo-monitor judges that a pool has stalled: the dry spell since its *)
(* last block is held against a threshold that follows the pool's stake    *)
(* and the network's decentralisation parameter.  That parameter is asked  *)
(* for once per epoch and cached.                                          *)
(*                                                                         *)
(* Stake and decentralisation are percentages.  The code's floating-point  *)
(* quotients are whole numbers of ticks here, rounded down.                *)
(***************************************************************************)
EXTENDS Integers

CONSTANTS
    EpochTicks,     \* NetworkParams.EpochSeconds, in ticks
    NetworkBlocks,  \* EpochLength * ActiveSlotsCoeff: the network's blocks per epoch
    Floor, Cap, K, MinBlocksEpoch,   \* Settings
    Stakes, DParams,    \* the pool's stake and the parameter: values they take
    NetworkFaults,  \* the failures this instance admits
    LastEpoch       \* bound on the epochs

ASSUME RateAssumption     == EpochTicks \in Nat \ {0} /\ NetworkBlocks \in Nat \ {0}
ASSUME SettingsAssumption == /\ Floor \in Nat /\ Cap \in Nat /\ Floor <= Cap
                             /\ K \in Nat \ {0} /\ MinBlocksEpoch \in Nat
ASSUME ValuesAssumption   == Stakes \subseteq 0..100 /\ DParams \subseteq 0..100
ASSUME NetworkFaultsAssumption == NetworkFaults \subseteq {"epoch", "params", "pool"}
ASSUME LastEpochAssumption == LastEpoch \in Nat

VARIABLES
    epochNow,   \* the network's epoch
    dOf,        \* dOf[e]: the decentralisation parameter of each epoch
    stake,      \* the pool's share of the active stake
    dry,        \* ticks since the pool's last block
    hasBlock,   \* the pool has ever produced one
    dCache,     \* cachedEpoch, cachedD, dValid of the Monitor
    checkPc,    \* where the pass is: idle, params or assess
    asked,      \* the epoch EpochLatest answered with
    d,          \* the parameter the pass works with
    lost,       \* a lookup of the parameter has failed in this pass
    stall       \* what the last assessment came to

passVars == <<checkPc, asked, d, lost>>
worldVars == <<epochNow, dOf, stake, dry, hasBlock>>
blockVars == <<worldVars, dCache, passVars, stall>>

BlockEpochs == 0..LastEpoch
TooDry == Cap + 1       \* beyond the cap the dry spell is not told apart

\* Expected blocks per epoch, times 100 * 100.
Expected(share, param) == NetworkBlocks * share * (100 - param)

\* Faulty variant: the cap holds only for a pool with no expected blocks.
ThresholdUncapped(share, param) ==
    LET exp == Expected(share, param)
        raw == IF exp <= 0 THEN Cap ELSE (K * EpochTicks * 10000) \div exp IN
    IF raw < Floor THEN Floor ELSE raw

\* The threshold of assessBlock: K expected gaps, not below the floor, not
\* above the cap.
Threshold(share, param) ==
    LET exp     == Expected(share, param)
        raw     == IF exp <= 0 THEN Cap ELSE (K * EpochTicks * 10000) \div exp
        floored == IF raw < Floor THEN Floor ELSE raw IN
    IF floored > Cap THEN Cap ELSE floored

Monitorable(share, param) == Expected(share, param) >= MinBlocksEpoch * 10000

\* ----------------------------------------------------------------- the pass

\* Faulty variant: the cache is good for ever.
CachedForever(e) == dCache.valid /\ e \in BlockEpochs

Cached(e) == dCache.valid /\ dCache.epoch = e

Failed(kind) ==
    /\ kind \in NetworkFaults
    /\ d' = 0 /\ lost' = TRUE /\ checkPc' = "assess"

\* decentralisation: the epoch, then the cached parameter if it is of this epoch.
AskEpoch ==
    /\ checkPc = "idle" /\ asked' = epochNow
    /\ \/ /\ Cached(epochNow)
          /\ d' = dCache.value /\ lost' = FALSE /\ checkPc' = "assess"
       \/ /\ ~Cached(epochNow)
          /\ d' = 0 /\ lost' = FALSE /\ checkPc' = "params"
       \/ Failed("epoch")
    /\ UNCHANGED <<worldVars, dCache, stall>>

\* Otherwise it is asked for, and cached when it comes.
AskParams ==
    /\ checkPc = "params"
    /\ \/ /\ d' = dOf[asked] /\ checkPc' = "assess"
          /\ dCache' = [epoch |-> asked, value |-> dOf[asked], valid |-> TRUE]
          /\ UNCHANGED lost
       \/ Failed("params") /\ UNCHANGED dCache
    /\ UNCHANGED <<worldVars, asked, stall>>

Verdict ==
    IF ~hasBlock \/ ~Monitorable(stake, d) THEN "skipped"
    ELSE IF dry > Threshold(stake, d) THEN "stalled" ELSE "producing"

\* assessBlock for the pool, or one of its two lookups fails.
AssessBlock ==
    /\ checkPc = "assess" /\ checkPc' = "idle"
    /\ asked' = 0 /\ d' = 0 /\ lost' = FALSE
    /\ \/ stall' = Verdict
       \/ "pool" \in NetworkFaults /\ UNCHANGED stall
    /\ UNCHANGED <<worldVars, dCache>>

\* -------------------------------------------------------- the world outside

DryLonger ==
    /\ hasBlock /\ dry < TooDry /\ dry' = dry + 1
    /\ UNCHANGED <<epochNow, dOf, stake, hasBlock, dCache, passVars, stall>>

Produce ==
    /\ dry > 0 \/ ~hasBlock
    /\ dry' = 0 /\ hasBlock' = TRUE
    /\ UNCHANGED <<epochNow, dOf, stake, dCache, passVars, stall>>

\* The next epoch begins, and the stake that counts in it.
NextEpoch ==
    /\ epochNow < LastEpoch /\ epochNow' = epochNow + 1
    /\ stake' \in Stakes
    /\ UNCHANGED <<dOf, dry, hasBlock, dCache, passVars, stall>>

\* -------------------------------------------------------------- specification

BlockInit ==
    /\ epochNow = 0 /\ dOf \in [BlockEpochs -> DParams] /\ stake \in Stakes
    /\ dry = 0 /\ hasBlock = FALSE
    /\ dCache = [epoch |-> 0, value |-> 0, valid |-> FALSE]
    /\ checkPc = "idle" /\ asked = 0 /\ d = 0 /\ lost = FALSE
    /\ stall = "skipped"

BlockNext == AskEpoch \/ AskParams \/ AssessBlock \/ DryLonger \/ Produce \/ NextEpoch

BlockSpec == BlockInit /\ [][BlockNext]_blockVars

\* ----------------------------------------------------------------- properties

\* README.md: a monitored pool is reported when its dry spell exceeds the larger
\* of MONITOR_FLOOR_HOURS and K expected gaps, or MONITOR_CAP_HOURS if that is
\* less, by the stake and the parameter of the epoch the pass began in.
StallAsDocumented ==
    [][AssessBlock /\ ~lost /\ stall' # stall =>
         LET exp == Expected(stake, dOf[asked]) IN
         /\ stall' = "stalled"   => dry > Cap \/ (dry > Floor /\ dry * exp > K * EpochTicks * 10000)
         /\ stall' = "producing" => dry <= Cap /\ (dry <= Floor \/ dry * exp <= K * EpochTicks * 10000)
         /\ stall' = "skipped"   => exp < MinBlocksEpoch * 10000]_blockVars

\* The parameter a pass works with is the one of its epoch, never that of an
\* epoch whose answer is still cached, or 0 when it could not be asked for.
DecentralisationCurrent ==
    checkPc = "assess" => d = IF lost THEN 0 ELSE dOf[asked]
=============================================================================
