---------------------------- MODULE LeaderStore ----------------------------
(***************************************************************************)
(* What the two loops of the leadership log share: the chain as the local  *)
(* node and the Blockfrost indexer show it, and the dashboard's SQLite     *)
(* database.  OpenStore allows one connection, so every call of the store  *)
(* is one atomic read or write; what happens between two calls of the same *)
(* loop is not, and is where the interleavings come from.                  *)
(*                                                                         *)
(* Slots are numbered from 1; slot 0 stands for the block every run starts *)
(* after.  A pool's leadership schedule is a function of its VRF key, so   *)
(* it is a constant of the instance, and a pool can only mint in its own   *)
(* slots.                                                                  *)
(***************************************************************************)
EXTENDS Integers, FiniteSets

CONSTANTS
    Pools,          \* the configured pool ids
    NSlots,         \* the last slot of the instance (bound on time)
    Epochs,         \* the epochs of the instance
    EpochOf,        \* [0..NSlots -> Epochs], the epoch of each absolute slot
    Leader,         \* [Pools -> SUBSET Slots], the slots each pool leads
    Empty, Other,   \* no block in the slot; a block of a pool we do not track
    Busy,           \* slots in which this instance always has a block
    SettleMargin,   \* Settings.SettleMarginSlots
    Faults          \* the failures this instance admits

Slots == 1..NSlots

FaultKinds == { "tip", "key", "stale", "pool", "history", "cli",
                "list", "block", "latest", "slot", "lag",
                "shutdown", "crash", "reorg" }

ASSUME PoolsAssumption  == Empty \notin Pools /\ Other \notin Pools /\ Empty # Other
ASSUME SlotsAssumption  == NSlots \in Nat \ {0}
ASSUME EpochsAssumption == /\ Epochs \subseteq Nat
                           /\ EpochOf \in [0..NSlots -> Epochs]
                           /\ \A s, t \in 0..NSlots : s <= t => EpochOf[s] <= EpochOf[t]
ASSUME LeaderAssumption == Leader \in [Pools -> SUBSET Slots]
ASSUME BusyAssumption   == Busy \subseteq Slots
ASSUME MarginAssumption == SettleMargin \in Nat
ASSUME FaultsAssumption == Faults \subseteq FaultKinds

VARIABLES
    chain,      \* what each slot holds on the canonical chain
    tip,        \* the slot of the local node's tip
    bfTip,      \* the slot of the latest block the indexer has processed
    row,        \* table pool_schedules: row[p][e]
    slotSt,     \* table scheduled_slots: slotSt[p][s]
    obs,        \* table observed_blocks: obs[p][s], its "scheduled" column
    summ,       \* table epoch_summaries: summ[p][e]
    held,       \* slot rows the reconciler holds a copy of whose id still exists
    ctxDone     \* the daemon's context is cancelled: both loops are to stop

storeVars == <<chain, tip, bfTip, row, slotSt, obs, summ, held>>
chainVars == <<chain, tip, bfTip>>

\* --------------------------------------------------------------- the tables

Status == { "none", "pending", "ok", "key_missing", "key_stale", "cli_error", "expired" }

\* A pool_schedules row: "est" says which of the reward estimate and the fee
\* parameters are filled in (every pool here has rewards and fees).
Fillable == {"reward", "fees"}
Row == [status : Status, attempts : Int, est : SUBSET Fillable]
NoRow == [status |-> "none", attempts |-> 0, est |-> {}]

SlotState == { "none", "pending", "produced", "missed" }

\* An observed block: not stored, stored with scheduled NULL, true or false.
ObsState == { "none", "null", "yes", "no" }

Summary == [exists : BOOLEAN, scheduled : Nat, produced : Nat, missed : Nat,
            actualsOnly : BOOLEAN, finalized : BOOLEAN]
NoSummary == [exists |-> FALSE, scheduled |-> 0, produced |-> 0, missed |-> 0,
              actualsOnly |-> FALSE, finalized |-> FALSE]

SlotsOf(e) == { s \in Slots : EpochOf[s] = e }

\* FindScheduledSlot: whether the pool has a slot row.
Scheduled(p, s) == slotSt[p][s] # "none"

RowsIn(p, e, states) == { s \in SlotsOf(e) : slotSt[p][s] \in states }

\* UnclassifiedObserved
Unclassified(p, e) == { s \in SlotsOf(e) : obs[p][s] = "null" }

\* HasAnySummary
HasAnySummary(p) == \E e \in Epochs : summ[p][e].exists

\* Faulty variant: the epoch after the current one is open too.
NeedsReconcileAhead(current) ==
    {current, current + 1}
      \cup { e \in Epochs : \E p \in Pools : RowsIn(p, e, {"pending"}) # {} }

\* EpochsNeedingReconcile: the current epoch, those with a pending slot, those
\* with a tracked schedule and no finalized summary.
NeedsReconcile(current) ==
    {current}
      \cup { e \in Epochs : \E p \in Pools : RowsIn(p, e, {"pending"}) # {} }
      \cup { e \in Epochs : \E p \in Pools :
                 row[p][e].status # "none" /\ ~summ[p][e].finalized }

\* Faulty variant: a recompute starts every slot as pending again.
ReplaceForgetting(p, e, entries) ==
    /\ slotSt' = [slotSt EXCEPT ![p] =
            [s \in Slots |-> IF EpochOf[s] # e THEN slotSt[p][s]
                             ELSE IF s \in entries THEN "pending" ELSE "none"]]
    /\ held' = { k \in held : k[1] # p \/ EpochOf[k[2]] # e }

\* ReplaceScheduledSlots: one transaction; a slot that is in the new schedule
\* and had settled keeps its status, and every row gets a new id.
ReplaceScheduledSlots(p, e, entries) ==
    /\ slotSt' = [slotSt EXCEPT ![p] =
            [s \in Slots |->
                IF EpochOf[s] # e THEN slotSt[p][s]
                ELSE IF s \notin entries THEN "none"
                ELSE IF slotSt[p][s] \in {"produced", "missed"} THEN slotSt[p][s]
                ELSE "pending"]]
    /\ held' = { k \in held : k[1] # p \/ EpochOf[k[2]] # e }

\* SaveSlot of a copy read earlier.  The row's id may be gone, replaced by a
\* recompute: then the save falls back to an INSERT, which the unique index
\* refuses if the slot is still scheduled and accepts if it is not.
SaveSlot(p, s, status) ==
    slotSt' = IF <<p, s>> \in held \/ ~Scheduled(p, s)
                THEN [slotSt EXCEPT ![p][s] = status]
                ELSE slotSt

\* SavePoolSchedule and SaveObservedBlock and SaveEpochSummary write whole rows.
SavePoolSchedule(p, e, ps)     == row'  = [row  EXCEPT ![p][e] = ps]
SaveObservedBlock(p, s, value) == obs'  = [obs  EXCEPT ![p][s] = value]
SaveEpochSummary(p, e, es)     == summ' = [summ EXCEPT ![p][e] = es]

\* ------------------------------------------------------- what the APIs answer

\* A call that takes the daemon's context fails once the context is cancelled.
Fails(kind) == kind \in Faults \/ ctxDone

\* EpochBlockDistributionByPool: the pool's blocks of an epoch the indexer has.
MintedBy(p, e) == { s \in SlotsOf(e) : s <= bfTip /\ chain[s] = p }

\* BlockBySlot: whether the indexer shows our block there (otherwise it shows
\* another pool's block, or answers 404).
ShowsOurs(p, s) == s <= bfTip /\ chain[s] = p

\* ------------------------------------------------------------ the environment

Occupants(s) == {Other} \cup { p \in Pools : s \in Leader[p] }

\* A block is minted after the tip; the slots jumped over stay empty.  In an
\* instance without lag the indexer has the block at once.
Mint(s, who) ==
    /\ s > tip
    /\ \A t \in Busy : t <= tip \/ t >= s
    /\ who \in Occupants(s)
    /\ chain' = [chain EXCEPT ![s] = who]
    /\ tip' = s
    /\ bfTip' = IF "lag" \in Faults THEN bfTip ELSE s
    /\ UNCHANGED <<row, slotSt, obs, summ, held, ctxDone>>

\* The indexer catches up with some later block.
BfIndex(s) ==
    /\ "lag" \in Faults
    /\ s > bfTip /\ s <= tip
    /\ chain[s] # Empty
    /\ bfTip' = s
    /\ UNCHANGED <<chain, tip, row, slotSt, obs, summ, held, ctxDone>>

\* A chain switch no deeper than the settle margin changes a recent slot.
Reorg(s, who) ==
    /\ "reorg" \in Faults
    /\ s <= tip /\ s + SettleMargin >= tip
    /\ who \in Occupants(s) \cup {Empty}
    /\ who # chain[s]
    /\ s \in {tip, bfTip} => who # Empty
    /\ chain' = [chain EXCEPT ![s] = who]
    /\ UNCHANGED <<tip, bfTip, row, slotSt, obs, summ, held, ctxDone>>

EnvNext ==
    \/ \E s \in Slots : \E who \in Occupants(s) : Mint(s, who)
    \/ \E s \in Slots : BfIndex(s)
    \/ \E s \in Slots : \E who \in Occupants(s) \cup {Empty} : Reorg(s, who)

StoreInit ==
    /\ chain  = [s \in Slots |-> Empty]
    /\ tip = 0 /\ bfTip = 0
    /\ row    = [p \in Pools |-> [e \in Epochs |-> NoRow]]
    /\ slotSt = [p \in Pools |-> [s \in Slots |-> "none"]]
    /\ obs    = [p \in Pools |-> [s \in Slots |-> "none"]]
    /\ summ   = [p \in Pools |-> [e \in Epochs |-> NoSummary]]
    /\ held = {} /\ ctxDone = FALSE

StoreTypeOK ==
    /\ chain \in [Slots -> Pools \cup {Empty, Other}]
    /\ tip \in 0..NSlots /\ bfTip \in 0..NSlots
    /\ row \in [Pools -> [Epochs -> Row]]
    /\ slotSt \in [Pools -> [Slots -> SlotState]]
    /\ obs \in [Pools -> [Slots -> ObsState]]
    /\ summ \in [Pools -> [Epochs -> Summary]]
    /\ held \subseteq Pools \X Slots
    /\ ctxDone \in BOOLEAN
=============================================================================
