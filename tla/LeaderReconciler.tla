------------------------- MODULE LeaderReconciler --------------------------
(***************************************************************************)
(* The reconciler loop (internal/leaderlog/reconcile.go and the estimate   *)
(* part of backfill.go).  One tick ingests the blocks of every pool and    *)
(* every epoch that is still open, fills missing reward estimates in, and  *)
(* settles the pending slots that are old enough.  The tick is one         *)
(* goroutine: it interleaves with the scheduler between its store calls.   *)
(***************************************************************************)
EXTENDS LeaderStore

CONSTANTS
    PageSize        \* blocks per page of EpochBlockDistributionByPool (100)

ASSUME PageAssumption == PageSize \in Nat \ {0}

VARIABLES
    rPc,            \* where the reconciler goroutine is
    rEpoch,         \* tip.Epoch as read at the start of the tick
    rTip,           \* tip.Slot as read at the start of the tick
    ingest,         \* (pool, epoch) pairs still to ingest
    listing,        \* the listing being ingested, or {}
    hand,           \* the block in hand, with the verdict on it, or {}
    estTodo,        \* pools ensureRewardEstimates has still to visit
    estHand,        \* its copy of a row it is about to write back, or {}
    due             \* the pending slots settlePendingSlots has still to look up

reconVars == <<rPc, rEpoch, rTip, ingest, listing, hand, estTodo, estHand, due>>
tickVars  == <<rEpoch, rTip>>
estVars   == <<estTodo, estHand>>

\* A page of blocks: "hashes" are those still to ingest, "new" says that one
\* was, "full" that the page may not be the last.  With no hashes left, the
\* page is the next one to ask for.
Listing == [pool : Pools, epoch : Epochs, page : Nat, full : BOOLEAN,
            new : BOOLEAN, hashes : SUBSET Slots]

Hand == [pool : Pools, slot : Slots, verdict : ObsState]

ReconcileTick ==
    /\ rPc = "idle" /\ ~ctxDone
    /\ rPc' = "tick"
    /\ rEpoch' = EpochOf[tip] /\ rTip' = tip
    /\ ingest' = Pools \X NeedsReconcile(EpochOf[tip])
    /\ estTodo' = Pools
    /\ UNCHANGED <<storeVars, ctxDone, listing, hand, estHand, due>>

\* Back to the ticker; the tick's local variables are forgotten.
EndTick ==
    /\ rPc' = "idle"
    /\ rEpoch' = EpochOf[0] /\ rTip' = 0
    /\ ingest' = {} /\ listing' = {} /\ hand' = {} /\ estTodo' = {}
    /\ estHand' = {} /\ due' = {}

\* The select on ctx.Done at the head of each loop.  Between two epochs of one
\* pool the code makes calls that the cancelled context fails at once.
QuitTick ==
    /\ ctxDone /\ rPc \in {"tick", "settle"}
    /\ EndTick /\ held' = {}
    /\ UNCHANGED <<chainVars, row, slotSt, obs, summ, ctxDone>>

\* ------------------------------------------------------------------- ingestion

\* Page n of the pool's blocks of an epoch, newest first.
Page(p, e, n) ==
    LET all == MintedBy(p, e)
        rank(s) == Cardinality({ t \in all : t > s })
    IN  { s \in all : rank(s) >= PageSize * (n - 1) /\ rank(s) < PageSize * n }

ingestUnchanged == <<chainVars, row, slotSt, obs, summ, ctxDone, tickVars, estVars, due>>

\* The page to ask for: the next one of the listing under way, or the first of
\* a pool and epoch still to ingest.
Asks(p, e, n) ==
    /\ rPc = "tick"
    /\ \/ \E g \in listing : g.hashes = {} /\ g.pool = p /\ g.epoch = e /\ g.page = n
       \/ listing = {} /\ <<p, e>> \in ingest /\ n = 1

\* What is left of the listing once a block is dealt with: the page's other
\* blocks, else the next page, unless this one brought nothing new or was short.
AfterBlock(g) ==
    IF g.hashes # {} THEN {g}
    ELSE IF g.new /\ g.full THEN {[g EXCEPT !.page = @ + 1]}
    ELSE {}

\* The list call fails, or answers 404: ingestPoolBlocks returns.
ListFails(p, e, n) ==
    /\ Asks(p, e, n) /\ Fails("list")
    /\ listing' = {} /\ ingest' = ingest \ {<<p, e>>}
    /\ UNCHANGED <<ingestUnchanged, held, rPc, hand>>

\* A page arrives; the hashes already stored are skipped.
ListPage(p, e, n) ==
    LET page == Page(p, e, n) IN
    /\ Asks(p, e, n)
    /\ ingest' = ingest \ {<<p, e>>}
    /\ listing' = AfterBlock([pool |-> p, epoch |-> e, page |-> n,
                              full |-> Cardinality(page) = PageSize, new |-> FALSE,
                              hashes |-> { s \in page : obs[p][s] = "none" }])
    /\ UNCHANGED <<ingestUnchanged, held, rPc, hand>>

Newest(g, s) == s \in g.hashes /\ \A t \in g.hashes : t <= s

\* The block's own fetch fails: it is left for a later tick.
BlockFails(g, s) ==
    /\ rPc = "tick" /\ Newest(g, s)
    /\ Fails("block")
    /\ listing' = AfterBlock([g EXCEPT !.hashes = @ \ {s}])
    /\ UNCHANGED <<ingestUnchanged, held, rPc, ingest, hand>>

\* Faulty variant: any schedule row is trusted to classify the block.
FetchBlockTrusting(g, s) ==
    /\ rPc = "tick" /\ Newest(g, s)
    /\ hand' = {[pool |-> g.pool, slot |-> s, verdict |-> "null"]}
    /\ rPc' = IF row[g.pool][g.epoch].status # "none" THEN "find" ELSE "record"
    /\ UNCHANGED <<ingestUnchanged, held, ingest, listing>>

\* ingestBlock: the block is fetched and the schedule row read.  Only an ok
\* schedule is trusted to classify it.
FetchBlock(g, s) ==
    /\ rPc = "tick" /\ Newest(g, s)
    /\ hand' = {[pool |-> g.pool, slot |-> s, verdict |-> "null"]}
    /\ rPc' = IF row[g.pool][g.epoch].status = "ok" THEN "find" ELSE "record"
    /\ UNCHANGED <<ingestUnchanged, held, ingest, listing>>

\* FindScheduledSlot: the verdict, and whether the slot is to be marked.
FindSlot(h) ==
    LET found == Scheduled(h.pool, h.slot)
        mark  == found /\ slotSt[h.pool][h.slot] # "produced" IN
    /\ rPc = "find"
    /\ hand' = {[h EXCEPT !.verdict = IF found THEN "yes" ELSE "no"]}
    /\ rPc' = IF mark THEN "mark" ELSE "record"
    /\ held' = IF mark THEN {<<h.pool, h.slot>>} ELSE {}
    /\ UNCHANGED <<ingestUnchanged, ingest, listing>>

\* The slot is saved as produced.
MarkProduced(h) ==
    /\ rPc = "mark"
    /\ SaveSlot(h.pool, h.slot, "produced")
    /\ held' = {} /\ rPc' = "record"
    /\ UNCHANGED <<chainVars, row, obs, summ, ctxDone, tickVars, estVars, due,
                   ingest, listing, hand>>

\* The block is saved with the verdict reached when it was read.
RecordBlock(g, h) ==
    /\ rPc = "record"
    /\ SaveObservedBlock(h.pool, h.slot, h.verdict)
    /\ listing' = AfterBlock([g EXCEPT !.hashes = @ \ {h.slot}, !.new = TRUE])
    /\ hand' = {} /\ rPc' = "tick"
    /\ UNCHANGED <<chainVars, row, slotSt, summ, held, ctxDone, tickVars, estVars, due, ingest>>

IngestDone == rPc = "tick" /\ listing = {} /\ ingest = {}

\* ------------------------------------------------------------------- estimates

\* The call that fills a part of the row: the pool's history, or the pool.
CallFor(part) == IF part = "reward" THEN "history" ELSE "pool"

\* The pool's row of the current epoch is read; what it lacks is asked for, a
\* call each, and the row as it was read is kept for the save with what they
\* answered.  With no answer there is nothing to save.
EstimateRead(p, got) ==
    LET ps     == row[p][rEpoch]
        needed == IF ps.status = "none" THEN {} ELSE Fillable \ ps.est IN
    /\ IngestDone /\ p \in estTodo
    /\ estTodo' = estTodo \ {p}
    /\ got \subseteq needed /\ \A part \in needed \ got : Fails(CallFor(part))
    /\ IF got = {} THEN UNCHANGED <<estHand, rPc>>
       ELSE /\ estHand' = {[pool |-> p, ps |-> [ps EXCEPT !.est = @ \cup got]]}
            /\ rPc' = "estSave"
    /\ UNCHANGED <<storeVars, ctxDone, tickVars, ingest, listing, hand, due>>

\* The whole row read before the call is written back.
EstimateSave(x) ==
    /\ rPc = "estSave"
    /\ SavePoolSchedule(x.pool, rEpoch, x.ps)
    /\ estHand' = {} /\ rPc' = "tick"
    /\ UNCHANGED <<chainVars, slotSt, obs, summ, held, ctxDone, tickVars, ingest, listing,
                   hand, estTodo, due>>

\* ------------------------------------------------------------------ settlement

\* Faulty variants: the node's tip alone decides; one slot too few.
SettleableByNode(s, latest)  == s + SettleMargin < rTip
SettleableAtTip(s, latest)   == s + SettleMargin <= rTip /\ s + SettleMargin <= latest

\* The older of the node's tip, read at the start of the tick, and the
\* indexer's: a slot settles a margin behind it.
Settleable(s, latest) == s + SettleMargin < rTip /\ s + SettleMargin < latest

EstimatesDone == IngestDone /\ estTodo = {}

\* The indexer's tip is unavailable: nothing settles in this tick.
LatestFails ==
    /\ EstimatesDone /\ Fails("latest")
    /\ EndTick
    /\ UNCHANGED <<storeVars, ctxDone>>

\* Faulty variant: only the current epoch's slots are looked at.
SettleStartCurrent ==
    LET pending == { k \in Pools \X Slots :
                       /\ slotSt[k[1]][k[2]] = "pending" /\ Settleable(k[2], bfTip)
                       /\ EpochOf[k[2]] = rEpoch } IN
    /\ EstimatesDone
    /\ IF pending = {}
         THEN EndTick /\ UNCHANGED held
         ELSE /\ rPc' = "settle" /\ due' = pending /\ held' = pending
              /\ UNCHANGED <<tickVars, ingest, listing, hand, estVars>>
    /\ UNCHANGED <<chainVars, row, slotSt, obs, summ, ctxDone>>

\* PendingSlotsBefore: the due slots, of every pool and epoch.
SettleStart ==
    LET pending == { k \in Pools \X Slots :
                       slotSt[k[1]][k[2]] = "pending" /\ Settleable(k[2], bfTip) } IN
    /\ EstimatesDone
    /\ IF pending = {}
         THEN EndTick /\ UNCHANGED held
         ELSE /\ rPc' = "settle" /\ due' = pending /\ held' = pending
              /\ UNCHANGED <<tickVars, ingest, listing, hand, estVars>>
    /\ UNCHANGED <<chainVars, row, slotSt, obs, summ, ctxDone>>

\* The loop goes through the slots oldest first, and is left after the last.
SlotDone(k) ==
    /\ rPc = "settle"
    /\ k \in due /\ \A j \in due : k[2] <= j[2]
    /\ held' = held \ {k}
    /\ IF due = {k} THEN EndTick
         ELSE due' = due \ {k} /\ UNCHANGED <<rPc, tickVars, ingest, listing, hand, estVars>>

\* A transient failure leaves the slot pending.
LookupFails(k) ==
    /\ Fails("slot")
    /\ SlotDone(k)
    /\ UNCHANGED <<chainVars, row, slotSt, obs, summ, ctxDone>>

\* BlockBySlot shows our block, another pool's block, or 404; the copy of the
\* row is saved with the outcome.
SettleSlot(k) ==
    /\ SlotDone(k)
    /\ SaveSlot(k[1], k[2], IF ShowsOurs(k[1], k[2]) THEN "produced" ELSE "missed")
    /\ UNCHANGED <<chainVars, row, obs, summ, ctxDone>>

ReconcilerNext ==
    \/ ReconcileTick \/ QuitTick
    \/ \E p \in Pools, e \in Epochs, n \in 1..NSlots : ListFails(p, e, n) \/ ListPage(p, e, n)
    \/ \E g \in listing : \E s \in g.hashes : BlockFails(g, s) \/ FetchBlock(g, s)
    \/ \E h \in hand : FindSlot(h) \/ MarkProduced(h)
    \/ \E g \in listing, h \in hand : RecordBlock(g, h)
    \/ \E p \in Pools, got \in SUBSET Fillable : EstimateRead(p, got)
    \/ \E x \in estHand : EstimateSave(x)
    \/ LatestFails \/ SettleStart
    \/ \E k \in due : LookupFails(k) \/ SettleSlot(k)

ReconcilerIdle ==
    /\ rPc = "idle" /\ rEpoch = EpochOf[0] /\ rTip = 0
    /\ ingest = {} /\ listing = {} /\ hand = {}
    /\ estTodo = {} /\ estHand = {} /\ due = {}

ReconcilerTypeOK ==
    /\ rPc \in {"idle", "tick", "find", "mark", "record", "estSave", "settle"}
    /\ rEpoch \in Epochs /\ rTip \in 0..NSlots
    /\ ingest \subseteq Pools \X Epochs
    /\ listing \subseteq Listing
    /\ hand \subseteq Hand
    /\ estTodo \subseteq Pools
    /\ estHand \subseteq [pool : Pools, ps : Row]
    /\ due \subseteq Pools \X Slots
=============================================================================
